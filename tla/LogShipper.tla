----------------------------- MODULE LogShipper -----------------------------
(***************************************************************************)
(* The log shipper (logging/shipper.js): entries collect in a queue, and a *)
(* flush takes all of them into a batch that is posted with retries.  It   *)
(* flushes on a timer, when a batch is full, and once at shutdown, and     *)
(* flushes overlap.  The retry wrapper and the shipper log their own       *)
(* failures through utils/logger.js, which is written to ship warnings in  *)
(* turn.  Logging calls return here, as all their callers expect (README,  *)
(* section 7, tells what the exported logger does instead).                *)
(***************************************************************************)
EXTENDS Naturals, Sequences, FiniteSets

CONSTANTS BatchSize,
          MaxRetries,   \* send attempts per batch
          MaxEntries,   \* bound: entries the application ships
          MaxFlights,   \* bound: flushes in progress
          MaxFailures   \* bound: failed send attempts

ASSUME ShipperAssumption ==
    /\ BatchSize \in Nat \ {0}
    /\ MaxRetries \in Nat \ {0}
    /\ MaxEntries \in Nat /\ MaxFlights \in Nat /\ MaxFailures \in Nat

VARIABLES queue,     \* entries to ship; Own marks the shipper's own warnings
          flight,    \* flight[f]: a flush in progress
          shipped,   \* entries 1..shipped have been shipped by the application
          failures,  \* failed send attempts so far
          timer,     \* the periodic flush is on
          closing,   \* shutdown() was called, has returned
          awaited,   \* the flight shutdown() waits for, or none
          sent,      \* history: entries the destination has received
          overflow   \* history: the cap has cut the queue

vars == <<queue, flight, shipped, failures, timer, closing, awaited, sent, overflow>>

Own == 0
Flights == 1..MaxFlights
NoFlight == 0
Entries == 0..MaxEntries
FreeFlight == [phase |-> "free", batch |-> <<>>, left |-> 0]
Flight == [phase: {"free", "sending", "failed"}, batch: Seq(Entries), left: 0..MaxRetries]

TypeOK ==
    /\ queue \in Seq(Entries)
    /\ flight \in [Flights -> Flight]
    /\ shipped \in 0..MaxEntries
    /\ failures \in 0..MaxFailures
    /\ timer \in BOOLEAN
    /\ closing \in {"no", "flushing", "done"}
    /\ awaited \in Flights \cup {NoFlight}
    /\ sent \subseteq 1..MaxEntries
    /\ overflow \in BOOLEAN

Init ==
    /\ queue = <<>>
    /\ flight = [f \in Flights |-> FreeFlight]
    /\ shipped = 0
    /\ failures = 0
    /\ timer = TRUE
    /\ closing = "no"
    /\ awaited = NoFlight
    /\ sent = {}
    /\ overflow = FALSE

-----------------------------------------------------------------------------
InBatch(s) == {s[i] : i \in 1..Len(s)} \ {Own}

\* flush(): all of q goes into flight f, among the flights fl.
Flushed(fl, f, q) ==
    [fl EXCEPT ![f] = [phase |-> "sending", batch |-> q, left |-> MaxRetries]]

\* ship(): the entry is queued, and a full batch flushed, in fresh flight f.
Shipped(q, fl, f, entry) ==
    IF Len(q) + 1 >= BatchSize
    THEN [queue |-> <<>>, flight |-> Flushed(fl, f, Append(q, entry))]
    ELSE [queue |-> Append(q, entry), flight |-> fl]

Free(f) == flight[f].phase = "free"

Ship ==
    /\ shipped < MaxEntries
    /\ \E f \in Flights :
          /\ Free(f)
          /\ LET r == Shipped(queue, flight, f, shipped + 1) IN
             queue' = r.queue /\ flight' = r.flight
    /\ shipped' = shipped + 1
    /\ UNCHANGED <<failures, timer, closing, awaited, sent, overflow>>

TimerFlush ==
    /\ timer
    /\ queue # <<>>
    /\ \E f \in Flights : Free(f) /\ flight' = Flushed(flight, f, queue)
    /\ queue' = <<>>
    /\ UNCHANGED <<shipped, failures, timer, closing, awaited, sent, overflow>>

\* Mutant: shutdown is over only if nothing has been queued meanwhile.
ClosedWhenEmpty(f) ==
    LET over == awaited = f /\ queue = <<>> IN
    /\ closing' = IF over THEN "done" ELSE closing
    /\ awaited' = IF awaited = f THEN NoFlight ELSE awaited

\* What a flight that ends means for the shutdown that awaits it.
Closed(f) ==
    /\ closing' = IF awaited = f THEN "done" ELSE closing
    /\ awaited' = IF awaited = f THEN NoFlight ELSE awaited

SendSucceeds(f) ==
    /\ flight[f].phase = "sending"
    /\ sent' = sent \cup InBatch(flight[f].batch)
    /\ flight' = [flight EXCEPT ![f] = FreeFlight]
    /\ Closed(f)
    /\ UNCHANGED <<queue, shipped, failures, timer, overflow>>

\* An attempt fails, although the destination may have received the batch.  The
\* retry wrapper logs it: "retrying" while attempts are left, then "giving up".
SendFails(f) ==
    /\ flight[f].phase = "sending"
    /\ failures < MaxFailures
    /\ failures' = failures + 1
    /\ sent' \in {sent, sent \cup InBatch(flight[f].batch)}
    /\ \E g \in Flights :
          /\ Free(g)
          /\ LET left == flight[f].left - 1
                 now  == [flight EXCEPT
                            ![f].left = left,
                            ![f].phase = IF left = 0 THEN "failed" ELSE "sending"]
                 r    == Shipped(queue, now, g, Own)
             IN  queue' = r.queue /\ flight' = r.flight
    /\ UNCHANGED <<shipped, timer, closing, awaited, overflow>>

\* Mutant: entries queued since the flush are forgotten.
RequeueBatchOnly(f) ==
    /\ flight[f].phase = "failed"
    /\ queue' = flight[f].batch
    /\ flight' = [flight EXCEPT ![f] = FreeFlight]
    /\ Closed(f)
    /\ UNCHANGED <<shipped, failures, timer, sent, overflow>>

\* Mutant: the cap is not applied.
RequeueAll(f) ==
    /\ flight[f].phase = "failed"
    /\ queue' = flight[f].batch \o Append(queue, Own)
    /\ flight' = [flight EXCEPT ![f] = FreeFlight]
    /\ Closed(f)
    /\ UNCHANGED <<shipped, failures, timer, sent, overflow>>

\* The batch is put back before what was queued since, after a warning that is
\* itself queued; what exceeds twice the batch size is cut off at the end.
Requeue(f) ==
    /\ flight[f].phase = "failed"
    /\ \E g \in Flights :
          /\ Free(g)
          /\ LET r   == Shipped(queue, flight, g, Own)
                 all == flight[f].batch \o r.queue
             IN  /\ queue' = SubSeq(all, 1, IF Len(all) < 2 * BatchSize
                                            THEN Len(all) ELSE 2 * BatchSize)
                 /\ flight' = [r.flight EXCEPT ![f] = FreeFlight]
                 /\ overflow' = (overflow \/ Len(all) > 2 * BatchSize)
    /\ Closed(f)
    /\ UNCHANGED <<shipped, failures, timer, sent>>

\* shutdown(): stop the timer and wait for one last flush, if there is one.
Shutdown ==
    /\ closing = "no"
    /\ timer' = FALSE
    /\ IF queue = <<>>
       THEN closing' = "done" /\ UNCHANGED <<queue, flight, awaited>>
       ELSE \E f \in Flights :
               /\ Free(f)
               /\ flight' = Flushed(flight, f, queue)
               /\ queue' = <<>>
               /\ closing' = "flushing"
               /\ awaited' = f
    /\ UNCHANGED <<shipped, failures, sent, overflow>>

Flying(f) == SendSucceeds(f) \/ SendFails(f) \/ Requeue(f)

\* Nothing ends with the shutdown: the process exits on its own, and until then
\* flights go on and entries are shipped.
Next ==
    \/ Ship \/ Shutdown \/ TimerFlush
    \/ \E f \in Flights : Flying(f)

Spec == Init /\ [][Next]_vars

\* The timer fires and every send is answered or times out, while the process is
\* there: a caller of the shutdown may exit when that has returned.
FairSpec ==
    /\ Spec
    /\ WF_vars(TimerFlush)
    /\ \A f \in Flights : WF_vars(closing # "done" /\ Flying(f))

-----------------------------------------------------------------------------
Held == InBatch(queue) \cup UNION {InBatch(flight[f].batch) : f \in Flights}

\* shipper.js:52, "On persistent failure, re-enqueue with an upper cap".
\* However many flushes fail and overlap, the waiting entries stay within two
\* batches, and an entry is lost only to this cap: until it has cut the queue, each
\* shipped entry is waiting, under way or received.
LostOnlyToCap ==
    /\ TypeOK
    /\ Len(queue) =< 2 * BatchSize
    /\ ~overflow => 1..shipped \subseteq Held \cup sent

\* Once the destination answers again, everything shipped is received, if the
\* cap did not cut it off and the process was not shut down meanwhile.
EntriesArrive ==
    \A e \in 1..MaxEntries : shipped >= e ~> e \in sent \/ overflow \/ closing # "no"

\* shutdown() returns, however often the destination fails and whatever is
\* shipped while the last flush is under way.
ShutdownReturns == closing = "flushing" ~> closing = "done"
=============================================================================
