--------------------------- MODULE IdempotencyKeys ---------------------------
(***************************************************************************)
(* Reservations of an idempotency key (utils/idempotency.js), used as its  *)
(* header tells handlers to: reserve; if the key is taken, answer with the *)
(* stored result or refuse; otherwise process and store the result.  A     *)
(* handler that fails releases its reservation.  Storing and releasing     *)
(* delete the reservation of whoever holds it.  Deliveries are repeats of  *)
(* one request; keys do not interact.                                      *)
(***************************************************************************)
EXTENDS Naturals, FiniteSets

CONSTANTS Deliveries,  \* deliveries of one request, each with its handler
          NoDelivery

ASSUME DeliveryAssumption == NoDelivery \notin Deliveries

VARIABLES reservation,  \* whose token the reservation key holds
          stored,       \* the result key exists
          step,         \* step[d]: where the handler of d is
          lapsed        \* history: a reservation ran out under its handler

idemState == <<reservation, stored, step, lapsed>>

Busy == {"working", "storing", "releasing"}
Ended == {"stored", "repeated", "refused", "failed"}

IdemTypeOK ==
    /\ reservation \in Deliveries \cup {NoDelivery}
    /\ stored \in BOOLEAN
    /\ step \in [Deliveries -> {"new", "taken"} \cup Busy \cup Ended]
    /\ lapsed \in BOOLEAN

IdemInit ==
    /\ reservation = NoDelivery
    /\ stored = FALSE
    /\ step = [d \in Deliveries |-> "new"]
    /\ lapsed = FALSE

-----------------------------------------------------------------------------
Goes(d, s) == step' = [step EXCEPT ![d] = s]

\* Mutant: the key is set although it exists.
ReserveAnyway(d) ==
    /\ step[d] = "new"
    /\ reservation' = d
    /\ Goes(d, "working")
    /\ UNCHANGED <<stored, lapsed>>

\* tryReserveKey(): SET NX, or an error, which may follow a SET that was done.
Reserve(d) ==
    /\ step[d] = "new"
    /\ \/ IF reservation = NoDelivery
          THEN reservation' = d /\ Goes(d, "working")
          ELSE UNCHANGED reservation /\ Goes(d, "taken")
       \/ /\ reservation' \in {reservation, IF reservation = NoDelivery THEN d ELSE reservation}
          /\ Goes(d, "failed")
    /\ UNCHANGED <<stored, lapsed>>

\* getProcessed(): an error reads as no result.
ReadResult(d) ==
    /\ step[d] = "taken"
    /\ \/ stored /\ Goes(d, "repeated")
       \/ Goes(d, "refused")
    /\ UNCHANGED <<reservation, stored, lapsed>>

\* The handler has done its work, failed, or stopped with its process.
Process(d) ==
    /\ step[d] = "working"
    /\ \E s \in {"storing", "releasing", "failed"} : Goes(d, s)
    /\ UNCHANGED <<reservation, stored, lapsed>>

\* setProcessed(): one transaction stores the result and deletes the
\* reservation; an error may follow it or not.
SetProcessed(d) ==
    /\ step[d] = "storing"
    /\ \/ stored' = TRUE /\ reservation' = NoDelivery /\ Goes(d, "stored")
       \/ stored' = TRUE /\ reservation' = NoDelivery /\ Goes(d, "failed")
       \/ UNCHANGED <<stored, reservation>> /\ Goes(d, "failed")
    /\ UNCHANGED lapsed

\* releaseKey(): whatever goes wrong is only logged.
Release(d) ==
    /\ step[d] = "releasing"
    /\ reservation' \in {reservation, NoDelivery}
    /\ Goes(d, "failed")
    /\ UNCHANGED <<stored, lapsed>>

\* A reservation runs out, possibly while its handler is still busy.
ReservationExpires ==
    /\ reservation # NoDelivery
    /\ reservation' = NoDelivery
    /\ lapsed' = (lapsed \/ step[reservation] \in Busy)
    /\ UNCHANGED <<stored, step>>

ResultExpires ==
    /\ stored
    /\ stored' = FALSE
    /\ UNCHANGED <<reservation, step, lapsed>>

IdemNext ==
    \/ ReservationExpires \/ ResultExpires
    \/ \E d \in Deliveries :
          Reserve(d) \/ ReadResult(d) \/ Process(d) \/ SetProcessed(d) \/ Release(d)

IdemSpec == IdemInit /\ [][IdemNext]_idemState

-----------------------------------------------------------------------------
\* Two handlers of a request are busy at once only after a reservation has run
\* out under its handler: until then a busy handler holds the reservation, and
\* no other delivery's ending takes it away.
BusyHoldsReservation ==
    ~lapsed => \A d \in Deliveries : step[d] \in Busy => reservation = d
=============================================================================
