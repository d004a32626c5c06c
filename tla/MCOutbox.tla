------------------------------ MODULE MCOutbox ------------------------------
(* Values of the constants of Outbox for model checking.                   *)
EXTENDS Outbox, TLC

CONSTANTS s1, s2

(* s2 becomes due for a reminder while s1 is already due.                  *)
TwoStarts == (s1 :> 1) @@ (s2 :> 2)

Doubled == [n \in 1 .. MaxAttempts |-> 2^(n - 1)]

(* Updates and reminders have rows of their own, so that a behaviour has    *)
(* messages of one sort only; with updates, bookings stay as they are.  With *)
(* reminders they change until the last start has come, after which no      *)
(* reminder is current whatever happens to its booking.                     *)
OneSort ==
  (\E u \in Update : row[u].id # 0) =>
    /\ \A m \in Reminder : row[m].id = 0
    /\ booking = [b \in Booking |-> [status |-> "confirmed", start |-> s1]]

MCInit == OutboxInit /\ OneSort

MCNext == OutboxNext /\ OneSort' /\ (booking' # booking => lead[s2] > 0)

MCSpec == MCInit /\ [][MCNext]_outboxVars /\ OutboxFairness
=============================================================================
