------------------------- MODULE TeamCapacityProofs -------------------------
(***************************************************************************)
(* Proofs about TeamCapacity for every value of its constants.             *)
(***************************************************************************)
EXTENDS TeamCapacity, TLAPS

(* Arithmetic of days.                                                     *)

LEMMA ProductNat ==
  ASSUME NEW m \in Nat, NEW n \in Nat
  PROVE  m * n \in Nat
  OBVIOUS

LEMMA ProductMonotonic ==
  ASSUME NEW a \in Nat, NEW b \in Nat, NEW m \in Nat, a <= b
  PROVE  a * m <= b * m
<1> DEFINE r == b - a
<1>1. r \in Nat /\ b = a + r
  OBVIOUS
<1> HIDE DEF r
<1>2. b * m = a * m + r * m
  BY <1>1
<1>3. r * m \in Nat /\ a * m \in Nat
  BY <1>1, ProductNat
<1> QED  BY <1>2, <1>3

LEMMA DayStartBelow ==
  ASSUME NEW s \in Nat
  PROVE  DayStart(s) \in Nat /\ DayStart(s) <= s /\ DayEnd(s) \in Nat /\ s < DayEnd(s)
  BY CapacityConstants DEF DayStart, DayEnd, DayOf

LEMMA LaterDay ==
  ASSUME NEW s \in Nat, NEW r \in Nat, DayEnd(s) <= r
  PROVE  DayEnd(s) <= DayStart(r)
<1> DEFINE p == DayOf(s)
           q == DayOf(r)
<1>1. DayLength \in Nat \ {0}
  BY CapacityConstants
<1>2. /\ p \in Nat /\ q \in Nat
      /\ r < q * DayLength + DayLength
  BY <1>1 DEF DayOf
<1>3. DayEnd(s) = p * DayLength + DayLength /\ DayStart(r) = q * DayLength
  BY DEF DayEnd, DayStart
<1> HIDE DEF p, q
<1>4. p * DayLength \in Nat /\ q * DayLength \in Nat
  BY <1>1, <1>2, ProductNat
<1>5. p < q
  <2> SUFFICES ASSUME q <= p
               PROVE  FALSE
    BY <1>2
  <2>1. q * DayLength <= p * DayLength
    BY <1>1, <1>2, ProductMonotonic
  <2> QED  BY <1>1, <1>2, <1>3, <1>4, <2>1
<1>6. p * DayLength + DayLength <= q * DayLength
  <2> DEFINE n == p + 1
  <2>1. n \in Nat /\ n <= q
    BY <1>2, <1>5
  <2>2. n * DayLength = p * DayLength + DayLength
    BY <1>1, <1>2
  <2> HIDE DEF n
  <2>3. n * DayLength <= q * DayLength
    BY <1>1, <1>2, <2>1, ProductMonotonic
  <2> QED  BY <2>2, <2>3
<1> QED  BY <1>3, <1>6

LEMMA GridStartsNat == GridStarts \subseteq Nat
<1> SUFFICES ASSUME NEW d \in OpenDays, NEW k \in 0 .. (Closing - Opening) \div SlotLength
             PROVE  d * DayLength + Opening + k * SlotLength \in Nat
  BY DEF GridStarts
<1>1. d \in Nat /\ DayLength \in Nat /\ SlotLength \in Nat /\ Opening \in Nat /\ k \in Nat
  BY CapacityConstants
<1>2. d * DayLength \in Nat /\ k * SlotLength \in Nat
  BY <1>1, ProductNat
<1> QED  BY <1>1, <1>2

LEMMA HorizonNat == Horizon \in Nat /\ Instant \subseteq Nat
  BY CapacityConstants, ProductNat DEF Horizon, Instant

LEMMA QuotientFits ==
  ASSUME NEW n \in Int, NEW m \in Nat \ {0}, NEW k \in 0 .. n \div m
  PROVE  k * m \in Nat /\ k * m <= n
<1> DEFINE q == n \div m
<1>1. q * m <= n /\ q \in Int
  OBVIOUS
<1> HIDE DEF q
<1>2. k \in Nat /\ q \in Nat /\ k <= q
  BY <1>1 DEF q
<1>3. k * m <= q * m
  BY <1>2, ProductMonotonic
<1>4. k * m \in Nat /\ q * m \in Nat
  BY <1>2, ProductNat
<1> QED  BY <1>1, <1>3, <1>4

LEMMA GridInHorizon == GridStarts \subseteq Instant
<1> SUFFICES ASSUME NEW d \in OpenDays, NEW k \in 0 .. (Closing - Opening) \div SlotLength
             PROVE  d * DayLength + Opening + k * SlotLength \in Instant
  BY DEF GridStarts
<1>1. /\ d \in Nat /\ Days \in Nat /\ d + 1 <= Days /\ DayLength \in Nat \ {0}
      /\ SlotLength \in Nat \ {0} /\ Opening \in Nat /\ Closing \in Nat /\ Closing < DayLength
  BY CapacityConstants
<1>3. k * SlotLength \in Nat /\ k * SlotLength <= Closing - Opening
  BY <1>1, QuotientFits
<1>4. (d + 1) * DayLength <= Days * DayLength /\ (d + 1) * DayLength = d * DayLength + DayLength
  <2>1. (d + 1) * DayLength <= Days * DayLength
    <3> DEFINE a == d + 1
    <3>1. a \in Nat /\ a <= Days
      BY <1>1
    <3> HIDE DEF a
    <3>2. a * DayLength <= Days * DayLength
      BY <1>1, <3>1, ProductMonotonic
    <3> QED  BY <3>2 DEF a
  <2>2. (d + 1) * DayLength = d * DayLength + DayLength
    BY <1>1
  <2> QED  BY <2>1, <2>2
<1>5. d * DayLength \in Nat /\ Days * DayLength \in Nat
  BY <1>1, ProductNat
<1> QED  BY <1>1, <1>3, <1>4, <1>5 DEF Instant, Horizon

LEMMA GridInHours ==
  ASSUME NEW s \in GridStarts
  PROVE  DayStart(s) + Opening <= s
<1>1. PICK d \in OpenDays, k \in 0 .. (Closing - Opening) \div SlotLength :
        s = d * DayLength + Opening + k * SlotLength
  BY DEF GridStarts
<1>2. /\ d \in Nat /\ DayLength \in Nat \ {0} /\ SlotLength \in Nat \ {0}
      /\ Opening \in Nat /\ Closing \in Nat /\ Closing < DayLength
  BY CapacityConstants
<1>3. k * SlotLength \in Nat /\ k * SlotLength <= Closing - Opening
  BY <1>2, QuotientFits
<1> DEFINE q == s \div DayLength
<1>4. s \in Nat
  BY GridStartsNat
<1>5. q \in Nat /\ q * DayLength <= s /\ s < q * DayLength + DayLength
  BY <1>2, <1>4
<1>6. DayStart(s) = q * DayLength
  BY DEF DayStart, DayOf
<1>7. d * DayLength \in Nat /\ q * DayLength \in Nat
  BY <1>2, <1>5, ProductNat
<1>8. s < d * DayLength + DayLength
  BY <1>1, <1>2, <1>3, <1>7
<1> HIDE DEF q
<1>9. q <= d
  <2> SUFFICES ASSUME d < q
               PROVE  FALSE
    BY <1>2, <1>5
  <2> DEFINE n == d + 1
  <2>1. n \in Nat /\ n <= q
    BY <1>2, <1>5
  <2>2. n * DayLength = d * DayLength + DayLength
    BY <1>2
  <2> HIDE DEF n
  <2>3. n * DayLength <= q * DayLength
    BY <1>2, <1>5, <2>1, ProductMonotonic
  <2>4. d * DayLength + DayLength <= s
    BY <1>2, <1>4, <1>5, <1>7, <2>2, <2>3
  <2> QED  BY <1>2, <1>4, <1>7, <1>8, <2>4
<1>10. q * DayLength <= d * DayLength
  BY <1>2, <1>5, <1>9, ProductMonotonic
<1> QED  BY <1>1, <1>2, <1>3, <1>6, <1>7, <1>10

LEMMA DurationPositive ==
  ASSUME NEW d \in Durations, NEW v \in VehicleCounts
  PROVE  OperationalDuration(d, v) \in Nat \ {0}
  BY CapacityConstants, ProductNat DEF OperationalDuration, RequiredSlots
-----------------------------------------------------------------------------
(* Rows that the helpers of the specification build.                       *)

LEMMA SlotRows ==
  /\ FreeSlot \in SlotRow
  /\ BlockedSlot \in SlotRow
  /\ \A h \in HoldId, n \in Nat : HeldSlot(h, n) \in SlotRow
  /\ \A b \in BookingId, h \in HoldId \cup {NoHold} : ReservedSlot(b, h) \in SlotRow
  BY DEF FreeSlot, BlockedSlot, HeldSlot, ReservedSlot, SlotRow

LEMMA OverwriteType ==
  ASSUME TypeOK, NEW xs, NEW row \in SlotRow
  PROVE  Overwrite(xs, row) \in [Team \X Instant -> SlotRow]
  BY DEF TypeOK, Overwrite

LEMMA ReplaceType ==
  ASSUME TypeOK, NEW freed, NEW taken, NEW row \in SlotRow
  PROVE  Replace(freed, taken, row) \in [Team \X Instant -> SlotRow]
  BY SlotRows DEF TypeOK, Replace

(* ExpireStale touches only the status of holds, and only of active ones.  *)
Marked(new, old) ==
  /\ new.status = old.status \/ (old.status = "active" /\ new.status = "expired")
  /\ new.team = old.team
  /\ new.start = old.start
  /\ new.end = old.end
  /\ new.vehicles = old.vehicles
  /\ new.expires = old.expires

LEMMA ExpireStaleRows ==
  ASSUME NEW holds \in [HoldId -> HoldRow], NEW xs
  PROVE  /\ ExpireStale(holds, xs) \in [HoldId -> HoldRow]
         /\ \A h \in HoldId : Marked(ExpireStale(holds, xs)[h], holds[h])
<1> DEFINE stale == {slot[x].hold : x \in {y \in xs : StaleHeld(slot[y])}}
<1>1. ExpireStale(holds, xs) =
        [h \in HoldId |-> IF h \in stale /\ holds[h].status = "active"
                          THEN [holds[h] EXCEPT !.status = "expired"]
                          ELSE holds[h]]
  BY DEF ExpireStale
<1> HIDE DEF stale
<1>2. \A h \in HoldId :
        LET r == [holds[h] EXCEPT !.status = "expired"]
        IN r \in HoldRow /\ (holds[h].status = "active" => Marked(r, holds[h]))
  BY DEF HoldRow, Marked
<1>3. \A h \in HoldId : Marked(holds[h], holds[h])
  BY DEF Marked
<1> QED  BY <1>1, <1>2, <1>3
-----------------------------------------------------------------------------
(* Types and intervals.                                                    *)

Sane == TypeOK /\ Intervals

LEMMA InitSane == Init => Sane
<1> SUFFICES ASSUME Init  PROVE Sane
  OBVIOUS
<1>1. slot \in [Team \X Instant -> SlotRow]
  BY SlotRows DEF Init
<1>2. \A h \in HoldId : hold[h] \in HoldRow /\ hold[h].status = "none"
  BY DEF Init, HoldRow
<1>3. \A b \in BookingId : booking[b] \in BookingRow
  BY DEF Init, BookingRow
<1>4. \A b \in BookingId : job[b] \in JobRow /\ job[b].status = "none"
  BY DEF Init, JobRow, JobStatus
<1>5. TypeOK
  BY <1>1, <1>2, <1>3, <1>4 DEF Init, TypeOK
<1>6. \A b \in BookingId : request[b] = "none" /\ booking[b].status = "none"
  BY DEF Init
<1> QED  BY <1>2, <1>4, <1>5, <1>6 DEF Sane, Intervals

LEMMA CreateHoldSane ==
  ASSUME Sane, NEW h \in HoldId, NEW t \in Team, NEW s \in GridStarts,
         NEW v \in VehicleCounts, NEW d \in Durations, CreateHold(h, t, s, v, d)
  PROVE  Sane'
<1> DEFINE e       == s + OperationalDuration(d, v)
           targets == SlotsOfTeam(t, Windows(s, v))
           expires == now + HoldLife
           new     == [status |-> "active", team |-> t, start |-> s, end |-> e,
                       vehicles |-> v, expires |-> expires]
<1>1. s \in Nat /\ e \in Nat /\ v \in Nat /\ expires \in Nat /\ e - s \in Spans(v)
  BY GridStartsNat, DurationPositive, CapacityConstants DEF Spans, Sane, TypeOK
<1>2. new \in HoldRow
  BY <1>1 DEF HoldRow
<1>3. ExpireStale(hold, targets) \in [HoldId -> HoldRow]
  BY ExpireStaleRows DEF Sane, TypeOK
<1>4. /\ hold' = [ExpireStale(hold, targets) EXCEPT ![h] = new]
      /\ slot' = Overwrite(targets, HeldSlot(h, expires))
      /\ UNCHANGED <<now, eligible, booking, job, request>>
  BY DEF CreateHold
<1> HIDE DEF new, targets
<1>5. TypeOK'
  BY <1>1, <1>2, <1>3, <1>4, SlotRows, OverwriteType DEF Sane, TypeOK
<1>6. \A g \in HoldId \ {h} :
        /\ hold'[g].status # "none" => hold[g].status # "none"
        /\ hold'[g].vehicles = hold[g].vehicles
        /\ hold'[g].start = hold[g].start
        /\ hold'[g].end = hold[g].end
  BY <1>3, <1>4, ExpireStaleRows DEF Sane, TypeOK, Marked
<1>7. hold'[h] = new
  BY <1>3, <1>4
<1>8. Intervals'
  BY <1>1, <1>4, <1>6, <1>7 DEF Sane, Intervals, Spans, new, OperationalDuration, RequiredSlots
<1> QED  BY <1>5, <1>8 DEF Sane

LEMMA SpanNat ==
  ASSUME NEW v \in VehicleCounts
  PROVE  Spans(v) \subseteq Nat \ {0}
  BY DurationPositive DEF Spans

LEMMA BookingSpan ==
  ASSUME Sane, NEW h \in HoldId, hold[h].status # "none", NEW d \in Durations
  PROVE  LET e == hold[h].start + OperationalDuration(d, hold[h].vehicles)
         IN /\ hold[h].start \in Nat
            /\ hold[h].vehicles \in VehicleCounts
            /\ e \in Nat
            /\ e - hold[h].start \in Spans(hold[h].vehicles)
<1>1. hold[h].start \in Nat /\ hold[h].vehicles \in VehicleCounts
  BY DEF Sane, TypeOK, HoldRow, Intervals
<1>2. OperationalDuration(d, hold[h].vehicles) \in Nat
  BY <1>1, DurationPositive
<1>3. OperationalDuration(d, hold[h].vehicles) \in Spans(hold[h].vehicles)
  BY DEF Spans
<1> QED  BY <1>1, <1>2, <1>3

LEMMA UsableIsActive ==
  ASSUME NEW h \in HoldId, HoldUsable(h)
  PROVE  hold[h].status = "active" /\ hold[h].expires > now
  BY DEF HoldUsable

LEMMA RowFields ==
  ASSUME Sane
  PROVE  /\ \A h \in HoldId : /\ hold[h].team \in Team \cup {NoTeam}
                              /\ hold[h].start \in Nat /\ hold[h].end \in Nat
                              /\ hold[h].vehicles \in Nat /\ hold[h].expires \in Nat
         /\ \A b \in BookingId : /\ job[b].team \in Team \cup {NoTeam}
                                 /\ job[b].start \in Nat /\ job[b].end \in Nat
                                 /\ job[b].source \in {"auto", "manual"}
  BY DEF Sane, TypeOK, HoldRow, JobRow

LEMMA NewRows ==
  ASSUME Sane, NEW h \in HoldId, NEW e \in Nat,
         NEW status \in {"pending_payment", "confirmed"}
  PROVE  /\ NewBooking(status, h, e) \in BookingRow
         /\ NewJob(h, e) \in JobRow
  BY RowFields DEF NewBooking, NewJob, BookingRow, JobRow, JobStatus, BlockingStatus

LEMMA BookPayAfterSane ==
  ASSUME Sane, NEW b \in BookingId, NEW h \in HoldId, NEW d \in Durations,
         BookPayAfter(b, h, d)
  PROVE  Sane'
<1> DEFINE e == hold[h].start + OperationalDuration(d, hold[h].vehicles)
<1>1. hold[h].status = "active" /\ booking[b].status = "none"
  BY UsableIsActive DEF BookPayAfter, BookingChecks
<1>2. /\ e \in Nat
      /\ hold[h].vehicles \in VehicleCounts
      /\ e - hold[h].start \in Spans(hold[h].vehicles)
  BY <1>1, BookingSpan
<1>3. /\ booking' = [booking EXCEPT ![b] = NewBooking("confirmed", h, e)]
      /\ job' = [job EXCEPT ![b] = NewJob(h, e)]
      /\ hold' = [hold EXCEPT ![h] = [@ EXCEPT !.status = "consumed", !.end = e]]
      /\ slot' = Overwrite(SlotsOfHold(h), ReservedSlot(b, h))
      /\ UNCHANGED <<now, eligible, request>>
  BY DEF BookPayAfter
<1> HIDE DEF e
<1>4. TypeOK'
  <2>1. booking' \in [BookingId -> BookingRow] /\ job' \in [BookingId -> JobRow]
    BY <1>2, <1>3, NewRows DEF Sane, TypeOK
  <2>2. hold' \in [HoldId -> HoldRow]
    BY ZenonT(40), <1>2, <1>3 DEF Sane, TypeOK, HoldRow
  <2>3. slot' \in [Team \X Instant -> SlotRow]
    BY <1>3, SlotRows, OverwriteType DEF Sane
  <2> QED  BY <2>1, <2>2, <2>3, <1>3 DEF Sane, TypeOK
<1>5. Intervals'
  BY <1>1, <1>2, <1>3 DEF Sane, TypeOK, Intervals, HoldRow, NewBooking, NewJob, Spans,
                          OperationalDuration, RequiredSlots
<1> QED  BY <1>4, <1>5 DEF Sane

LEMMA BookPayNowSane ==
  ASSUME Sane, NEW b \in BookingId, NEW h \in HoldId, NEW d \in Durations,
         BookPayNow(b, h, d)
  PROVE  Sane'
<1> DEFINE e == hold[h].start + OperationalDuration(d, hold[h].vehicles)
<1>1. hold[h].status = "active" /\ booking[b].status = "none"
  BY UsableIsActive DEF BookPayNow, BookingChecks
<1>2. /\ e \in Nat
      /\ e - hold[h].start \in Spans(hold[h].vehicles)
  BY <1>1, BookingSpan
<1>3. /\ booking' = [booking EXCEPT ![b] = NewBooking("pending_payment", h, e)]
      /\ hold' = [hold EXCEPT ![h].end = e]
      /\ slot' = [x \in DOMAIN slot |->
                    IF slot[x].hold = h THEN [slot[x] EXCEPT !.booking = b] ELSE slot[x]]
      /\ UNCHANGED <<now, eligible, job, request>>
  BY DEF BookPayNow
<1> HIDE DEF e
<1>4. TypeOK'
  <2>1. booking' \in [BookingId -> BookingRow]
    BY <1>2, <1>3, NewRows DEF Sane, TypeOK
  <2>2. hold' \in [HoldId -> HoldRow]
    BY <1>2, <1>3 DEF Sane, TypeOK, HoldRow
  <2>3. slot' \in [Team \X Instant -> SlotRow]
    BY <1>3 DEF Sane, TypeOK, SlotRow
  <2> QED  BY <2>1, <2>2, <2>3, <1>3 DEF Sane, TypeOK
<1>5. Intervals'
  BY <1>1, <1>2, <1>3 DEF Sane, TypeOK, Intervals, HoldRow, NewBooking, Spans,
                          OperationalDuration, RequiredSlots
<1> QED  BY <1>4, <1>5 DEF Sane

(* A job that is moved keeps the length of its interval.                   *)
LEMMA MovedSpan ==
  ASSUME Sane, NEW b \in BookingId, job[b].status # "none", NEW s \in Nat
  PROVE  LET e == s + (job[b].end - job[b].start)
         IN /\ e \in Nat
            /\ s < e
            /\ booking[b].status # "none"
            /\ booking[b].vehicles \in VehicleCounts
            /\ e - s \in Spans(booking[b].vehicles)
<1>1. /\ booking[b].status # "none"
      /\ booking[b].vehicles \in VehicleCounts
      /\ job[b].end - job[b].start \in Spans(booking[b].vehicles)
  BY DEF Sane, Intervals
<1>2. job[b].end - job[b].start \in Nat \ {0}
  BY <1>1, SpanNat
<1>3. LET e == s + (job[b].end - job[b].start) IN e - s = job[b].end - job[b].start
  BY <1>2
<1> QED  BY <1>1, <1>2, <1>3

LEMMA RescheduleByHoldSane ==
  ASSUME Sane, NEW b \in BookingId, NEW h \in HoldId, RescheduleByHold(b, h)
  PROVE  Sane'
<1> DEFINE s       == hold[h].start
           e       == s + (job[b].end - job[b].start)
           t       == IF job[b].source = "manual" THEN job[b].team ELSE hold[h].team
           held    == SlotsOfHold(h)
           targets == IF t = hold[h].team THEN held ELSE SlotsOfTeam(t, {x[2] : x \in held})
           row     == ReservedSlot(b, IF t = hold[h].team THEN h ELSE NoHold)
           marked  == ExpireStale(hold, targets)
<1>1. /\ hold[h].status = "active"
      /\ job[b].status # "none"
      /\ hold[h].vehicles = booking[b].vehicles
  BY UsableIsActive DEF RescheduleByHold, CustomerMayReschedule, StaffMayReschedule
<1>2. /\ s \in Nat /\ e \in Nat /\ t \in Team \cup {NoTeam}
      /\ booking[b].status # "none"
      /\ booking[b].vehicles \in VehicleCounts
      /\ e - s \in Spans(booking[b].vehicles)
  BY <1>1, RowFields, MovedSpan
<1>3. /\ slot' = Replace(SlotsOfBooking(b) \cup held, targets, row)
      /\ hold' = [marked EXCEPT
                    ![h] = [@ EXCEPT !.status = "consumed", !.team = t, !.end = e]]
      /\ booking' = [booking EXCEPT
                       ![b] = [@ EXCEPT !.team = t, !.start = s, !.end = e, !.hold = h]]
      /\ job' = [job EXCEPT
                   ![b] = [@ EXCEPT !.status = "assigned", !.team = t, !.start = s, !.end = e]]
      /\ UNCHANGED <<now, eligible, request>>
  BY DEF RescheduleByHold
<1>4. /\ marked \in [HoldId -> HoldRow]
      /\ \A g \in HoldId : Marked(marked[g], hold[g])
  BY ExpireStaleRows DEF Sane, TypeOK
<1>5. row \in SlotRow
  BY SlotRows
<1> HIDE DEF s, e, t, held, targets, row, marked
<1>6. TypeOK'
  <2>1. booking' \in [BookingId -> BookingRow]
    <3>1. booking[b] \in BookingRow
      BY DEF Sane, TypeOK
    <3>2. [booking[b] EXCEPT !.team = t, !.start = s, !.end = e, !.hold = h] \in BookingRow
      BY <3>1, <1>2 DEF BookingRow
    <3> QED  BY <3>2, <1>3 DEF Sane, TypeOK
  <2>2. job' \in [BookingId -> JobRow]
    BY ZenonT(40), <1>2, <1>3 DEF Sane, TypeOK, JobRow, JobStatus, BlockingStatus
  <2>3. hold' \in [HoldId -> HoldRow]
    BY <1>2, <1>3, <1>4 DEF HoldRow
  <2>4. slot' \in [Team \X Instant -> SlotRow]
    BY <1>3, <1>5, ReplaceType DEF Sane
  <2> QED  BY <2>1, <2>2, <2>3, <2>4, <1>3 DEF Sane, TypeOK
<1>7. Intervals'
  <2>1. ASSUME NEW g \in HoldId, hold'[g].status # "none"
        PROVE  /\ hold'[g].vehicles \in VehicleCounts
               /\ hold'[g].start \in GridStarts
               /\ hold'[g].end - hold'[g].start \in Spans(hold'[g].vehicles)
    <3>1. /\ hold[g].status # "none"
          /\ marked[g].vehicles = hold[g].vehicles
          /\ marked[g].start = hold[g].start
          /\ marked[g].end = hold[g].end
      BY <2>1, <1>1, <1>3, <1>4 DEF Marked
    <3>2. CASE g = h
      <4>1. /\ hold'[h].end = e
            /\ hold'[h].start = s
            /\ hold'[h].vehicles = booking[b].vehicles
        BY <1>1, <1>3, <1>4, <3>1, <3>2 DEF s, HoldRow
      <4> QED  BY <4>1, <3>2, <3>1, <1>2 DEF Sane, Intervals, s
    <3>3. CASE g # h
      <4>1. hold'[g] = marked[g]
        BY <1>3, <1>4, <3>3
      <4> QED  BY <4>1, <3>1 DEF Sane, Intervals
    <3> QED  BY <3>2, <3>3
  <2>2. ASSUME NEW c \in BookingId, job'[c].status # "none"
        PROVE  /\ booking'[c].status # "none"
               /\ booking'[c].vehicles \in VehicleCounts
               /\ job'[c].end - job'[c].start \in Spans(booking'[c].vehicles)
    BY <2>2, <1>2, <1>3 DEF Sane, TypeOK, Intervals, BookingRow, JobRow
  <2>3. ASSUME NEW c \in BookingId, request'[c] # "none" \/ booking'[c].status = "confirmed"
        PROVE  job'[c].status # "none"
    BY <2>3, <1>3 DEF Sane, TypeOK, Intervals, BookingRow, JobRow
  <2> QED  BY <2>1, <2>2, <2>3
           DEF Intervals, Spans, OperationalDuration, RequiredSlots, GridStarts
<1> QED  BY <1>6, <1>7 DEF Sane

LEMMA RescheduleExactSane ==
  ASSUME Sane, NEW b \in BookingId, NEW t \in Team, NEW s \in Instant,
         NEW override \in BOOLEAN, RescheduleExact(b, t, s, override)
  PROVE  Sane'
<1> DEFINE e == s + (job[b].end - job[b].start)
           freed == SlotsOfBooking(b)
<1>1. job[b].status # "none" /\ s \in Nat
  BY HorizonNat DEF RescheduleExact, StaffMayReschedule
<1>2. /\ e \in Nat
      /\ booking[b].status # "none"
      /\ booking[b].vehicles \in VehicleCounts
      /\ e - s \in Spans(booking[b].vehicles)
  BY <1>1, MovedSpan
<1>3. /\ slot' = Replace(freed, {<<t, s>>}, ReservedSlot(b, NoHold))
      /\ hold' = ExpireStale(hold, {<<t, s>>} \ freed)
      /\ booking' = [booking EXCEPT ![b] = [@ EXCEPT !.team = t, !.start = s, !.end = e]]
      /\ job' = [job EXCEPT
                   ![b] = [@ EXCEPT !.status = "assigned", !.team = t, !.start = s, !.end = e]]
      /\ UNCHANGED <<now, eligible, request>>
  BY DEF RescheduleExact
<1>4. /\ hold' \in [HoldId -> HoldRow]
      /\ \A g \in HoldId : Marked(hold'[g], hold[g])
  BY <1>3, ExpireStaleRows DEF Sane, TypeOK
<1> HIDE DEF e, freed
<1>5. TypeOK'
  <2>1. booking' \in [BookingId -> BookingRow]
    <3>1. booking[b] \in BookingRow
      BY DEF Sane, TypeOK
    <3>2. [booking[b] EXCEPT !.team = t, !.start = s, !.end = e] \in BookingRow
      BY <3>1, <1>1, <1>2 DEF BookingRow
    <3> QED  BY <3>2, <1>3 DEF Sane, TypeOK
  <2>2. job' \in [BookingId -> JobRow]
    BY ZenonT(40), <1>1, <1>2, <1>3 DEF Sane, TypeOK, JobRow, JobStatus, BlockingStatus
  <2>3. slot' \in [Team \X Instant -> SlotRow]
    BY <1>3, SlotRows, ReplaceType DEF Sane
  <2> QED  BY <2>1, <2>2, <2>3, <1>3, <1>4 DEF Sane, TypeOK
<1>6. Intervals'
  <2>1. ASSUME NEW g \in HoldId, hold'[g].status # "none"
        PROVE  /\ hold'[g].vehicles \in VehicleCounts
               /\ hold'[g].start \in GridStarts
               /\ hold'[g].end - hold'[g].start \in Spans(hold'[g].vehicles)
    BY <2>1, <1>4 DEF Sane, Intervals, Marked
  <2>2. ASSUME NEW c \in BookingId, job'[c].status # "none"
        PROVE  /\ booking'[c].status # "none"
               /\ booking'[c].vehicles \in VehicleCounts
               /\ job'[c].end - job'[c].start \in Spans(booking'[c].vehicles)
    BY <2>2, <1>2, <1>3 DEF Sane, TypeOK, Intervals, BookingRow, JobRow
  <2>3. ASSUME NEW c \in BookingId, request'[c] # "none" \/ booking'[c].status = "confirmed"
        PROVE  job'[c].status # "none"
    BY <2>3, <1>3 DEF Sane, TypeOK, Intervals, BookingRow, JobRow
  <2> QED  BY <2>1, <2>2, <2>3
           DEF Intervals, Spans, OperationalDuration, RequiredSlots, GridStarts
<1> QED  BY <1>5, <1>6 DEF Sane

LEMMA AssignAutoSane ==
  ASSUME Sane, NEW b \in BookingId, NEW t \in Team, AssignAuto(b, t)
  PROVE  Sane'
<1>1. [job[b] EXCEPT !.team = t, !.source = "auto"] \in JobRow
  BY DEF Sane, TypeOK, JobRow
<1>2. TypeOK'
  BY <1>1 DEF AssignAuto, Sane, TypeOK
<1>3. Intervals'
  BY DEF AssignAuto, Sane, TypeOK, JobRow, Intervals, Spans, OperationalDuration, RequiredSlots
<1> QED  BY <1>2, <1>3 DEF Sane

LEMMA AssignTeamSane ==
  ASSUME Sane, NEW b \in BookingId, NEW t \in Team, NEW override \in BOOLEAN,
         AssignTeam(b, t, override)
  PROVE  Sane'
<1> DEFINE source  == SlotsOfBooking(b)
           targets == SlotsOfTeam(t, {x[2] : x \in source})
<1>1. /\ job[b].status # "none"
      /\ job' = [job EXCEPT ![b] = [@ EXCEPT !.team = t, !.source = "manual"]]
      /\ UNCHANGED <<now, eligible, request>>
      /\ \/ UNCHANGED <<hold, slot, booking>>
         \/ /\ slot' = Replace(source, targets, ReservedSlot(b, NoHold))
            /\ hold' = ExpireStale(hold, targets)
            /\ booking' = [booking EXCEPT ![b].team = t]
  BY DEF AssignTeam
<1> HIDE DEF source, targets
<1>2. job' \in [BookingId -> JobRow]
  <2>1. [job[b] EXCEPT !.team = t, !.source = "manual"] \in JobRow
    BY DEF Sane, TypeOK, JobRow
  <2> QED  BY <2>1, <1>1 DEF Sane, TypeOK
<1>3. \A c \in BookingId : /\ job'[c].status = job[c].status
                          /\ job'[c].start = job[c].start
                          /\ job'[c].end = job[c].end
  BY <1>1 DEF Sane, TypeOK, JobRow
<1>4. slot' \in [Team \X Instant -> SlotRow]
  BY <1>1, SlotRows, ReplaceType DEF Sane, TypeOK
<1>5. /\ hold' \in [HoldId -> HoldRow]
      /\ \A h \in HoldId : Marked(hold'[h], hold[h])
  BY <1>1, ExpireStaleRows DEF Sane, TypeOK, Marked
<1>6. /\ booking' \in [BookingId -> BookingRow]
      /\ \A c \in BookingId : /\ booking'[c].status = booking[c].status
                              /\ booking'[c].vehicles = booking[c].vehicles
  <2>1. [booking[b] EXCEPT !.team = t] \in BookingRow
    BY DEF Sane, TypeOK, BookingRow
  <2>2. /\ [booking[b] EXCEPT !.team = t].status = booking[b].status
        /\ [booking[b] EXCEPT !.team = t].vehicles = booking[b].vehicles
    BY DEF Sane, TypeOK, BookingRow
  <2>3. booking' = booking \/ booking' = [booking EXCEPT ![b] = [@ EXCEPT !.team = t]]
    BY <1>1
  <2> QED  BY <2>1, <2>2, <2>3 DEF Sane, TypeOK
<1>7. TypeOK'
  BY <1>1, <1>2, <1>4, <1>5, <1>6 DEF Sane, TypeOK
<1>8. Intervals'
  BY <1>1, <1>3, <1>5, <1>6
  DEF Sane, Intervals, Marked, Spans, OperationalDuration, RequiredSlots
<1> QED  BY <1>7, <1>8 DEF Sane

(* The handlers that change statuses and leave every interval alone.       *)
Settled ==
  /\ hold' = hold
  /\ \A b \in BookingId :
       /\ booking'[b].status # "none" \/ booking[b].status = "none"
       /\ booking'[b].vehicles = booking[b].vehicles
       /\ job'[b].status # "none" => job[b].status # "none"
       /\ job'[b].start = job[b].start
       /\ job'[b].end = job[b].end
       /\ request'[b] # "none" \/ booking'[b].status = "confirmed" => job'[b].status # "none"

LEMMA SettledIntervals ==
  ASSUME Intervals, Settled
  PROVE  Intervals'
  BY DEF Settled, Intervals, Spans, OperationalDuration, RequiredSlots

LEMMA JobRows ==
  ASSUME Sane, NEW b \in BookingId, NEW status \in JobStatus
  PROVE  /\ [job[b] EXCEPT !.status = status] \in JobRow
         /\ [job[b] EXCEPT !.source = "manual"] \in JobRow
  BY DEF Sane, TypeOK, JobRow

LEMMA BookingRows ==
  ASSUME Sane, NEW b \in BookingId,
         NEW status \in {"confirmed", "cancellation_requested", "cancelled", "completed"}
  PROVE  [booking[b] EXCEPT !.status = status] \in BookingRow
<1>1. booking[b] \in BookingRow
  BY DEF Sane, TypeOK
<1> QED  BY <1>1 DEF BookingRow

LEMMA SettledStep ==
  ASSUME Sane, NEW b \in BookingId,
         \/ AssignStaff(b)
         \/ StartJob(b)
         \/ CompleteJob(b)
         \/ RequestCancellation(b)
         \/ ApproveCancellation(b)
         \/ RejectCancellation(b)
  PROVE  Sane'
<1> USE DEF BlockingStatus
<1>1. CASE AssignStaff(b)
  <2>1. TypeOK'
    BY <1>1, JobRows DEF AssignStaff, Sane, TypeOK, JobStatus
  <2>2. Settled
    BY <1>1 DEF AssignStaff, Sane, TypeOK, JobRow, Intervals, Settled
  <2> QED  BY <2>1, <2>2, SettledIntervals DEF Sane
<1>2. CASE StartJob(b)
  <2>1. TypeOK'
    BY <1>2, JobRows DEF StartJob, Sane, TypeOK, JobStatus
  <2>2. Settled
    BY <1>2 DEF StartJob, Sane, TypeOK, JobRow, Intervals, Settled
  <2> QED  BY <2>1, <2>2, SettledIntervals DEF Sane
<1>3. CASE CompleteJob(b)
  <2>1. TypeOK'
    BY <1>3, JobRows, BookingRows DEF CompleteJob, Sane, TypeOK, JobStatus
  <2>2. Settled
    BY <1>3 DEF CompleteJob, Sane, TypeOK, JobRow, BookingRow, Intervals, Settled
  <2> QED  BY <2>1, <2>2, SettledIntervals DEF Sane
<1>4. CASE RequestCancellation(b)
  <2>1. TypeOK'
    BY <1>4, BookingRows DEF RequestCancellation, Sane, TypeOK
  <2>2. Settled
    BY <1>4 DEF RequestCancellation, Sane, TypeOK, BookingRow, Intervals, Settled
  <2> QED  BY <2>1, <2>2, SettledIntervals DEF Sane
<1>5. CASE ApproveCancellation(b)
  <2>1. slot' \in [Team \X Instant -> SlotRow]
    BY <1>5, SlotRows, OverwriteType DEF ApproveCancellation, Sane
  <2>2. TypeOK'
    BY <1>5, <2>1, JobRows, BookingRows DEF ApproveCancellation, Sane, TypeOK, JobStatus
  <2>3. Settled
    BY <1>5 DEF ApproveCancellation, Sane, TypeOK, JobRow, BookingRow, Intervals, Settled
  <2> QED  BY <2>2, <2>3, SettledIntervals DEF Sane
<1>6. CASE RejectCancellation(b)
  <2>1. TypeOK'
    BY <1>6, BookingRows DEF RejectCancellation, Sane, TypeOK
  <2>2. Settled
    BY <1>6 DEF RejectCancellation, Sane, TypeOK, BookingRow, Intervals, Settled
  <2> QED  BY <2>1, <2>2, SettledIntervals DEF Sane
<1> QED  BY <1>1, <1>2, <1>3, <1>4, <1>5, <1>6

LEMMA SaneStep == Sane /\ [Next]_vars => Sane'
<1> SUFFICES ASSUME Sane, [Next]_vars  PROVE Sane'
  OBVIOUS
<1> USE DEF Intervals, Spans, OperationalDuration, RequiredSlots, GridStarts
<1>1. ASSUME NEW t \in Unsteady, ChangeEligibility(t)
      PROVE  Sane'
  <2>1. t \in Team
    BY CapacityConstants
  <2>2. eligible' \subseteq Team
    BY <1>1, <2>1 DEF ChangeEligibility, Sane, TypeOK
  <2>3. UNCHANGED <<now, hold, slot, booking, job, request>>
    BY <1>1 DEF ChangeEligibility
  <2> QED  BY <2>2, <2>3 DEF Sane, TypeOK
<1>2. CASE Tick
  BY <1>2 DEF Tick, Sane, TypeOK
<1>3. CASE UNCHANGED vars
  <2>1. UNCHANGED <<now, eligible, hold, slot, booking, job, request>>
    BY <1>3 DEF vars
  <2> QED  BY <2>1 DEF Sane, TypeOK
<1> QED
  BY <1>1, <1>2, <1>3, CreateHoldSane, BookPayAfterSane, BookPayNowSane,
     RescheduleByHoldSane, RescheduleExactSane, AssignAutoSane,
     AssignTeamSane, SettledStep
  DEF Next

(* In every reachable state the rows have their types and every claim is   *)
(* as long as a selection of its vehicle count.                            *)
THEOREM SaneAlways == Spec => []Sane
  BY InitSane, SaneStep, PTL DEF Spec

(* The type invariant of the capacity model.                               *)
THEOREM TypeCorrect == Spec => []TypeOK
<1>1. Sane => TypeOK
  BY DEF Sane
<1> QED  BY <1>1, SaneAlways, PTL
-----------------------------------------------------------------------------
(* No overlap, and the turnaround.                                         *)

(* No job starts before its day opens.                                     *)
InHours ==
  \A b \in BookingId :
    job[b].status # "none" => DayStart(job[b].start) + Opening <= job[b].start

JobTimes == JobsWithinDay /\ InHours

(* The day filter of load_capacity_items misses no neighbour when a night  *)
(* is longer than the turnaround.                                          *)
Apart ==
  /\ NoOverlap
  /\ Turnaround <= Opening => TurnaroundKept

Safe == Sane /\ JobTimes /\ Apart

(* What a claim occupies is the same in two successive states, and a       *)
(* manual assignment stays one.                                            *)
SameInterval(c) ==
  /\ Automatic(c)' => Automatic(c)
  /\ Row(c)'.team = Row(c).team
  /\ Row(c)'.start = Row(c).start
  /\ Row(c)'.end = Row(c).end

LEMMA ClaimRows ==
  ASSUME Sane, NEW c \in Claim
  PROVE  Row(c).start \in Nat /\ Row(c).end \in Nat
  BY RowFields DEF Row, Claim

LEMMA OverlapSymmetric ==
  ASSUME NEW s1 \in Nat, NEW e1 \in Nat, NEW s2 \in Nat, NEW e2 \in Nat
  PROVE  Overlap(s1, e1, s2, e2) <=> Overlap(s2, e2, s1, e1)
  BY DEF Overlap

(* A team that fits has no claim in the interval at all, not only none of  *)
(* the claims that were loaded, as long as the interval stays in its day.  *)
LEMMA FittingIsFree ==
  ASSUME Sane, NEW t, NEW s \in Nat, NEW e \in Nat, NEW gap \in Nat, NEW exclude,
         Fits(t, s, e, gap, exclude), s < e, e <= DayEnd(s),
         NEW c \in Claim \ exclude, Blocking(c), Row(c).team = t
  PROVE  ~Overlap(s, e, Row(c).start, Row(c).end)
<1>1. Row(c).start \in Nat /\ Row(c).end \in Nat
  BY ClaimRows
<1>2. DayStart(s) \in Nat /\ DayStart(s) <= s /\ DayEnd(s) \in Nat
  BY DayStartBelow
<1>3. CASE c \in Loaded(s)
  <2>1. Row(c).end + gap <= s \/ e + gap <= Row(c).start
    BY <1>3 DEF Fits
  <2> QED  BY <2>1, <1>1 DEF Overlap
<1>4. CASE c \notin Loaded(s)
  <2>1. ~Overlap(Row(c).start, Row(c).end, DayStart(s), DayEnd(s))
    BY <1>4 DEF Loaded
  <2> QED  BY <2>1, <1>1, <1>2 DEF Overlap
<1> QED  BY <1>3, <1>4

(* Nor has it a claim within the turnaround of the interval, when the next *)
(* day opens later than that after midnight.                               *)
LEMMA FittingIsApart ==
  ASSUME Sane, InHours, Turnaround <= Opening,
         NEW t, NEW s \in Nat, NEW e \in Nat, NEW exclude,
         Fits(t, s, e, Turnaround, exclude), s < e, e <= DayEnd(s),
         DayStart(s) + Opening <= s,
         NEW c \in Claim \ exclude, Blocking(c), Row(c).team = t
  PROVE  Row(c).end + Turnaround <= s \/ e + Turnaround <= Row(c).start
<1>1. Row(c).start \in Nat /\ Row(c).end \in Nat
  BY ClaimRows
<1>2. /\ DayStart(s) \in Nat /\ DayStart(s) <= s /\ DayEnd(s) \in Nat
      /\ Turnaround \in Nat /\ Opening \in Nat
  BY DayStartBelow, CapacityConstants
<1>3. CASE c \in Loaded(s)
  BY <1>3 DEF Fits
<1>4. CASE c \notin Loaded(s)
  <2>1. ~Overlap(Row(c).start, Row(c).end, DayStart(s), DayEnd(s))
    BY <1>4 DEF Loaded
  <2>2. CASE Row(c).end <= DayStart(s)
    BY <2>2, <1>1, <1>2
  <2>3. CASE DayEnd(s) <= Row(c).start
    <3>1. DayStart(Row(c).start) + Opening <= Row(c).start
      <4>1. CASE c \in HoldId
        BY <4>1, GridInHours DEF Sane, Intervals, Blocking, Row
      <4>2. CASE c \in BookingId
        BY <4>2, CapacityConstants DEF InHours, Blocking, BlockingStatus, Row
      <4> QED  BY <4>1, <4>2 DEF Claim
    <3>2. DayEnd(s) <= DayStart(Row(c).start) /\ DayStart(Row(c).start) \in Nat
      BY <2>3, <1>1, LaterDay, DayStartBelow
    <3> QED  BY <3>1, <3>2, <1>1, <1>2
  <2> QED  BY <2>1, <2>2, <2>3, <1>1, <1>2 DEF Overlap
<1> QED  BY <1>3, <1>4

(* The shape of every step that gives a claim a new interval: the claim k  *)
(* is placed where its team fits, the others stay or stop blocking.        *)
LEMMA Place ==
  ASSUME Safe, Sane', NEW k \in Claim, NEW t, NEW s \in Nat, NEW e \in Nat,
         NEW gap \in Nat, NEW exclude,
         Fits(t, s, e, gap, exclude), s < e, e <= DayEnd(s),
         DayStart(s) + Opening <= s,
         gap = Turnaround \/ ~Automatic(k)',
         Row(k)'.team = t, Row(k)'.start = s, Row(k)'.end = e,
         \A c \in Claim \ {k} :
           Blocking(c)' => Blocking(c) /\ c \notin exclude /\ SameInterval(c)
  PROVE  Apart'
<1>1. ASSUME NEW c \in Claim, Blocking(c)'
      PROVE  Row(c)'.start \in Nat /\ Row(c)'.end \in Nat
  BY ClaimRows DEF Sane, TypeOK, HoldRow, JobRow, Row, Claim
<1>2. NoOverlap'
  <2>1. ASSUME NEW c \in Claim \ {k}, Blocking(c)', Row(c)'.team = t
        PROVE  ~Overlap(s, e, Row(c)'.start, Row(c)'.end)
    BY <2>1, FittingIsFree DEF SameInterval, Safe
  <2>2. SUFFICES ASSUME NEW c1 \in Claim, NEW c2 \in Claim, c1 # c2,
                        Blocking(c1)', Blocking(c2)', Row(c1)'.team = Row(c2)'.team
                 PROVE  ~Overlap(Row(c1)'.start, Row(c1)'.end, Row(c2)'.start, Row(c2)'.end)
    BY DEF NoOverlap, Claim
  <2>3. CASE c1 = k
    BY <2>1, <2>2, <2>3
  <2>4. CASE c2 = k
    BY <1>1, <2>1, <2>2, <2>4, OverlapSymmetric
  <2>5. CASE c1 # k /\ c2 # k
    BY <2>2, <2>5 DEF SameInterval, Safe, Apart, NoOverlap
  <2> QED  BY <2>3, <2>4, <2>5
<1>3. ASSUME Turnaround <= Opening
      PROVE  TurnaroundKept'
  <2>1. ASSUME NEW c \in Claim \ {k}, Blocking(c)', Row(c)'.team = t, Automatic(k)'
        PROVE  Row(c)'.end + Turnaround <= s \/ e + Turnaround <= Row(c)'.start
    <3>1. gap = Turnaround /\ Blocking(c) /\ c \notin exclude /\ SameInterval(c)
      BY <2>1
    <3>2. Row(c).team = t
      BY <2>1, <3>1 DEF SameInterval
    <3>3. Row(c).end + Turnaround <= s \/ e + Turnaround <= Row(c).start
      BY <1>3, <3>1, <3>2, FittingIsApart DEF Safe, JobTimes
    <3> QED  BY <3>1, <3>3 DEF SameInterval
  <2>2. SUFFICES ASSUME NEW c1 \in Claim, NEW c2 \in Claim, c1 # c2,
                        Blocking(c1)', Automatic(c1)', Blocking(c2)', Automatic(c2)',
                        Row(c1)'.team = Row(c2)'.team
                 PROVE  \/ Row(c1)'.end + Turnaround <= Row(c2)'.start
                        \/ Row(c2)'.end + Turnaround <= Row(c1)'.start
    BY DEF TurnaroundKept, Claim
  <2>3. CASE c1 = k
    BY <2>1, <2>2, <2>3
  <2>4. CASE c2 = k
    BY <2>1, <2>2, <2>4
  <2>5. CASE c1 # k /\ c2 # k
    BY <1>3, <2>2, <2>5 DEF SameInterval, Safe, Apart, TurnaroundKept
  <2> QED  BY <2>3, <2>4, <2>5
<1> QED  BY <1>2, <1>3 DEF Apart

(* The shape of every other step: claims stay or stop blocking.            *)
LEMMA Stay ==
  ASSUME Apart,
         \A c \in Claim : Blocking(c)' => Blocking(c) /\ SameInterval(c)
  PROVE  Apart'
<1>1. NoOverlap'
  BY DEF Apart, NoOverlap, SameInterval, Claim
<1>2. Turnaround <= Opening => TurnaroundKept'
  BY DEF Apart, TurnaroundKept, SameInterval, Claim
<1> QED  BY <1>1, <1>2 DEF Apart

LEMMA ClaimKinds ==
  ASSUME NEW c \in Claim
  PROVE  /\ c \in HoldId => c \notin BookingId /\ Row(c) = hold[c]
         /\ c \in BookingId => c \notin HoldId /\ Row(c) = job[c]
         /\ c \in HoldId \/ c \in BookingId
  BY CapacityConstants DEF Claim, Row

LEMMA MarkedClaim ==
  ASSUME NEW h \in HoldId, Marked(hold'[h], hold[h]), now' = now, Blocking(h)'
  PROVE  Blocking(h) /\ SameInterval(h)
  BY DEF Marked, Blocking, SameInterval, Row, Automatic

LEMMA SameClaim ==
  ASSUME NEW c \in Claim, now' = now,
         c \in HoldId => hold'[c] = hold[c],
         c \in BookingId => job'[c] = job[c],
         Blocking(c)'
  PROVE  Blocking(c) /\ SameInterval(c)
  BY ClaimKinds DEF Blocking, SameInterval, Row, Claim, Automatic

LEMMA CreateHoldSafe ==
  ASSUME WithinDay, Safe, Sane', NEW h \in HoldId, NEW t \in Team, NEW s \in GridStarts,
         NEW v \in VehicleCounts, NEW d \in Durations, CreateHold(h, t, s, v, d)
  PROVE  JobTimes' /\ Apart'
<1> DEFINE e       == s + OperationalDuration(d, v)
           targets == SlotsOfTeam(t, Windows(s, v))
           marked  == ExpireStale(hold, targets)
           new     == [status |-> "active", team |-> t, start |-> s, end |-> e,
                       vehicles |-> v, expires |-> now + HoldLife]
<1>1. /\ s \in Nat /\ e \in Nat /\ s < e /\ e <= DayEnd(s)
      /\ DayStart(s) + Opening <= s
  BY GridStartsNat, GridInHours, DurationPositive DEF WithinDay, Spans
<1>2. /\ hold' = [marked EXCEPT ![h] = new]
      /\ UNCHANGED <<now, eligible, booking, job, request>>
      /\ Fits(t, s, e, Turnaround, {})
  BY DEF CreateHold, Feasible
<1>3. /\ marked \in [HoldId -> HoldRow]
      /\ \A g \in HoldId : Marked(marked[g], hold[g])
  BY ExpireStaleRows DEF Safe, Sane, TypeOK
<1>4. hold'[h] = new /\ \A g \in HoldId \ {h} : hold'[g] = marked[g]
  BY <1>2, <1>3
<1>5. h \in Claim /\ Row(h)'.team = t /\ Row(h)'.start = s /\ Row(h)'.end = e
  BY <1>4 DEF Row, Claim
<1> HIDE DEF e, marked, new
<1>6. ASSUME NEW c \in Claim \ {h}, Blocking(c)'
      PROVE  Blocking(c) /\ c \notin {} /\ SameInterval(c)
  BY <1>6, <1>2, <1>3, <1>4, MarkedClaim, SameClaim, ClaimKinds
<1>7. Apart'
  <2>1. Turnaround \in Nat
    BY CapacityConstants
  <2> QED  BY <2>1, <1>1, <1>2, <1>5, <1>6, Place
<1>8. JobTimes'
  BY <1>2 DEF Safe, JobTimes, JobsWithinDay, InHours, DayEnd, DayStart, DayOf
<1> QED  BY <1>7, <1>8

LEMMA SpanWithinDay ==
  ASSUME WithinDay, NEW s \in GridStarts, NEW v \in VehicleCounts, NEW n \in Spans(v)
  PROVE  s \in Nat /\ n \in Nat /\ s < s + n /\ s + n <= DayEnd(s)
  BY GridStartsNat, SpanNat DEF WithinDay

LEMMA HeldWithinDay ==
  ASSUME WithinDay, Sane, NEW h \in HoldId, hold[h].status # "none", NEW d \in Durations
  PROVE  LET s == hold[h].start
             e == s + OperationalDuration(d, hold[h].vehicles)
         IN s \in GridStarts /\ s \in Nat /\ e \in Nat /\ s < e /\ e <= DayEnd(s)
<1>1. hold[h].start \in GridStarts /\ hold[h].vehicles \in VehicleCounts
  BY DEF Sane, Intervals
<1>2. OperationalDuration(d, hold[h].vehicles) \in Spans(hold[h].vehicles)
  BY DEF Spans
<1> QED  BY <1>1, <1>2, SpanWithinDay

LEMMA BookPayAfterSafe ==
  ASSUME WithinDay, Safe, Sane', NEW b \in BookingId, NEW h \in HoldId, NEW d \in Durations,
         BookPayAfter(b, h, d)
  PROVE  JobTimes' /\ Apart'
<1> DEFINE s == hold[h].start
           e == s + OperationalDuration(d, hold[h].vehicles)
<1>1. hold[h].status # "none"
  BY UsableIsActive DEF BookPayAfter, BookingChecks
<1>2. /\ s \in GridStarts /\ s \in Nat /\ e \in Nat /\ s < e /\ e <= DayEnd(s)
  BY <1>1, HeldWithinDay DEF Safe
<1>3. /\ job' = [job EXCEPT ![b] = NewJob(h, e)]
      /\ hold' = [hold EXCEPT ![h] = [@ EXCEPT !.status = "consumed", !.end = e]]
      /\ now' = now
      /\ Fits(hold[h].team, s, e, Turnaround, {h})
  BY DEF BookPayAfter, BookingChecks, Feasible
<1>4. /\ job'[b] = NewJob(h, e)
      /\ \A c \in BookingId \ {b} : job'[c] = job[c]
      /\ hold'[h].status = "consumed"
      /\ \A g \in HoldId \ {h} : hold'[g] = hold[g]
  BY <1>3 DEF Safe, Sane, TypeOK, HoldRow
<1>5. b \in Claim /\ Row(b)'.team = hold[h].team /\ Row(b)'.start = s /\ Row(b)'.end = e
  BY <1>4, CapacityConstants DEF Row, Claim, NewJob
<1> HIDE DEF e
<1>6. ASSUME NEW c \in Claim \ {b}, Blocking(c)'
      PROVE  Blocking(c) /\ c \notin {h} /\ SameInterval(c)
  <2>1. c # h
    BY <1>4, <1>6 DEF Blocking
  <2> QED  BY <1>6, <2>1, <1>3, <1>4, SameClaim
<1>7. Apart'
  <2>1. Turnaround \in Nat
    BY CapacityConstants
  <2>2. DayStart(s) + Opening <= s
    BY <1>2, GridInHours
  <2> HIDE DEF s
  <2> QED  BY <2>1, <2>2, <1>2, <1>3, <1>5, <1>6, Place
<1>8. JobTimes'
  BY <1>2, <1>4, GridInHours DEF Safe, JobTimes, JobsWithinDay, InHours, DayEnd, DayStart, DayOf, NewJob
<1> QED  BY <1>7, <1>8

LEMMA BookPayNowSafe ==
  ASSUME WithinDay, Safe, Sane', NEW b \in BookingId, NEW h \in HoldId, NEW d \in Durations,
         BookPayNow(b, h, d)
  PROVE  JobTimes' /\ Apart'
<1> DEFINE s == hold[h].start
           e == s + OperationalDuration(d, hold[h].vehicles)
<1>1. hold[h].status # "none"
  BY UsableIsActive DEF BookPayNow, BookingChecks
<1>2. /\ s \in GridStarts /\ s \in Nat /\ e \in Nat /\ s < e /\ e <= DayEnd(s)
  BY <1>1, HeldWithinDay DEF Safe
<1>3. /\ hold' = [hold EXCEPT ![h].end = e]
      /\ now' = now /\ job' = job
      /\ Fits(hold[h].team, s, e, Turnaround, {h})
  BY DEF BookPayNow, BookingChecks, Feasible
<1>4. /\ h \in Claim
      /\ Row(h)'.team = hold[h].team
      /\ Row(h)'.start = s
      /\ Row(h)'.end = e
      /\ \A g \in HoldId \ {h} : hold'[g] = hold[g]
  BY <1>3 DEF Safe, Sane, TypeOK, HoldRow, Row, Claim
<1> HIDE DEF e
<1>5. ASSUME NEW c \in Claim \ {h}, Blocking(c)'
      PROVE  Blocking(c) /\ c \notin {h} /\ SameInterval(c)
  BY <1>5, <1>3, <1>4, SameClaim
<1>6. Apart'
  <2>1. Turnaround \in Nat
    BY CapacityConstants
  <2>2. DayStart(s) + Opening <= s
    BY <1>2, GridInHours
  <2> HIDE DEF s
  <2> QED  BY <2>1, <2>2, <1>2, <1>3, <1>4, <1>5, Place
<1>7. JobTimes'
  BY <1>3 DEF Safe, JobTimes, JobsWithinDay, InHours, DayEnd, DayStart, DayOf, BookPayNow
<1> QED  BY <1>6, <1>7

LEMMA RescheduleByHoldSafe ==
  ASSUME WithinDay, Safe, Sane', NEW b \in BookingId, NEW h \in HoldId, RescheduleByHold(b, h)
  PROVE  JobTimes' /\ Apart'
<1> DEFINE s       == hold[h].start
           e       == s + (job[b].end - job[b].start)
           t       == IF job[b].source = "manual" THEN job[b].team ELSE hold[h].team
           held    == SlotsOfHold(h)
           targets == IF t = hold[h].team THEN held ELSE SlotsOfTeam(t, {x[2] : x \in held})
           marked  == ExpireStale(hold, targets)
<1>1. /\ hold[h].status = "active"
      /\ job[b].status # "none"
      /\ hold[h].vehicles = booking[b].vehicles
  BY UsableIsActive DEF RescheduleByHold, CustomerMayReschedule, StaffMayReschedule
<1>2. s \in Nat /\ e \in Nat /\ s < e /\ e <= DayEnd(s) /\ DayStart(s) + Opening <= s
  <2>1. s \in GridStarts /\ s \in Nat
    BY <1>1, RowFields DEF Safe, Sane, Intervals
  <2>2. /\ booking[b].vehicles \in VehicleCounts
        /\ job[b].end - job[b].start \in Spans(booking[b].vehicles)
    BY <1>1 DEF Safe, Sane, Intervals
  <2> QED  BY <2>1, <2>2, SpanWithinDay, GridInHours
<1>3. /\ hold' = [marked EXCEPT
                    ![h] = [@ EXCEPT !.status = "consumed", !.team = t, !.end = e]]
      /\ job' = [job EXCEPT
                   ![b] = [@ EXCEPT !.status = "assigned", !.team = t, !.start = s, !.end = e]]
      /\ now' = now
      /\ Fits(t, s, e, Turnaround, {b, h})
  BY DEF RescheduleByHold, Feasible
<1>4. /\ marked \in [HoldId -> HoldRow]
      /\ \A g \in HoldId : Marked(marked[g], hold[g])
  BY ExpireStaleRows DEF Safe, Sane, TypeOK
<1> HIDE DEF s, e, t, held, targets, marked
<1>5. /\ job'[b].team = t /\ job'[b].start = s /\ job'[b].end = e
      /\ \A c \in BookingId \ {b} : job'[c] = job[c]
  BY <1>3 DEF Safe, Sane, TypeOK, JobRow
<1>6. /\ hold'[h].status = "consumed"
      /\ \A g \in HoldId \ {h} : hold'[g] = marked[g]
  BY <1>3, <1>4 DEF HoldRow
<1>7. b \in Claim /\ Row(b)'.team = t /\ Row(b)'.start = s /\ Row(b)'.end = e
  BY <1>5, CapacityConstants DEF Row, Claim
<1>8. ASSUME NEW c \in Claim \ {b}, Blocking(c)'
      PROVE  Blocking(c) /\ c \notin {b, h} /\ SameInterval(c)
  <2>1. c # h
    BY <1>6, <1>8 DEF Blocking
  <2>2. CASE c \in HoldId
    BY <1>8, <2>1, <2>2, <1>3, <1>4, <1>6, MarkedClaim
  <2>3. CASE c \in BookingId
    BY <1>8, <2>1, <2>3, <1>3, <1>5, SameClaim, ClaimKinds
  <2> QED  BY <2>2, <2>3, ClaimKinds
<1>9. Apart'
  <2>1. Turnaround \in Nat
    BY CapacityConstants
  <2> QED  BY <2>1, <1>2, <1>3, <1>7, <1>8, Place
<1>10. JobTimes'
  <2>1. ASSUME NEW c \in BookingId, job'[c].status # "none"
        PROVE  /\ job'[c].end <= DayEnd(job'[c].start)
               /\ DayStart(job'[c].start) + Opening <= job'[c].start
    <3>1. CASE c = b
      BY <3>1, <1>2, <1>5
    <3>2. CASE c # b
      BY <2>1, <3>2, <1>5 DEF Safe, JobTimes, JobsWithinDay, InHours
    <3> QED  BY <3>1, <3>2
  <2> QED  BY <2>1 DEF JobTimes, JobsWithinDay, InHours, DayEnd, DayStart, DayOf
<1> QED  BY <1>9, <1>10

LEMMA RescheduleExactSafe ==
  ASSUME Safe, Sane', NEW b \in BookingId, NEW t \in Team, NEW s \in Instant,
         NEW override \in BOOLEAN, RescheduleExact(b, t, s, override)
  PROVE  JobTimes' /\ Apart'
<1> DEFINE e   == s + (job[b].end - job[b].start)
           gap == IF override THEN 0 ELSE Turnaround
           freed == SlotsOfBooking(b)
<1>1. job[b].status # "none" /\ s \in Nat
  BY HorizonNat DEF RescheduleExact, StaffMayReschedule
<1>2. e \in Nat /\ s < e
  BY <1>1, MovedSpan DEF Safe
<1>3. e <= DayEnd(s) /\ DayStart(s) + Opening <= s
  <2>1. e <= DayStart(s) + Closing /\ DayStart(s) + Opening <= s
    BY DEF RescheduleExact, WithinHours
  <2>2. Closing \in Nat /\ DayLength \in Nat /\ Closing < DayLength
    BY CapacityConstants
  <2>3. DayStart(s) \in Nat
    BY <1>1, DayStartBelow
  <2> HIDE DEF e
  <2> QED  BY <1>2, <2>1, <2>2, <2>3 DEF DayEnd
<1>4. /\ hold' = ExpireStale(hold, {<<t, s>>} \ freed)
      /\ job' = [job EXCEPT
                   ![b] = [@ EXCEPT !.status = "assigned", !.team = t, !.start = s, !.end = e]]
      /\ now' = now
      /\ Fits(t, s, e, gap, {b})
      /\ gap = Turnaround \/ job[b].source = "manual"
  BY DEF RescheduleExact, Feasible
<1>5. \A g \in HoldId : Marked(hold'[g], hold[g])
  BY <1>4, ExpireStaleRows DEF Safe, Sane, TypeOK
<1>6. gap \in Nat
  BY CapacityConstants
<1> HIDE DEF e, gap, freed
<1>7. /\ job'[b].team = t /\ job'[b].start = s /\ job'[b].end = e
      /\ job'[b].source = job[b].source
      /\ \A c \in BookingId \ {b} : job'[c] = job[c]
  BY <1>4 DEF Safe, Sane, TypeOK, JobRow
<1>8. /\ b \in Claim /\ Row(b)'.team = t /\ Row(b)'.start = s /\ Row(b)'.end = e
      /\ gap = Turnaround \/ ~Automatic(b)'
  BY <1>4, <1>7, CapacityConstants DEF Row, Claim, Automatic
<1>9. ASSUME NEW c \in Claim \ {b}, Blocking(c)'
      PROVE  Blocking(c) /\ c \notin {b} /\ SameInterval(c)
  BY <1>9, <1>4, <1>5, <1>7, MarkedClaim, SameClaim, ClaimKinds
<1>10. Apart'
  BY <1>1, <1>2, <1>3, <1>4, <1>6, <1>8, <1>9, Place
<1>11. JobTimes'
  <2>1. ASSUME NEW c \in BookingId, job'[c].status # "none"
        PROVE  /\ job'[c].end <= DayEnd(job'[c].start)
               /\ DayStart(job'[c].start) + Opening <= job'[c].start
    <3>1. CASE c = b
      BY <3>1, <1>3, <1>7
    <3>2. CASE c # b
      BY <2>1, <3>2, <1>7 DEF Safe, JobTimes, JobsWithinDay, InHours
    <3> QED  BY <3>1, <3>2
  <2> QED  BY <2>1 DEF JobTimes, JobsWithinDay, InHours, DayEnd, DayStart, DayOf
<1> QED  BY <1>10, <1>11

(* Assignment changes the team of a job and keeps its interval.            *)
LEMMA AssignSafe ==
  ASSUME Safe, Sane', NEW b \in BookingId, NEW t \in Team, NEW gap \in Nat,
         NEW source \in {"auto", "manual"},
         gap = Turnaround \/ source = "manual",
         job[b].status # "none",
         Fits(t, job[b].start, job[b].end, gap, {b}),
         job' = [job EXCEPT ![b] = [@ EXCEPT !.team = t, !.source = source]],
         \A h \in HoldId : Marked(hold'[h], hold[h]),
         now' = now
  PROVE  JobTimes' /\ Apart'
<1> DEFINE s == job[b].start
           e == job[b].end
<1>1. s \in Nat /\ e \in Nat /\ s < e /\ e <= DayEnd(s) /\ DayStart(s) + Opening <= s
  <2>1. s \in Nat /\ e \in Nat
    BY RowFields DEF Safe
  <2>2. e - s \in Nat \ {0}
    BY SpanNat DEF Safe, Sane, Intervals
  <2> QED  BY <2>1, <2>2 DEF Safe, JobTimes, JobsWithinDay, InHours
<1>2. /\ job'[b].team = t /\ job'[b].start = s /\ job'[b].end = e
      /\ job'[b].status = job[b].status /\ job'[b].source = source
      /\ \A c \in BookingId \ {b} : job'[c] = job[c]
  BY DEF Safe, Sane, TypeOK, JobRow
<1>3. /\ b \in Claim /\ Row(b)'.team = t /\ Row(b)'.start = s /\ Row(b)'.end = e
      /\ gap = Turnaround \/ ~Automatic(b)'
  BY <1>2, CapacityConstants DEF Row, Claim, Automatic
<1>4. ASSUME NEW c \in Claim \ {b}, Blocking(c)'
      PROVE  Blocking(c) /\ c \notin {b} /\ SameInterval(c)
  BY <1>4, <1>2, MarkedClaim, SameClaim, ClaimKinds
<1>5. Fits(t, s, e, gap, {b})
  OBVIOUS
<1>6. Apart'
  <2> HIDE DEF s, e
  <2> QED  BY <1>1, <1>3, <1>4, <1>5, Place
<1>7. JobTimes'
  BY <1>2 DEF Safe, JobTimes, JobsWithinDay, InHours, DayEnd, DayStart, DayOf
<1> QED  BY <1>6, <1>7

LEMMA MarkedItself == \A h \in HoldId : Marked(hold[h], hold[h])
  BY DEF Marked

LEMMA AssignAutoSafe ==
  ASSUME Safe, Sane', NEW b \in BookingId, NEW t \in Team, AssignAuto(b, t)
  PROVE  JobTimes' /\ Apart'
<1>1. /\ Turnaround \in Nat
      /\ job[b].status # "none"
      /\ Fits(t, job[b].start, job[b].end, Turnaround, {b})
      /\ job' = [job EXCEPT ![b] = [@ EXCEPT !.team = t, !.source = "auto"]]
      /\ hold' = hold /\ now' = now
  BY CapacityConstants DEF AssignAuto, Feasible
<1> QED  BY <1>1, MarkedItself, AssignSafe

LEMMA AssignTeamSafe ==
  ASSUME Safe, Sane', NEW b \in BookingId, NEW t \in Team, NEW override \in BOOLEAN,
         AssignTeam(b, t, override)
  PROVE  JobTimes' /\ Apart'
<1> DEFINE gap     == IF override THEN 0 ELSE Turnaround
           targets == SlotsOfTeam(t, {x[2] : x \in SlotsOfBooking(b)})
<1>1. /\ job[b].status # "none"
      /\ Fits(t, job[b].start, job[b].end, gap, {b})
      /\ job' = [job EXCEPT ![b] = [@ EXCEPT !.team = t, !.source = "manual"]]
      /\ hold' = hold \/ hold' = ExpireStale(hold, targets)
      /\ now' = now
  BY DEF AssignTeam, Feasible
<1>2. gap \in Nat
  BY CapacityConstants
<1>3. \A h \in HoldId : Marked(hold'[h], hold[h])
  BY <1>1, MarkedItself, ExpireStaleRows DEF Safe, Sane, TypeOK
<1> HIDE DEF gap
<1> QED  BY <1>1, <1>2, <1>3, AssignSafe

(* Steps that change statuses never make a claim block again.              *)
LEMMA SettledSafe ==
  ASSUME Safe, NEW b \in BookingId,
         \/ AssignStaff(b)
         \/ StartJob(b)
         \/ CompleteJob(b)
         \/ RequestCancellation(b)
         \/ ApproveCancellation(b)
         \/ RejectCancellation(b)
  PROVE  JobTimes' /\ Apart'
<1>1. /\ hold' = hold /\ now' = now
      /\ \A c \in BookingId :
           /\ job'[c].team = job[c].team
           /\ job'[c].start = job[c].start
           /\ job'[c].end = job[c].end
           /\ job'[c].status \in BlockingStatus => job[c].status \in BlockingStatus
           /\ job'[c].status # "none" => job[c].status # "none"
           /\ job'[c].source = "auto" => job[c].source = "auto"
  <2> USE DEF Safe, Sane, TypeOK, JobRow, Intervals, BlockingStatus
  <2>1. CASE AssignStaff(b)
    BY <2>1 DEF AssignStaff
  <2>2. CASE StartJob(b)
    BY <2>2 DEF StartJob
  <2>3. CASE CompleteJob(b)
    BY <2>3 DEF CompleteJob
  <2>4. CASE RequestCancellation(b)
    BY <2>4 DEF RequestCancellation
  <2>5. CASE ApproveCancellation(b)
    BY <2>5 DEF ApproveCancellation
  <2>6. CASE RejectCancellation(b)
    BY <2>6 DEF RejectCancellation
  <2> QED  BY <2>1, <2>2, <2>3, <2>4, <2>5, <2>6
<1>2. \A c \in Claim : Blocking(c)' => Blocking(c) /\ SameInterval(c)
  BY <1>1 DEF Blocking, SameInterval, Row, Claim, Automatic
<1>3. Apart'
  BY <1>2, Stay DEF Safe
<1>4. JobTimes'
  BY <1>1 DEF Safe, JobTimes, JobsWithinDay, InHours, DayEnd, DayStart, DayOf
<1> QED  BY <1>3, <1>4

LEMMA SafeStep ==
  ASSUME WithinDay
  PROVE  Safe /\ [Next]_vars => Safe'
<1> SUFFICES ASSUME Safe, [Next]_vars  PROVE Safe'
  OBVIOUS
<1>1. Sane'
  BY SaneStep DEF Safe
<1>2. ASSUME \/ \E t \in Unsteady : ChangeEligibility(t)
             \/ Tick
             \/ UNCHANGED vars
      PROVE  JobTimes' /\ Apart'
  <2>1. hold' = hold /\ job' = job /\ now' \in Nat /\ now <= now'
    BY <1>2 DEF ChangeEligibility, Tick, vars, Safe, Sane, TypeOK
  <2>2. \A h \in HoldId : hold[h].expires \in Nat
    BY RowFields DEF Safe
  <2>3. \A c \in Claim : Blocking(c)' => Blocking(c) /\ SameInterval(c)
    BY <2>1, <2>2 DEF Blocking, SameInterval, Row, Claim, Automatic, Safe, Sane, TypeOK
  <2>4. Apart'
    BY <2>3, Stay DEF Safe
  <2>5. JobTimes'
    BY <2>1 DEF Safe, JobTimes, JobsWithinDay, InHours, DayEnd, DayStart, DayOf
  <2> QED  BY <2>4, <2>5
<1>3. JobTimes' /\ Apart'
  BY <1>1, <1>2, CreateHoldSafe, BookPayAfterSafe, BookPayNowSafe, 
     RescheduleByHoldSafe, RescheduleExactSafe, AssignAutoSafe, AssignTeamSafe, SettledSafe
  DEF Next
<1> QED  BY <1>1, <1>3 DEF Safe

LEMMA InitSafe == Init => Safe
<1> SUFFICES ASSUME Init  PROVE Safe
  OBVIOUS
<1>1. \A c \in Claim : ~Blocking(c)
  BY DEF Init, Blocking, BlockingStatus, Claim
<1>2. Apart
  BY <1>1 DEF Apart, NoOverlap, TurnaroundKept
<1>3. JobTimes
  BY DEF Init, JobTimes, JobsWithinDay, InHours
<1> QED  BY <1>2, <1>3, InitSane DEF Safe

(* When no service runs past midnight, no sequence of holds, bookings,     *)
(* reschedules, assignments and cancellations makes two claims overlap on  *)
(* one team: smart_scheduling.py keeps its promise, rewashes excepted.     *)
THEOREM NeverOverlapping ==
  ASSUME WithinDay
  PROVE  Spec => []NoOverlap
<1>1. Safe => NoOverlap
  BY DEF Safe, Apart
<1> QED  BY <1>1, InitSafe, SafeStep, PTL DEF Spec

(* When, besides, the business opens no earlier than a turnaround after    *)
(* midnight, two claims of a team that no manager assigned by hand are     *)
(* always a turnaround apart, also on the two sides of midnight, which the *)
(* day filter of load_capacity_items does not compare.                     *)
THEOREM TurnaroundAlwaysKept ==
  ASSUME WithinDay, Turnaround <= Opening
  PROVE  Spec => []TurnaroundKept
<1>1. Safe => TurnaroundKept
  BY DEF Safe, Apart
<1> QED  BY <1>1, InitSafe, SafeStep, PTL DEF Spec
-----------------------------------------------------------------------------
(* Live holds and their slots.                                             *)

Live(h) == hold[h].status = "active" /\ hold[h].expires > now

(* A slot names a hold and a booking that are there, and a slot that is    *)
(* only held names no booking that has a job.                              *)
SlotsNameRows ==
  \A x \in Team \X Instant :
    /\ slot[x].hold \in HoldId => hold[slot[x].hold].status # "none"
    /\ slot[x].booking \in BookingId =>
         /\ booking[slot[x].booking].status # "none"
         /\ slot[x].status = "held" => job[slot[x].booking].status = "none"

Held == LiveHoldKeepsSlots /\ SlotsNameRows

(* What a hold keeps when its row and its slots stay.                      *)
Kept(g) ==
  /\ hold'[g].team = hold[g].team
  /\ hold'[g].start = hold[g].start
  /\ hold'[g].vehicles = hold[g].vehicles
  /\ hold'[g].expires = hold[g].expires

SlotsKept(g) ==
  \A x \in Team \X Instant :
    /\ slot'[x].hold = g <=> slot[x].hold = g
    /\ slot[x].hold = g => slot'[x].status = slot[x].status /\ slot'[x].expires = slot[x].expires

OwnsSlots(g) ==
  /\ SlotsOfHold(g) = SlotsOfTeam(hold[g].team, Windows(hold[g].start, hold[g].vehicles))
  /\ \A x \in SlotsOfHold(g) : slot[x].status = "held" /\ slot[x].expires = hold[g].expires

LEMMA SlotDomain ==
  ASSUME Sane
  PROVE  DOMAIN slot = Team \X Instant
  BY DEF Sane, TypeOK

LEMMA HoldKept ==
  ASSUME Sane, Sane', NEW g \in HoldId, OwnsSlots(g), Kept(g), SlotsKept(g)
  PROVE  OwnsSlots(g)'
<1>1. DOMAIN slot = Team \X Instant /\ DOMAIN slot' = Team \X Instant
  BY DEF Sane, TypeOK
<1>2. SlotsOfHold(g)' = SlotsOfHold(g)
  BY <1>1 DEF SlotsOfHold, SlotsKept
<1>3. SlotsOfTeam(hold[g].team, Windows(hold[g].start, hold[g].vehicles))'
        = SlotsOfTeam(hold[g].team, Windows(hold[g].start, hold[g].vehicles))
  BY DEF Kept, SlotsOfTeam, Windows, RequiredSlots
<1>4. \A x \in SlotsOfHold(g) : slot'[x].status = "held" /\ slot'[x].expires = hold'[g].expires
  BY <1>1 DEF OwnsSlots, SlotsOfHold, SlotsKept, Kept
<1> QED  BY <1>2, <1>3, <1>4 DEF OwnsSlots

(* The slots of a live hold are held.                                      *)
LEMMA NotOfLive ==
  ASSUME Sane, Held, NEW x \in Team \X Instant, NEW g \in HoldId, Live(g),
         \/ ~SlotBlocks(slot[x])
         \/ slot[x].status = "reserved"
         \/ slot[x].booking \in BookingId /\ job[slot[x].booking].status # "none"
  PROVE  slot[x].hold # g
<1> SUFFICES ASSUME slot[x].hold = g
             PROVE  FALSE
  OBVIOUS
<1>1. slot[x].status = "held" /\ slot[x].expires > now
  BY SlotDomain DEF Held, LiveHoldKeepsSlots, Live, SlotsOfHold
<1> QED  BY <1>1 DEF SlotBlocks, Held, SlotsNameRows

(* A step that makes no new hold.                                          *)
LEMMA HeldStep ==
  ASSUME Sane, Sane', Held,
         \A g \in HoldId : Live(g)' => Live(g) /\ Kept(g) /\ SlotsKept(g),
         SlotsNameRows'
  PROVE  Held'
<1> SUFFICES ASSUME NEW g \in HoldId, Live(g)'
             PROVE  OwnsSlots(g)'
  BY DEF Held, LiveHoldKeepsSlots, Live, OwnsSlots
<1>1. Live(g) /\ Kept(g) /\ SlotsKept(g)
  OBVIOUS
<1>2. OwnsSlots(g)
  BY <1>1 DEF Held, LiveHoldKeepsSlots, Live, OwnsSlots
<1> QED  BY <1>1, <1>2, HoldKept

(* What the steps do to the rows that slots name: holds and bookings do    *)
(* not vanish, and a booking without a job gets none any more.             *)
RowsStay ==
  /\ \A g \in HoldId : hold[g].status # "none" => hold'[g].status # "none"
  /\ \A b \in BookingId :
       booking[b].status # "none" =>
         /\ booking'[b].status # "none"
         /\ job[b].status = "none" => job'[b].status = "none"

(* Slots are freed and given to a booking.                                 *)
LEMMA ReplaceHeld ==
  ASSUME Sane, Sane', Held, RowsStay, NEW freed, NEW taken, NEW b \in BookingId,
         NEW r \in HoldId \cup {NoHold},
         slot' = Replace(freed, taken, ReservedSlot(b, r)),
         taken # {} => booking'[b].status # "none",
         r \in HoldId => hold'[r].status \notin {"none", "active"},
         \A g \in HoldId : Live(g)' =>
           /\ Live(g) /\ Kept(g)
           /\ \A x \in Team \X Instant : x \in freed \cup taken => slot[x].hold # g
  PROVE  Held'
<1>1. NoHold \notin HoldId /\ NoBooking \notin BookingId
  BY CapacityConstants
<1>2. \A x \in Team \X Instant :
        \/ slot'[x] = slot[x] /\ x \notin freed \cup taken
        \/ x \in taken /\ slot'[x] = ReservedSlot(b, r)
        \/ x \in freed /\ slot'[x] = FreeSlot
  BY SlotDomain DEF Replace
<1>3. /\ ReservedSlot(b, r).hold = r /\ ReservedSlot(b, r).booking = b
      /\ ReservedSlot(b, r).status = "reserved"
      /\ FreeSlot.hold = NoHold /\ FreeSlot.booking = NoBooking
  BY DEF ReservedSlot, FreeSlot
<1>4. ASSUME NEW g \in HoldId, Live(g)'
      PROVE  Live(g) /\ Kept(g) /\ SlotsKept(g)
  <2>1. g # r
    BY <1>4 DEF Live
  <2>2. SlotsKept(g)
    BY <1>1, <1>2, <1>3, <1>4, <2>1 DEF SlotsKept
  <2> QED  BY <1>4, <2>2
<1>5. SlotsNameRows'
  <2>1. ASSUME NEW x \in Team \X Instant
        PROVE  /\ slot'[x].hold \in HoldId => hold'[slot'[x].hold].status # "none"
               /\ slot'[x].booking \in BookingId =>
                    /\ booking'[slot'[x].booking].status # "none"
                    /\ slot'[x].status = "held" => job'[slot'[x].booking].status = "none"
    <3>1. CASE slot'[x] = slot[x]
      BY <3>1 DEF Held, SlotsNameRows, RowsStay
    <3>2. CASE x \in taken /\ slot'[x] = ReservedSlot(b, r)
      BY <1>1, <1>3, <3>2
    <3>3. CASE slot'[x] = FreeSlot
      BY <1>1, <1>3, <3>3
    <3> QED  BY <1>2, <3>1, <3>2, <3>3
  <2> QED  BY <2>1 DEF SlotsNameRows, Instant, Horizon
<1> QED  BY <1>4, <1>5, HeldStep

LEMMA OverwriteReplaces ==
  ASSUME NEW xs, NEW row
  PROVE  Overwrite(xs, row) = Replace({}, xs, row) /\ Overwrite(xs, FreeSlot) = Replace(xs, {}, row)
  BY DEF Overwrite, Replace

(* Holds that were marked as stale are not live.                           *)
LEMMA MarkedLive ==
  ASSUME NEW g \in HoldId, Marked(hold'[g], hold[g]), now' = now
  PROVE  /\ Live(g)' => Live(g) /\ Kept(g)
         /\ hold[g].status # "none" => hold'[g].status # "none"
  BY DEF Marked, Live, Kept

LEMMA InitHeld == Init => Held
<1> SUFFICES ASSUME Init  PROVE Held
  OBVIOUS
<1>1. \A g \in HoldId : hold[g].status = "none"
  BY DEF Init
<1>2. \A x \in Team \X Instant : slot[x].hold = NoHold /\ slot[x].booking = NoBooking
  BY DEF Init, FreeSlot, BlockedSlot
<1> QED  BY <1>1, <1>2, CapacityConstants DEF Held, LiveHoldKeepsSlots, SlotsNameRows

LEMMA CreateHoldHeld ==
  ASSUME Sane, Sane', Held, NEW h \in HoldId, NEW t \in Team, NEW s \in GridStarts,
         NEW v \in VehicleCounts, NEW d \in Durations, CreateHold(h, t, s, v, d)
  PROVE  Held'
<1> DEFINE e       == s + OperationalDuration(d, v)
           targets == SlotsOfTeam(t, Windows(s, v))
           expires == now + HoldLife
           new     == [status |-> "active", team |-> t, start |-> s, end |-> e,
                       vehicles |-> v, expires |-> expires]
<1>1. /\ hold[h].status = "none"
      /\ \A x \in targets : ~SlotBlocks(slot[x])
      /\ slot' = Overwrite(targets, HeldSlot(h, expires))
      /\ hold' = [ExpireStale(hold, targets) EXCEPT ![h] = new]
      /\ now' = now /\ booking' = booking /\ job' = job
  BY DEF CreateHold
<1>2. targets \subseteq Team \X Instant
  BY GridInHorizon DEF CreateHold, ResolvedWindows, SlotsOfTeam
<1>3. /\ ExpireStale(hold, targets) \in [HoldId -> HoldRow]
      /\ \A g \in HoldId : Marked(ExpireStale(hold, targets)[g], hold[g])
  BY ExpireStaleRows DEF Sane, TypeOK
<1>4. /\ new.status = "active" /\ new.team = t /\ new.start = s /\ new.vehicles = v
      /\ new.expires = expires
  OBVIOUS
<1>5. targets = SlotsOfTeam(t, Windows(s, v))'
  BY DEF SlotsOfTeam, Windows, RequiredSlots
<1> HIDE DEF targets, new, expires
<1>6. hold'[h] = new /\ \A g \in HoldId \ {h} : Marked(hold'[g], hold[g])
  BY <1>1, <1>3
<1>7. /\ \A x \in targets : slot'[x] = HeldSlot(h, expires)
      /\ \A x \in (Team \X Instant) \ targets : slot'[x] = slot[x]
  BY <1>1, <1>2, SlotDomain DEF Overwrite
<1>8. /\ HeldSlot(h, expires).hold = h /\ HeldSlot(h, expires).status = "held"
      /\ HeldSlot(h, expires).expires = expires /\ HeldSlot(h, expires).booking = NoBooking
  BY DEF HeldSlot
<1>9. \A x \in Team \X Instant : slot[x].hold # h
  BY <1>1 DEF Held, SlotsNameRows
<1>10. ASSUME NEW g \in HoldId, Live(g)'
       PROVE  OwnsSlots(g)'
  <2>1. CASE g = h
    <3>1. SlotsOfHold(h)' = targets
      <4>1. DOMAIN slot' = Team \X Instant
        BY DEF Sane, TypeOK
      <4> QED  BY <4>1, <1>2, <1>7, <1>8, <1>9 DEF SlotsOfHold
    <3>2. SlotsOfTeam(hold[h].team, Windows(hold[h].start, hold[h].vehicles))' = targets
      BY <1>4, <1>5, <1>6 DEF SlotsOfTeam, Windows, RequiredSlots
    <3>3. \A x \in targets : slot'[x].status = "held" /\ slot'[x].expires = hold'[h].expires
      BY <1>4, <1>6, <1>7, <1>8
    <3> QED  BY <2>1, <3>1, <3>2, <3>3 DEF OwnsSlots
  <2>2. CASE g # h
    <3>1. Live(g) /\ Kept(g)
      BY <2>2, <1>1, <1>6, <1>10, MarkedLive
    <3>2. \A x \in targets : slot[x].hold # g
      BY <1>1, <1>2, <3>1, NotOfLive
    <3>3. SlotsKept(g)
      BY <2>2, <3>2, <1>7, <1>8 DEF SlotsKept
    <3>4. OwnsSlots(g)
      BY <3>1 DEF Held, LiveHoldKeepsSlots, Live, OwnsSlots
    <3> QED  BY <3>1, <3>3, <3>4, HoldKept
  <2> QED  BY <2>1, <2>2
<1>11. SlotsNameRows'
  <2>1. \A g \in HoldId : hold[g].status # "none" \/ g = h => hold'[g].status # "none"
    BY <1>4, <1>6 DEF Marked
  <2>2. ASSUME NEW x \in Team \X Instant
        PROVE  /\ slot'[x].hold \in HoldId => hold'[slot'[x].hold].status # "none"
               /\ slot'[x].booking \in BookingId =>
                    /\ booking'[slot'[x].booking].status # "none"
                    /\ slot'[x].status = "held" => job'[slot'[x].booking].status = "none"
    <3>1. CASE x \in targets
      BY <3>1, <2>1, <1>7, <1>8, CapacityConstants
    <3>2. CASE x \notin targets
      BY <3>2, <2>1, <1>1, <1>7 DEF Held, SlotsNameRows
    <3> QED  BY <3>1, <3>2
  <2> QED  BY <2>2 DEF SlotsNameRows, Instant, Horizon
<1> QED  BY <1>10, <1>11 DEF Held, LiveHoldKeepsSlots, Live, OwnsSlots

(* A booking is made from a hold and takes over its slots.                 *)
LEMMA TakeOverHeld ==
  ASSUME Sane, Sane', Held, NEW b \in BookingId, NEW h \in HoldId,
         booking[b].status = "none",
         booking'[b].status # "none",
         \A c \in BookingId \ {b} : booking'[c] = booking[c] /\ job'[c] = job[c],
         hold'[h].status = "consumed",
         \A g \in HoldId \ {h} : hold'[g] = hold[g],
         slot' = Overwrite(SlotsOfHold(h), ReservedSlot(b, h)),
         now' = now
  PROVE  Held'
<1>1. RowsStay
  BY DEF RowsStay
<1>2. \A g \in HoldId : Live(g)' =>
        /\ Live(g) /\ Kept(g)
        /\ \A x \in Team \X Instant : x \in {} \cup SlotsOfHold(h) => slot[x].hold # g
  BY DEF Live, Kept, SlotsOfHold
<1>3. slot' = Replace({}, SlotsOfHold(h), ReservedSlot(b, h))
  BY OverwriteReplaces
<1> QED  BY <1>1, <1>2, <1>3, ReplaceHeld

LEMMA BookPayAfterHeld ==
  ASSUME Sane, Sane', Held, NEW b \in BookingId, NEW h \in HoldId, NEW d \in Durations,
         BookPayAfter(b, h, d)
  PROVE  Held'
<1> DEFINE e == hold[h].start + OperationalDuration(d, hold[h].vehicles)
<1>1. /\ booking[b].status = "none"
      /\ booking' = [booking EXCEPT ![b] = NewBooking("confirmed", h, e)]
      /\ job' = [job EXCEPT ![b] = NewJob(h, e)]
      /\ hold' = [hold EXCEPT ![h] = [@ EXCEPT !.status = "consumed", !.end = e]]
      /\ slot' = Overwrite(SlotsOfHold(h), ReservedSlot(b, h))
      /\ now' = now
  BY DEF BookPayAfter, BookingChecks
<1> HIDE DEF e
<1>2. booking'[b].status = "confirmed" /\ hold'[h].status = "consumed"
  BY <1>1 DEF Sane, TypeOK, HoldRow, NewBooking
<1>3. /\ \A c \in BookingId \ {b} : booking'[c] = booking[c] /\ job'[c] = job[c]
      /\ \A g \in HoldId \ {h} : hold'[g] = hold[g]
  BY <1>1 DEF Sane, TypeOK
<1> QED  BY <1>1, <1>2, <1>3, TakeOverHeld

LEMMA BookPayNowHeld ==
  ASSUME Sane, Sane', Held, NEW b \in BookingId, NEW h \in HoldId, NEW d \in Durations,
         BookPayNow(b, h, d)
  PROVE  Held'
<1> DEFINE e == hold[h].start + OperationalDuration(d, hold[h].vehicles)
<1>1. /\ booking[b].status = "none" /\ hold[h].status = "active"
      /\ booking' = [booking EXCEPT ![b] = NewBooking("pending_payment", h, e)]
      /\ hold' = [hold EXCEPT ![h].end = e]
      /\ slot' = [x \in DOMAIN slot |->
                    IF slot[x].hold = h THEN [slot[x] EXCEPT !.booking = b] ELSE slot[x]]
      /\ now' = now /\ job' = job
  BY UsableIsActive DEF BookPayNow, BookingChecks
<1> HIDE DEF e
<1>2. job[b].status = "none"
  BY <1>1 DEF Sane, Intervals
<1>3. booking'[b].status # "none" /\ \A c \in BookingId \ {b} : booking'[c] = booking[c]
  BY <1>1 DEF Sane, TypeOK, NewBooking
<1>4. \A g \in HoldId :
        /\ Kept(g)
        /\ hold'[g].status = hold[g].status
  BY <1>1 DEF Sane, TypeOK, HoldRow, Kept
<1>5. \A x \in Team \X Instant :
        /\ slot'[x].hold = slot[x].hold
        /\ slot'[x].status = slot[x].status
        /\ slot'[x].expires = slot[x].expires
        /\ slot'[x].booking = b \/ slot'[x].booking = slot[x].booking
  BY <1>1 DEF Sane, TypeOK, SlotRow
<1>6. SlotsNameRows'
  <2>1. ASSUME NEW x \in Team \X Instant
        PROVE  /\ slot'[x].hold \in HoldId => hold'[slot'[x].hold].status # "none"
               /\ slot'[x].booking \in BookingId =>
                    /\ booking'[slot'[x].booking].status # "none"
                    /\ slot'[x].status = "held" => job'[slot'[x].booking].status = "none"
    <3>1. slot'[x].hold \in HoldId => hold'[slot'[x].hold].status # "none"
      BY <1>4, <1>5 DEF Held, SlotsNameRows
    <3>2. CASE slot'[x].booking = b
      BY <3>1, <3>2, <1>1, <1>2, <1>3
    <3>3. CASE slot'[x].booking = slot[x].booking /\ slot[x].booking # b
      BY <3>1, <3>3, <1>1, <1>3, <1>5 DEF Held, SlotsNameRows
    <3> QED  BY <3>2, <3>3, <1>5
  <2> QED  BY <2>1 DEF SlotsNameRows, Instant, Horizon
<1>7. \A g \in HoldId : Live(g)' => Live(g) /\ Kept(g) /\ SlotsKept(g)
  BY <1>1, <1>4, <1>5 DEF Live, Kept, SlotsKept
<1> QED  BY <1>6, <1>7, HeldStep

(* A job moves: its booking gives up the slots it has and takes others     *)
(* that do not block.                                                      *)
LEMMA MoveHeld ==
  ASSUME Sane, Sane', Held, NEW b \in BookingId, NEW freed, NEW taken,
         NEW r \in HoldId \cup {NoHold},
         job[b].status # "none",
         \A c \in BookingId : booking'[c].status = booking[c].status,
         \A c \in BookingId \ {b} : job'[c] = job[c],
         slot' = Replace(freed, taken, ReservedSlot(b, r)),
         r \in HoldId => hold'[r].status = "consumed",
         \A g \in HoldId : hold'[g].status = "consumed" \/ Marked(hold'[g], hold[g]),
         \A x \in freed : \/ x \in SlotsOfBooking(b)
                          \/ slot[x].hold \in HoldId /\ hold'[slot[x].hold].status = "consumed",
         \A x \in taken : x \in freed \/ ~SlotBlocks(slot[x]),
         now' = now
  PROVE  Held'
<1>1. booking[b].status # "none"
  BY DEF Sane, Intervals
<1>2. RowsStay
  BY DEF RowsStay, Marked
<1>3. ASSUME NEW g \in HoldId, Live(g)'
      PROVE  /\ Live(g) /\ Kept(g)
             /\ \A x \in Team \X Instant : x \in freed \cup taken => slot[x].hold # g
  <2>1. hold'[g].status = "active" /\ Marked(hold'[g], hold[g])
    BY <1>3 DEF Live
  <2>2. Live(g) /\ Kept(g)
    BY <2>1, <1>3, MarkedLive
  <2>3. ASSUME NEW x \in Team \X Instant, x \in freed \cup taken
        PROVE  slot[x].hold # g
    <3>1. CASE x \in SlotsOfBooking(b)
      BY <3>1, <2>2, NotOfLive DEF SlotsOfBooking
    <3>2. CASE slot[x].hold \in HoldId /\ hold'[slot[x].hold].status = "consumed"
      BY <3>2, <2>1
    <3>3. CASE ~SlotBlocks(slot[x])
      BY <3>3, <2>2, NotOfLive
    <3> QED  BY <2>3, <3>1, <3>2, <3>3
  <2> QED  BY <2>2, <2>3
<1> QED  BY <1>1, <1>2, <1>3, ReplaceHeld

LEMMA RescheduleByHoldHeld ==
  ASSUME Sane, Sane', Held, NEW b \in BookingId, NEW h \in HoldId, RescheduleByHold(b, h)
  PROVE  Held'
<1> DEFINE s       == hold[h].start
           e       == s + (job[b].end - job[b].start)
           t       == IF job[b].source = "manual" THEN job[b].team ELSE hold[h].team
           held    == SlotsOfHold(h)
           targets == IF t = hold[h].team THEN held ELSE SlotsOfTeam(t, {x[2] : x \in held})
           r       == IF t = hold[h].team THEN h ELSE NoHold
           marked  == ExpireStale(hold, targets)
<1>1. job[b].status # "none"
  BY DEF RescheduleByHold, CustomerMayReschedule, StaffMayReschedule
<1>2. /\ slot' = Replace(SlotsOfBooking(b) \cup held, targets, ReservedSlot(b, r))
      /\ hold' = [marked EXCEPT
                    ![h] = [@ EXCEPT !.status = "consumed", !.team = t, !.end = e]]
      /\ booking' = [booking EXCEPT
                       ![b] = [@ EXCEPT !.team = t, !.start = s, !.end = e, !.hold = h]]
      /\ job' = [job EXCEPT
                   ![b] = [@ EXCEPT !.status = "assigned", !.team = t, !.start = s, !.end = e]]
      /\ t # hold[h].team => \A x \in targets : ~SlotBlocks(slot[x])
      /\ now' = now
  BY DEF RescheduleByHold
<1>3. r \in HoldId \cup {NoHold} /\ (r \in HoldId => r = h)
  BY CapacityConstants
<1>4. /\ marked \in [HoldId -> HoldRow]
      /\ \A g \in HoldId : Marked(marked[g], hold[g])
  BY ExpireStaleRows DEF Sane, TypeOK
<1>5. \A x \in held : slot[x].hold = h
  BY DEF SlotsOfHold
<1>6. t = hold[h].team => targets = held
  OBVIOUS
<1> HIDE DEF s, e, t, held, targets, r, marked
<1>7. /\ hold'[h].status = "consumed"
      /\ \A g \in HoldId \ {h} : hold'[g] = marked[g]
  BY <1>2, <1>4 DEF HoldRow
<1>8. \A c \in BookingId : booking'[c].status = booking[c].status
  BY <1>2 DEF Sane, TypeOK, BookingRow
<1>9. \A c \in BookingId \ {b} : job'[c] = job[c]
  BY <1>2 DEF Sane, TypeOK
<1>10. \A x \in targets : x \in SlotsOfBooking(b) \cup held \/ ~SlotBlocks(slot[x])
  BY <1>2, <1>6
<1>11. \A g \in HoldId : hold'[g].status = "consumed" \/ Marked(hold'[g], hold[g])
  BY <1>4, <1>7
<1>12. \A x \in SlotsOfBooking(b) \cup held :
         \/ x \in SlotsOfBooking(b)
         \/ slot[x].hold \in HoldId /\ hold'[slot[x].hold].status = "consumed"
  BY <1>5, <1>7
<1>13. r \in HoldId => hold'[r].status = "consumed"
  BY <1>3, <1>7
<1> QED  BY <1>1, <1>2, <1>3, <1>8, <1>9, <1>10, <1>11, <1>12, <1>13, MoveHeld

LEMMA RescheduleExactHeld ==
  ASSUME Sane, Sane', Held, NEW b \in BookingId, NEW t \in Team, NEW s \in Instant,
         NEW override \in BOOLEAN, RescheduleExact(b, t, s, override)
  PROVE  Held'
<1> DEFINE e   == s + (job[b].end - job[b].start)
           old == SlotsOfBooking(b)
           target == {<<t, s>>}
<1>1. job[b].status # "none"
  BY DEF RescheduleExact, StaffMayReschedule
<1>2. /\ \A x \in target : x \in old \/ ~SlotBlocks(slot[x])
      /\ slot' = Replace(old, target, ReservedSlot(b, NoHold))
      /\ hold' = ExpireStale(hold, target \ old)
      /\ booking' = [booking EXCEPT
                       ![b] = [@ EXCEPT !.team = t, !.start = s, !.end = e]]
      /\ job' = [job EXCEPT
                   ![b] = [@ EXCEPT !.status = "assigned", !.team = t, !.start = s, !.end = e]]
      /\ now' = now
  BY DEF RescheduleExact
<1>3. \A g \in HoldId : Marked(hold'[g], hold[g])
  BY <1>2, ExpireStaleRows DEF Sane, TypeOK
<1> HIDE DEF e, target
<1>4. \A c \in BookingId : booking'[c].status = booking[c].status
  BY <1>2 DEF Sane, TypeOK, BookingRow
<1>5. \A c \in BookingId \ {b} : job'[c] = job[c]
  BY <1>2 DEF Sane, TypeOK
<1>6. NoHold \notin HoldId
  BY CapacityConstants
<1> QED  BY <1>1, <1>2, <1>3, <1>4, <1>5, <1>6, MoveHeld

LEMMA AssignTeamHeld ==
  ASSUME Sane, Sane', Held, NEW b \in BookingId, NEW t \in Team, NEW override \in BOOLEAN,
         AssignTeam(b, t, override), t # job[b].team
  PROVE  Held'
<1> DEFINE source  == SlotsOfBooking(b)
           targets == SlotsOfTeam(t, {x[2] : x \in source})
<1>1. /\ job[b].status # "none"
      /\ job' = [job EXCEPT ![b] = [@ EXCEPT !.team = t, !.source = "manual"]]
      /\ \A x \in targets : ~SlotBlocks(slot[x])
      /\ slot' = Replace(source, targets, ReservedSlot(b, NoHold))
      /\ hold' = ExpireStale(hold, targets)
      /\ booking' = [booking EXCEPT ![b].team = t]
      /\ now' = now
  BY DEF AssignTeam
<1>2. \A g \in HoldId : Marked(hold'[g], hold[g])
  BY <1>1, ExpireStaleRows DEF Sane, TypeOK
<1> HIDE DEF targets
<1>3. \A c \in BookingId : booking'[c].status = booking[c].status
  BY <1>1 DEF Sane, TypeOK, BookingRow
<1>4. \A c \in BookingId \ {b} : job'[c] = job[c]
  BY <1>1 DEF Sane, TypeOK
<1>5. NoHold \notin HoldId
  BY CapacityConstants
<1> QED  BY <1>1, <1>2, <1>3, <1>4, <1>5, MoveHeld

LEMMA ApproveCancellationHeld ==
  ASSUME Sane, Sane', Held, NEW b \in BookingId, ApproveCancellation(b)
  PROVE  Held'
<1> DEFINE freed == {x \in SlotsOfBooking(b) : x[2] > now}
<1>1. /\ request[b] = "requested"
      /\ booking' = [booking EXCEPT ![b].status = "cancelled"]
      /\ job' = [job EXCEPT ![b].status = "cancelled"]
      /\ slot' = Overwrite(freed, FreeSlot)
      /\ hold' = hold /\ now' = now
  BY DEF ApproveCancellation
<1>2. job[b].status # "none"
  BY <1>1 DEF Sane, Intervals
<1>3. slot' = Replace(freed, {}, ReservedSlot(b, NoHold))
  BY <1>1 DEF Overwrite, Replace
<1>4. RowsStay
  BY <1>1, <1>2 DEF RowsStay, Sane, TypeOK, BookingRow, JobRow
<1>5. \A x \in freed : x \in SlotsOfBooking(b)
  OBVIOUS
<1> HIDE DEF freed
<1>6. ASSUME NEW g \in HoldId, Live(g)'
      PROVE  /\ Live(g) /\ Kept(g)
             /\ \A x \in Team \X Instant : x \in freed \cup {} => slot[x].hold # g
  <2>1. Live(g) /\ Kept(g)
    BY <1>1, <1>6 DEF Live, Kept
  <2>2. \A x \in Team \X Instant : x \in freed => slot[x].hold # g
    BY <2>1, <1>2, <1>5, NotOfLive DEF SlotsOfBooking
  <2> QED  BY <2>1, <2>2
<1>7. NoHold \notin HoldId
  BY CapacityConstants
<1> QED  BY <1>3, <1>4, <1>6, <1>7, ReplaceHeld

(* The other steps leave holds and slots alone.                            *)
LEMMA QuietHeld ==
  ASSUME Sane, Sane', Held, RowsStay, hold' = hold, slot' = slot, now' \in Nat, now <= now'
  PROVE  Held'
<1>1. \A g \in HoldId : Live(g)' => Live(g) /\ Kept(g) /\ SlotsKept(g)
  BY RowFields DEF Live, Kept, SlotsKept, Sane, TypeOK
<1>2. SlotsNameRows'
  <2>1. ASSUME NEW x \in Team \X Instant
        PROVE  /\ slot'[x].hold \in HoldId => hold'[slot'[x].hold].status # "none"
               /\ slot'[x].booking \in BookingId =>
                    /\ booking'[slot'[x].booking].status # "none"
                    /\ slot'[x].status = "held" => job'[slot'[x].booking].status = "none"
    BY DEF Held, SlotsNameRows, RowsStay
  <2> QED  BY <2>1 DEF SlotsNameRows, Instant, Horizon
<1> QED  BY <1>1, <1>2, HeldStep

LEMMA QuietSteps ==
  ASSUME Sane, NEW b \in BookingId,
         \/ \E t \in Team : AssignAuto(b, t)
         \/ \E t \in Team, override \in BOOLEAN : AssignTeam(b, t, override) /\ t = job[b].team
         \/ AssignStaff(b)
         \/ StartJob(b)
         \/ CompleteJob(b)
         \/ RequestCancellation(b)
         \/ RejectCancellation(b)
  PROVE  RowsStay /\ hold' = hold /\ slot' = slot /\ now' = now
<1> USE DEF RowsStay, Sane, TypeOK, BookingRow, JobRow
<1>1. CASE \E t \in Team : AssignAuto(b, t)
  BY <1>1 DEF AssignAuto
<1>2. CASE \E t \in Team, override \in BOOLEAN : AssignTeam(b, t, override) /\ t = job[b].team
  BY <1>2 DEF AssignTeam
<1>3. CASE AssignStaff(b)
  BY <1>3 DEF AssignStaff
<1>4. CASE StartJob(b)
  BY <1>4 DEF StartJob
<1>5. CASE CompleteJob(b)
  BY <1>5 DEF CompleteJob
<1>6. CASE RequestCancellation(b)
  BY <1>6 DEF RequestCancellation
<1>7. CASE RejectCancellation(b)
  BY <1>7 DEF RejectCancellation
<1> QED  BY <1>1, <1>2, <1>3, <1>4, <1>5, <1>6, <1>7

LEMMA HeldStays == Sane /\ Held /\ [Next]_vars => Held'
<1> SUFFICES ASSUME Sane, Held, [Next]_vars  PROVE Held'
  OBVIOUS
<1>1. Sane'
  BY SaneStep
<1>2. now \in Nat
  BY DEF Sane, TypeOK
<1>3. CASE (\E t \in Unsteady : ChangeEligibility(t)) \/ Tick \/ UNCHANGED vars
  <2>1. RowsStay /\ hold' = hold /\ slot' = slot /\ now' \in Nat /\ now <= now'
    BY <1>2, <1>3 DEF ChangeEligibility, Tick, vars, RowsStay
  <2> QED  BY <2>1, <1>1, QuietHeld
<1>4. ASSUME NEW b \in BookingId,
             \/ \E t \in Team : AssignAuto(b, t)
             \/ \E t \in Team, override \in BOOLEAN : AssignTeam(b, t, override)
             \/ AssignStaff(b)
             \/ StartJob(b)
             \/ CompleteJob(b)
             \/ RequestCancellation(b)
             \/ RejectCancellation(b)
      PROVE  Held'
  <2>1. CASE \E t \in Team, override \in BOOLEAN : AssignTeam(b, t, override) /\ t # job[b].team
    BY <2>1, <1>1, AssignTeamHeld
  <2>2. CASE ~ \E t \in Team, override \in BOOLEAN : AssignTeam(b, t, override) /\ t # job[b].team
    <3>1. RowsStay /\ hold' = hold /\ slot' = slot /\ now' = now
      BY <2>2, <1>4, QuietSteps
    <3> QED  BY <3>1, <1>1, <1>2, QuietHeld
  <2> QED  BY <2>1, <2>2
<1> QED  BY <1>1, <1>3, <1>4, CreateHoldHeld, BookPayAfterHeld, BookPayNowHeld,
            RescheduleByHoldHeld, RescheduleExactHeld,
            ApproveCancellationHeld
         DEF Next

(* Whatever other customers and staff do, a hold keeps every slot it took  *)
(* until its time runs out: the slots that _lock_slot_sequence gave it are *)
(* never freed, reserved or held again by another handler.                 *)
THEOREM LiveHoldsKeepTheirSlots == Spec => []LiveHoldKeepsSlots
<1>1. Held => LiveHoldKeepsSlots
  BY DEF Held
<1> QED  BY <1>1, InitSane, SaneStep, InitHeld, HeldStays, PTL DEF Spec
-----------------------------------------------------------------------------
(* Jobs and their slots.                                                   *)

(* What the slots of one booking look like.                                *)
Placed(b) ==
  /\ \A x \in Team \X Instant :
       slot[x].booking = b =>
         /\ slot[x].status \in {"held", "reserved"}
         /\ slot[x].status = "reserved" => job[b].status # "none"
         /\ booking[b].start <= x[2] /\ x[2] < booking[b].end
  /\ \A x \in Team \X Instant :
       slot[x].booking = b /\ job[b].status # "none" => x[1] = booking[b].team
  /\ job[b].status \in BlockingStatus =>
       \E x \in Team \X Instant : slot[x].booking = b /\ x[2] = job[b].start

PlacedAll == \A b \in BookingId : Placed(b)

LEMMA PlacedShows ==
  ASSUME Sane, Held, PlacedAll
  PROVE  JobsHoldTheirSlots
<1> SUFFICES ASSUME NEW b \in BookingId
             PROVE  /\ job[b].status \in BlockingStatus
                         => \E x \in SlotsOfBooking(b) :
                              slot[x].status = "reserved" /\ x[2] = job[b].start
                    /\ \A x \in SlotsOfBooking(b) :
                         slot[x].status = "reserved" => x[1] = booking[b].team
                    /\ \A x \in SlotsOfBooking(b) :
                         booking[b].start <= x[2] /\ x[2] < booking[b].end
  BY DEF JobsHoldTheirSlots
<1>1. SlotsOfBooking(b) = {x \in Team \X Instant : slot[x].booking = b}
  BY SlotDomain DEF SlotsOfBooking
<1>2. Placed(b)
  BY DEF PlacedAll
<1>3. \A x \in SlotsOfBooking(b) : job[b].status # "none" => slot[x].status = "reserved"
  BY <1>1, <1>2 DEF Placed, Held, SlotsNameRows
<1>4. job[b].status \in BlockingStatus => job[b].status # "none"
  BY DEF BlockingStatus
<1> QED  BY <1>1, <1>2, <1>3, <1>4 DEF Placed

(* The grid times of a usable hold lie within every selection it may be    *)
(* used for.                                                               *)
LEMMA RequiredPositive ==
  ASSUME NEW v \in Nat
  PROVE  RequiredSlots(v) \in Nat \ {0}
  BY CapacityConstants DEF RequiredSlots

LEMMA WindowWithin ==
  ASSUME NEW s \in Nat, NEW v \in VehicleCounts, NEW n \in Spans(v), NEW w \in Windows(s, v)
  PROVE  s <= w /\ w < s + n
<1>1. v \in Nat /\ SlotLength \in Nat \ {0}
  BY CapacityConstants
<1> DEFINE q == RequiredSlots(v)
<1>2. q \in Nat \ {0}
  BY <1>1, RequiredPositive
<1>3. PICK d \in Durations : n = OperationalDuration(d, v)
  BY DEF Spans
<1>4. q * SlotLength \in Nat
  BY <1>1, <1>2, ProductNat
<1>5. n \in Nat /\ q * SlotLength <= n
  <2>1. n = IF d > q * SlotLength THEN d ELSE q * SlotLength
    BY <1>3 DEF OperationalDuration
  <2>2. d \in Nat
    BY CapacityConstants
  <2> HIDE DEF q
  <2> QED  BY <2>1, <2>2, <1>4
<1>6. PICK i \in 0 .. q - 1 : w = s + i * SlotLength
  BY DEF Windows
<1> HIDE DEF q
<1>7. i \in Nat /\ i + 1 \in Nat /\ i + 1 <= q
  BY <1>2
<1>8. i * SlotLength + SlotLength <= q * SlotLength
  <2> DEFINE j == i + 1
  <2>1. j \in Nat /\ j <= q
    BY <1>7
  <2>2. j * SlotLength = i * SlotLength + SlotLength
    BY <1>1, <1>7
  <2> HIDE DEF j
  <2>3. j * SlotLength <= q * SlotLength
    BY <1>1, <1>2, <2>1, ProductMonotonic
  <2> QED  BY <2>2, <2>3
<1>9. i * SlotLength \in Nat
  BY <1>1, <1>7, ProductNat
<1> QED  BY <1>1, <1>4, <1>5, <1>6, <1>8, <1>9

LEMMA UsableTimes ==
  ASSUME Sane, Held, NEW h \in HoldId, HoldUsable(h)
  PROVE  LET s == hold[h].start
             v == hold[h].vehicles
             W == Windows(s, v)
         IN /\ SlotsOfHold(h) = SlotsOfTeam(hold[h].team, W)
            /\ \A x \in SlotsOfHold(h) : slot[x].status = "held"
            /\ s \in W /\ W \subseteq Instant
            /\ v \in VehicleCounts
            /\ \A n \in Spans(v), w \in W : s <= w /\ w < s + n
<1> DEFINE s == hold[h].start
           v == hold[h].vehicles
           W == Windows(s, v)
<1>1. hold[h].status = "active" /\ hold[h].expires > now
  BY UsableIsActive
<1>2. /\ SlotsOfHold(h) = SlotsOfTeam(hold[h].team, W)
      /\ \A x \in SlotsOfHold(h) : slot[x].status = "held"
  BY <1>1 DEF Held, LiveHoldKeepsSlots
<1>3. v \in VehicleCounts /\ s \in Nat
  BY <1>1, RowFields DEF Sane, Intervals
<1>4. s \in W
  <2>1. RequiredSlots(v) \in Nat \ {0} /\ SlotLength \in Nat
    BY <1>3, RequiredPositive, CapacityConstants
  <2>2. 0 \in 0 .. RequiredSlots(v) - 1 /\ s = s + 0 * SlotLength
    BY <1>3, <2>1
  <2> QED  BY <2>2 DEF Windows
<1> HIDE DEF s, v
<1>5. W \subseteq Instant
  <2>1. \A w \in W : <<hold[h].team, w>> \in Team \X Instant
    BY <1>2, SlotDomain DEF SlotsOfHold, SlotsOfTeam
  <2> QED  BY <2>1
<1>6. \A n \in Spans(v), w \in W : s <= w /\ w < s + n
  BY <1>3, WindowWithin
<1> HIDE DEF W
<1> QED  BY <1>2, <1>3, <1>4, <1>5, <1>6 DEF s, v, W

(* What a booking keeps when a step gives it no slots.                     *)
Untouched(c) ==
  /\ booking'[c].team = booking[c].team
  /\ booking'[c].start = booking[c].start
  /\ booking'[c].end = booking[c].end
  /\ job'[c].start = job[c].start
  /\ job'[c].status = "none" <=> job[c].status = "none"
  /\ job'[c].status \in BlockingStatus => job[c].status \in BlockingStatus
  /\ \A x \in Team \X Instant :
       slot'[x].booking = c => slot[x].booking = c /\ slot'[x].status = slot[x].status
  /\ \A x \in Team \X Instant :
       /\ slot[x].booking = c
       /\ slot[x].status = "reserved"
       /\ job'[c].status \in BlockingStatus
       => slot'[x].booking = c

LEMMA StaysPlaced ==
  ASSUME Held, NEW c \in BookingId, Placed(c), Untouched(c)
  PROVE  Placed(c)'
<1>1. ASSUME job'[c].status \in BlockingStatus
      PROVE  \E x \in Team \X Instant : slot'[x].booking = c /\ x[2] = job'[c].start
  <2>1. PICK x \in Team \X Instant : slot[x].booking = c /\ x[2] = job[c].start
    BY <1>1 DEF Placed, Untouched
  <2>2. job[c].status # "none"
    BY <1>1 DEF Untouched, BlockingStatus
  <2>3. slot[x].status = "reserved"
    BY <2>1, <2>2 DEF Placed, Held, SlotsNameRows
  <2> QED  BY <2>1, <2>3, <1>1 DEF Untouched
<1>2. \A x \in Team \X Instant :
        slot'[x].booking = c =>
          /\ slot'[x].status \in {"held", "reserved"}
          /\ slot'[x].status = "reserved" => job'[c].status # "none"
          /\ booking'[c].start <= x[2] /\ x[2] < booking'[c].end
  BY DEF Placed, Untouched
<1>3. \A x \in Team \X Instant :
        slot'[x].booking = c /\ job'[c].status # "none" => x[1] = booking'[c].team
  BY DEF Placed, Untouched
<1> QED  BY <1>1, <1>2, <1>3 DEF Placed, Instant, Horizon, BlockingStatus

(* One team's slots at some times of the booking replace all it had.       *)
LEMMA ReplacePlaced ==
  ASSUME Sane, Held, PlacedAll, NEW b \in BookingId, NEW t \in Team,
         NEW W \in SUBSET Instant, NEW freed, NEW r,
         slot' = Replace(freed, SlotsOfTeam(t, W), ReservedSlot(b, r)),
         \A x \in Team \X Instant :
           slot[x].booking = b => x \in freed \cup SlotsOfTeam(t, W),
         \A x \in Team \X Instant :
           x \in freed \cup SlotsOfTeam(t, W) /\ slot[x].status = "reserved"
             => slot[x].booking = b,
         job'[b].status # "none", booking'[b].team = t,
         job'[b].status \in BlockingStatus => job'[b].start \in W,
         \A w \in W : booking'[b].start <= w /\ w < booking'[b].end,
         \A c \in BookingId \ {b} : booking'[c] = booking[c] /\ job'[c] = job[c]
  PROVE  PlacedAll'
<1> DEFINE taken == SlotsOfTeam(t, W)
<1>1. /\ \A x \in taken : x \in Team \X Instant /\ x[1] = t /\ x[2] \in W
      /\ \A w \in W : <<t, w>> \in taken
  BY DEF SlotsOfTeam
<1> HIDE DEF taken
<1>2. \A x \in Team \X Instant :
        slot'[x] = IF x \in taken THEN ReservedSlot(b, r)
                   ELSE IF x \in freed THEN FreeSlot ELSE slot[x]
  BY SlotDomain DEF Replace, taken
<1>3. /\ ReservedSlot(b, r).booking = b /\ ReservedSlot(b, r).status = "reserved"
      /\ FreeSlot.booking = NoBooking /\ NoBooking \notin BookingId
  BY CapacityConstants DEF ReservedSlot, FreeSlot
<1>4. \A x \in Team \X Instant :
        /\ slot[x].booking = b => x \in freed \cup taken
        /\ x \in freed \cup taken /\ slot[x].status = "reserved" => slot[x].booking = b
  BY DEF taken
<1>5. Placed(b)'
  <2>1. \A x \in Team \X Instant : slot'[x].booking = b <=> x \in taken
    BY <1>2, <1>3, <1>4
  <2>2. \A x \in taken : slot'[x].status = "reserved"
    BY <1>1, <1>2, <1>3
  <2>3. job'[b].status \in BlockingStatus =>
          \E x \in Team \X Instant : slot'[x].booking = b /\ x[2] = job'[b].start
    <3>1. SUFFICES ASSUME job'[b].status \in BlockingStatus
                   PROVE  \E x \in Team \X Instant : slot'[x].booking = b /\ x[2] = job'[b].start
      OBVIOUS
    <3>2. <<t, job'[b].start>> \in taken
      BY <3>1, <1>1
    <3> QED  BY <3>2, <1>1, <2>1
  <2>4. \A x \in Team \X Instant :
          slot'[x].booking = b =>
            /\ slot'[x].status \in {"held", "reserved"}
            /\ slot'[x].status = "reserved" => job'[b].status # "none"
            /\ booking'[b].start <= x[2] /\ x[2] < booking'[b].end
    BY <1>1, <2>1, <2>2
  <2>5. \A x \in Team \X Instant : slot'[x].booking = b => x[1] = booking'[b].team
    BY <1>1, <2>1
  <2> QED  BY <2>3, <2>4, <2>5 DEF Placed, Instant, Horizon, BlockingStatus
<1>6. ASSUME NEW c \in BookingId \ {b}
      PROVE  Placed(c)'
  <2>1. \A x \in Team \X Instant :
          /\ slot'[x].booking = c => slot[x].booking = c /\ slot'[x].status = slot[x].status
          /\ slot[x].booking = c /\ slot[x].status = "reserved" => slot'[x].booking = c
    BY <1>2, <1>3, <1>4
  <2>2. Untouched(c)
    BY <2>1 DEF Untouched
  <2> QED  BY <2>2, StaysPlaced DEF PlacedAll
<1> QED  BY <1>5, <1>6 DEF PlacedAll

LEMMA InitPlaced == Init => PlacedAll
<1> SUFFICES ASSUME Init  PROVE PlacedAll
  OBVIOUS
<1>1. \A x \in Team \X Instant : slot[x].booking = NoBooking
  BY DEF Init, FreeSlot, BlockedSlot
<1>2. \A b \in BookingId : job[b].status = "none"
  BY DEF Init
<1> QED  BY <1>1, <1>2, CapacityConstants DEF PlacedAll, Placed, BlockingStatus

LEMMA CreateHoldPlaced ==
  ASSUME Sane, Held, PlacedAll, NEW h \in HoldId, NEW t \in Team, NEW s \in GridStarts,
         NEW v \in VehicleCounts, NEW d \in Durations, CreateHold(h, t, s, v, d)
  PROVE  PlacedAll'
<1> DEFINE targets == SlotsOfTeam(t, Windows(s, v))
           row     == HeldSlot(h, now + HoldLife)
<1>1. /\ \A x \in targets : ~SlotBlocks(slot[x])
      /\ slot' = Overwrite(targets, row)
      /\ booking' = booking /\ job' = job
  BY DEF CreateHold
<1>2. row.booking = NoBooking /\ NoBooking \notin BookingId
  BY CapacityConstants DEF HeldSlot
<1> HIDE DEF targets, row
<1>3. \A x \in Team \X Instant : slot'[x] = IF x \in targets THEN row ELSE slot[x]
  BY <1>1, SlotDomain DEF Overwrite
<1>4. \A x \in targets : slot[x].status # "reserved"
  BY <1>1 DEF SlotBlocks
<1>5. \A c \in BookingId : Untouched(c)
  BY <1>1, <1>2, <1>3, <1>4 DEF Untouched
<1> QED  BY <1>5, StaysPlaced DEF PlacedAll

(* A booking made from a usable hold for a span of its vehicle count.      *)
LEMMA TakeOverPlaced ==
  ASSUME Sane, Held, PlacedAll, NEW b \in BookingId, NEW h \in HoldId, NEW e \in Nat,
         HoldUsable(h),
         booking[b].status = "none",
         e - hold[h].start \in Spans(hold[h].vehicles),
         hold[h].team \in Team,
         booking'[b] = NewBooking("confirmed", h, e),
         job'[b] = NewJob(h, e),
         \A c \in BookingId \ {b} : booking'[c] = booking[c] /\ job'[c] = job[c],
         slot' = Overwrite(SlotsOfHold(h), ReservedSlot(b, h))
  PROVE  PlacedAll'
<1> DEFINE W == Windows(hold[h].start, hold[h].vehicles)
<1>1. /\ SlotsOfHold(h) = SlotsOfTeam(hold[h].team, W)
      /\ \A x \in SlotsOfHold(h) : slot[x].status = "held"
      /\ hold[h].start \in W /\ W \subseteq Instant
      /\ hold[h].vehicles \in VehicleCounts
      /\ \A n \in Spans(hold[h].vehicles), w \in W :
           hold[h].start <= w /\ w < hold[h].start + n
  BY UsableTimes
<1> HIDE DEF W
<1>2. slot' = Replace({}, SlotsOfTeam(hold[h].team, W), ReservedSlot(b, h))
  BY <1>1, OverwriteReplaces
<1>3. /\ job'[b].status # "none" /\ job'[b].start = hold[h].start
      /\ booking'[b].team = hold[h].team
      /\ booking'[b].start = hold[h].start /\ booking'[b].end = e
  BY DEF NewBooking, NewJob
<1>4. \A w \in W : booking'[b].start <= w /\ w < booking'[b].end
  <2>1. hold[h].start \in Nat
    BY RowFields
  <2>2. hold[h].start + (e - hold[h].start) = e
    BY <2>1
  <2> QED  BY <1>1, <1>3, <2>2
<1>5. \A x \in Team \X Instant : slot[x].booking # b
  BY DEF Held, SlotsNameRows
<1>6. \A x \in Team \X Instant :
        x \in {} \cup SlotsOfTeam(hold[h].team, W) => slot[x].status # "reserved"
  BY <1>1
<1> QED  BY <1>1, <1>2, <1>3, <1>4, <1>5, <1>6, ReplacePlaced

LEMMA UsableTeam ==
  ASSUME Sane, Held, NEW h \in HoldId, HoldUsable(h)
  PROVE  hold[h].team \in Team
<1>1. <<hold[h].team, hold[h].start>> \in SlotsOfHold(h)
  BY UsableTimes DEF SlotsOfTeam
<1> QED  BY <1>1, SlotDomain DEF SlotsOfHold

LEMMA BookPayAfterPlaced ==
  ASSUME Sane, Held, PlacedAll, NEW b \in BookingId, NEW h \in HoldId, NEW d \in Durations,
         BookPayAfter(b, h, d)
  PROVE  PlacedAll'
<1> DEFINE e == hold[h].start + OperationalDuration(d, hold[h].vehicles)
<1>1. /\ HoldUsable(h)
      /\ booking[b].status = "none"
      /\ booking' = [booking EXCEPT ![b] = NewBooking("confirmed", h, e)]
      /\ job' = [job EXCEPT ![b] = NewJob(h, e)]
      /\ slot' = Overwrite(SlotsOfHold(h), ReservedSlot(b, h))
  BY DEF BookPayAfter, BookingChecks
<1>2. e \in Nat /\ e - hold[h].start \in Spans(hold[h].vehicles)
  BY <1>1, UsableIsActive, BookingSpan
<1> HIDE DEF e
<1>3. /\ booking'[b] = NewBooking("confirmed", h, e) /\ job'[b] = NewJob(h, e)
      /\ \A c \in BookingId \ {b} : booking'[c] = booking[c] /\ job'[c] = job[c]
  BY <1>1 DEF Sane, TypeOK
<1> QED  BY <1>1, <1>2, <1>3, UsableTeam, TakeOverPlaced

LEMMA BookPayNowPlaced ==
  ASSUME Sane, Held, PlacedAll, NEW b \in BookingId, NEW h \in HoldId, NEW d \in Durations,
         BookPayNow(b, h, d)
  PROVE  PlacedAll'
<1> DEFINE e == hold[h].start + OperationalDuration(d, hold[h].vehicles)
           W == Windows(hold[h].start, hold[h].vehicles)
<1>1. /\ HoldUsable(h)
      /\ booking[b].status = "none"
      /\ booking' = [booking EXCEPT ![b] = NewBooking("pending_payment", h, e)]
      /\ slot' = [x \in DOMAIN slot |->
                    IF slot[x].hold = h THEN [slot[x] EXCEPT !.booking = b] ELSE slot[x]]
      /\ job' = job
  BY DEF BookPayNow, BookingChecks
<1>2. e \in Nat /\ e - hold[h].start \in Spans(hold[h].vehicles)
  BY <1>1, UsableIsActive, BookingSpan
<1>3. /\ SlotsOfHold(h) = SlotsOfTeam(hold[h].team, W)
      /\ \A x \in SlotsOfHold(h) : slot[x].status = "held"
      /\ \A n \in Spans(hold[h].vehicles), w \in W :
           hold[h].start <= w /\ w < hold[h].start + n
  BY <1>1, UsableTimes
<1>4. \A x \in SlotsOfHold(h) : x[2] \in W
  BY <1>3 DEF SlotsOfTeam
<1> HIDE DEF e, W
<1>5. \A w \in W : hold[h].start <= w /\ w < e
  <2>1. hold[h].start \in Nat
    BY RowFields
  <2>2. hold[h].start + (e - hold[h].start) = e
    BY <1>2, <2>1
  <2> QED  BY <1>2, <1>3, <2>2
<1>6. /\ booking'[b].start = hold[h].start /\ booking'[b].end = e
      /\ \A c \in BookingId \ {b} : booking'[c] = booking[c]
  BY <1>1 DEF Sane, TypeOK, NewBooking
<1>7. job[b].status = "none"
  BY <1>1 DEF Sane, Intervals
<1>8. \A x \in Team \X Instant :
        /\ x \in SlotsOfHold(h) =>
             slot'[x].booking = b /\ slot'[x].status = "held" /\ slot[x].status = "held"
        /\ x \notin SlotsOfHold(h) => slot'[x] = slot[x]
        /\ slot[x].booking # b
  <2>1. \A x \in Team \X Instant : x \in SlotsOfHold(h) <=> slot[x].hold = h
    BY SlotDomain DEF SlotsOfHold
  <2>2. \A x \in Team \X Instant :
          slot'[x] = IF slot[x].hold = h THEN [slot[x] EXCEPT !.booking = b] ELSE slot[x]
    BY <1>1, SlotDomain
  <2>3. \A x \in Team \X Instant : slot[x] \in SlotRow /\ slot[x].booking # b
    BY <1>1 DEF Held, SlotsNameRows, Sane, TypeOK
  <2>4. \A x \in Team \X Instant :
          slot[x].hold = h => slot'[x].booking = b /\ slot'[x].status = slot[x].status
    BY <2>2, <2>3 DEF SlotRow
  <2> QED  BY <1>3, <2>1, <2>2, <2>3, <2>4
<1>9. Placed(b)'
  <2>1. \A x \in Team \X Instant : slot'[x].booking = b => x \in SlotsOfHold(h)
    BY <1>8
  <2>2. \A x \in Team \X Instant :
          slot'[x].booking = b =>
            /\ slot'[x].status = "held"
            /\ booking'[b].start <= x[2] /\ x[2] < booking'[b].end
    BY <2>1, <1>4, <1>5, <1>6, <1>8
  <2> QED  BY <2>2, <1>1, <1>7 DEF Placed, BlockingStatus, Instant, Horizon
<1>10. ASSUME NEW c \in BookingId \ {b}
       PROVE  Placed(c)'
  <2>1. job' = job /\ booking'[c] = booking[c]
    BY <1>1, <1>6
  <2>2. \A x \in Team \X Instant :
          /\ slot'[x].booking = c => slot[x].booking = c /\ slot'[x].status = slot[x].status
          /\ slot[x].booking = c /\ slot[x].status = "reserved" => slot'[x].booking = c
    BY <1>8
  <2>3. Untouched(c)
    BY <2>1, <2>2 DEF Untouched
  <2> QED  BY <2>3, StaysPlaced DEF PlacedAll
<1> QED  BY <1>9, <1>10 DEF PlacedAll

LEMMA TimesOfTeam ==
  ASSUME NEW t, NEW W
  PROVE  {x[2] : x \in SlotsOfTeam(t, W)} = W
<1>1. ASSUME NEW w \in W
      PROVE  w \in {x[2] : x \in SlotsOfTeam(t, W)}
  <2>1. <<t, w>> \in SlotsOfTeam(t, W) /\ <<t, w>>[2] = w
    BY DEF SlotsOfTeam
  <2> QED  BY <2>1
<1>2. \A x \in SlotsOfTeam(t, W) : x[2] \in W
  BY DEF SlotsOfTeam
<1> QED  BY <1>1, <1>2

LEMMA RescheduleByHoldPlaced ==
  ASSUME Sane, Held, PlacedAll, NEW b \in BookingId, NEW h \in HoldId, RescheduleByHold(b, h)
  PROVE  PlacedAll'
<1> DEFINE s       == hold[h].start
           n       == job[b].end - job[b].start
           e       == s + n
           t       == IF job[b].source = "manual" THEN job[b].team ELSE hold[h].team
           W       == Windows(s, hold[h].vehicles)
           held    == SlotsOfHold(h)
           targets == IF t = hold[h].team THEN held ELSE SlotsOfTeam(t, {x[2] : x \in held})
           r       == IF t = hold[h].team THEN h ELSE NoHold
           freed   == SlotsOfBooking(b) \cup held
<1>1. /\ job[b].status # "none"
      /\ HoldUsable(h)
      /\ hold[h].vehicles = booking[b].vehicles
      /\ t \in eligible
  BY DEF RescheduleByHold, CustomerMayReschedule, StaffMayReschedule, Feasible
<1>2. /\ slot' = Replace(freed, targets, ReservedSlot(b, r))
      /\ booking' = [booking EXCEPT
                       ![b] = [@ EXCEPT !.team = t, !.start = s, !.end = e, !.hold = h]]
      /\ job' = [job EXCEPT
                   ![b] = [@ EXCEPT !.status = "assigned", !.team = t, !.start = s, !.end = e]]
      /\ t # hold[h].team => \A x \in targets : ~SlotBlocks(slot[x])
  BY DEF RescheduleByHold
<1>3. /\ held = SlotsOfTeam(hold[h].team, W)
      /\ \A x \in held : slot[x].status = "held"
      /\ s \in W /\ W \subseteq Instant
      /\ \A m \in Spans(hold[h].vehicles), w \in W : s <= w /\ w < s + m
  BY <1>1, UsableTimes
<1>4. {x[2] : x \in held} = W
  BY <1>3, TimesOfTeam
<1>5. targets = SlotsOfTeam(t, W)
  BY <1>3, <1>4
<1>6. t = hold[h].team => targets = held
  OBVIOUS
<1>7. n \in Spans(hold[h].vehicles)
  BY <1>1 DEF Sane, Intervals
<1>8. t \in Team
  BY <1>1 DEF Sane, TypeOK
<1>9. \A x \in Team \X Instant : slot[x].booking = b => x \in freed
  BY SlotDomain DEF SlotsOfBooking
<1>10. \A x \in freed : slot[x].booking = b \/ x \in held
  BY DEF SlotsOfBooking
<1> HIDE DEF s, n, t, W, held, targets, r, freed
<1>11. \A x \in Team \X Instant :
         x \in freed \cup targets /\ slot[x].status = "reserved" => slot[x].booking = b
  BY <1>2, <1>3, <1>6, <1>10 DEF SlotBlocks
<1>12. /\ booking'[b].team = t /\ booking'[b].start = s /\ booking'[b].end = s + n
       /\ job'[b].status = "assigned" /\ job'[b].start = s
       /\ \A c \in BookingId \ {b} : booking'[c] = booking[c] /\ job'[c] = job[c]
  BY <1>2 DEF Sane, TypeOK, BookingRow, JobRow
<1>13. \A w \in W : booking'[b].start <= w /\ w < booking'[b].end
  BY <1>3, <1>7, <1>12
<1> HIDE DEF e
<1> QED  BY <1>2, <1>3, <1>5, <1>8, <1>9, <1>11, <1>12, <1>13, ReplacePlaced

LEMMA RescheduleExactPlaced ==
  ASSUME Sane, Held, PlacedAll, NEW b \in BookingId, NEW t \in Team, NEW s \in Instant,
         NEW override \in BOOLEAN, RescheduleExact(b, t, s, override)
  PROVE  PlacedAll'
<1> DEFINE e   == s + (job[b].end - job[b].start)
           old == SlotsOfBooking(b)
           W   == {s}
<1>1. job[b].status # "none"
  BY DEF RescheduleExact, StaffMayReschedule
<1>2. /\ <<t, s>> \in old \/ ~SlotBlocks(slot[<<t, s>>])
      /\ slot' = Replace(old, {<<t, s>>}, ReservedSlot(b, NoHold))
      /\ booking' = [booking EXCEPT
                       ![b] = [@ EXCEPT !.team = t, !.start = s, !.end = e]]
      /\ job' = [job EXCEPT
                   ![b] = [@ EXCEPT !.status = "assigned", !.team = t, !.start = s, !.end = e]]
  BY DEF RescheduleExact
<1>3. SlotsOfTeam(t, W) = {<<t, s>>}
  BY DEF SlotsOfTeam
<1>4. s \in Nat /\ s < e
  BY <1>1, HorizonNat, MovedSpan
<1>5. \A x \in Team \X Instant : slot[x].booking = b <=> x \in old
  BY SlotDomain DEF SlotsOfBooking
<1>6. \A x \in SlotsOfTeam(t, W) : x \in old \/ slot[x].status # "reserved"
  BY <1>2, <1>3 DEF SlotBlocks
<1>7. slot' = Replace(old, SlotsOfTeam(t, W), ReservedSlot(b, NoHold))
  BY <1>2, <1>3
<1> HIDE DEF e, old
<1>8. /\ booking'[b].team = t /\ booking'[b].start = s /\ booking'[b].end = e
      /\ job'[b].status = "assigned" /\ job'[b].start = s
      /\ \A c \in BookingId \ {b} : booking'[c] = booking[c] /\ job'[c] = job[c]
  BY <1>2 DEF Sane, TypeOK, BookingRow, JobRow
<1>9. /\ W \subseteq Instant
      /\ s \in W
      /\ \A w \in W : booking'[b].start <= w /\ w < booking'[b].end
  BY <1>4, <1>8
<1> HIDE DEF W
<1> QED  BY <1>5, <1>6, <1>7, <1>8, <1>9, ReplacePlaced

LEMMA AssignTeamPlaced ==
  ASSUME Sane, Held, PlacedAll, NEW b \in BookingId, NEW t \in Team, NEW override \in BOOLEAN,
         AssignTeam(b, t, override), t # job[b].team
  PROVE  PlacedAll'
<1> DEFINE source  == SlotsOfBooking(b)
           W       == {x[2] : x \in source}
           targets == SlotsOfTeam(t, W)
<1>1. /\ job[b].status # "none"
      /\ job' = [job EXCEPT ![b] = [@ EXCEPT !.team = t, !.source = "manual"]]
      /\ \A x \in targets : ~SlotBlocks(slot[x])
      /\ slot' = Replace(source, targets, ReservedSlot(b, NoHold))
      /\ booking' = [booking EXCEPT ![b].team = t]
  BY DEF AssignTeam
<1>2. source = {x \in Team \X Instant : slot[x].booking = b}
  BY SlotDomain DEF SlotsOfBooking
<1>3. W \subseteq Instant
  BY <1>2
<1>4. Placed(b)
  BY DEF PlacedAll
<1>5. job[b].status \in BlockingStatus => job[b].start \in W
  BY <1>2, <1>4 DEF Placed
<1>6. \A w \in W : booking[b].start <= w /\ w < booking[b].end
  BY <1>2, <1>4 DEF Placed
<1>7. \A x \in targets : slot[x].status # "reserved"
  BY <1>1 DEF SlotBlocks
<1> HIDE DEF source, W, targets
<1>8. /\ booking'[b].team = t
      /\ job'[b].status = job[b].status /\ job'[b].start = job[b].start
      /\ booking'[b].start = booking[b].start /\ booking'[b].end = booking[b].end
      /\ \A c \in BookingId \ {b} : booking'[c] = booking[c] /\ job'[c] = job[c]
  BY <1>1 DEF Sane, TypeOK, BookingRow, JobRow
<1>9. /\ \A x \in Team \X Instant : slot[x].booking = b => x \in source \cup targets
      /\ \A x \in Team \X Instant :
           x \in source \cup targets /\ slot[x].status = "reserved" => slot[x].booking = b
  BY <1>2, <1>7
<1> QED  BY <1>1, <1>3, <1>5, <1>6, <1>8, <1>9, ReplacePlaced DEF targets

LEMMA ApproveCancellationPlaced ==
  ASSUME Sane, Held, PlacedAll, NEW b \in BookingId, ApproveCancellation(b)
  PROVE  PlacedAll'
<1> DEFINE freed == {x \in SlotsOfBooking(b) : x[2] > now}
<1>1. /\ request[b] = "requested"
      /\ booking' = [booking EXCEPT ![b].status = "cancelled"]
      /\ job' = [job EXCEPT ![b].status = "cancelled"]
      /\ slot' = Overwrite(freed, FreeSlot)
  BY DEF ApproveCancellation
<1>2. job[b].status # "none"
  BY <1>1 DEF Sane, Intervals
<1>3. \A x \in freed : slot[x].booking = b
  BY DEF SlotsOfBooking
<1>4. FreeSlot.booking = NoBooking /\ NoBooking \notin BookingId
  BY CapacityConstants DEF FreeSlot
<1> HIDE DEF freed
<1>5. \A x \in Team \X Instant : slot'[x] = IF x \in freed THEN FreeSlot ELSE slot[x]
  BY <1>1, SlotDomain DEF Overwrite
<1>6. /\ \A c \in BookingId : /\ booking'[c].team = booking[c].team
                              /\ booking'[c].start = booking[c].start
                              /\ booking'[c].end = booking[c].end
                              /\ job'[c].start = job[c].start
      /\ \A c \in BookingId \ {b} : job'[c] = job[c]
      /\ job'[b].status = "cancelled"
  BY <1>1 DEF Sane, TypeOK, BookingRow, JobRow
<1>7. \A c \in BookingId : Untouched(c)
  BY <1>2, <1>3, <1>4, <1>5, <1>6 DEF Untouched, BlockingStatus
<1> QED  BY <1>7, StaysPlaced DEF PlacedAll

LEMMA QuietPlaced ==
  ASSUME Sane, Held, PlacedAll, NEW b \in BookingId,
         \/ \E t \in Team : AssignAuto(b, t)
         \/ \E t \in Team, override \in BOOLEAN : AssignTeam(b, t, override) /\ t = job[b].team
         \/ AssignStaff(b)
         \/ StartJob(b)
         \/ CompleteJob(b)
         \/ RequestCancellation(b)
         \/ RejectCancellation(b)
  PROVE  PlacedAll'
<1>1. \A c \in BookingId :
        /\ slot' = slot
        /\ booking'[c].team = booking[c].team
        /\ booking'[c].start = booking[c].start
        /\ booking'[c].end = booking[c].end
        /\ job'[c].start = job[c].start
        /\ job'[c].status = "none" <=> job[c].status = "none"
        /\ job'[c].status \in BlockingStatus => job[c].status \in BlockingStatus
  <2> USE DEF Sane, TypeOK, BookingRow, JobRow, BlockingStatus
  <2>1. CASE \E t \in Team : AssignAuto(b, t)
    <3>1. PICK t \in Team : AssignAuto(b, t)
      BY <2>1
    <3>2. /\ slot' = slot /\ booking' = booking
          /\ job' = [job EXCEPT ![b] = [@ EXCEPT !.team = t, !.source = "auto"]]
      BY <3>1 DEF AssignAuto
    <3> QED  BY <3>2
  <2>2. CASE \E t \in Team, override \in BOOLEAN : AssignTeam(b, t, override) /\ t = job[b].team
    <3>1. PICK t \in Team, override \in BOOLEAN : AssignTeam(b, t, override) /\ t = job[b].team
      BY <2>2
    <3>2. /\ slot' = slot /\ booking' = booking
          /\ job' = [job EXCEPT ![b] = [@ EXCEPT !.team = t, !.source = "manual"]]
      BY <3>1 DEF AssignTeam
    <3> QED  BY <3>2
  <2>3. CASE AssignStaff(b)
    BY <2>3 DEF AssignStaff
  <2>4. CASE StartJob(b)
    BY <2>4 DEF StartJob
  <2>5. CASE CompleteJob(b)
    BY <2>5 DEF CompleteJob
  <2>6. CASE RequestCancellation(b)
    BY <2>6 DEF RequestCancellation
  <2>7. CASE RejectCancellation(b)
    BY <2>7 DEF RejectCancellation
  <2> QED  BY <2>1, <2>2, <2>3, <2>4, <2>5, <2>6, <2>7
<1>2. \A c \in BookingId : Untouched(c)
  BY <1>1 DEF Untouched
<1> QED  BY <1>2, StaysPlaced DEF PlacedAll

LEMMA PlacedStays == Sane /\ Held /\ PlacedAll /\ [Next]_vars => PlacedAll'
<1> SUFFICES ASSUME Sane, Held, PlacedAll, [Next]_vars  PROVE PlacedAll'
  OBVIOUS
<1>1. CASE (\E t \in Unsteady : ChangeEligibility(t)) \/ Tick \/ UNCHANGED vars
  <2>1. slot' = slot /\ booking' = booking /\ job' = job
    BY <1>1 DEF ChangeEligibility, Tick, vars
  <2>2. \A c \in BookingId : Untouched(c)
    BY <2>1 DEF Untouched
  <2> QED  BY <2>2, StaysPlaced DEF PlacedAll
<1>2. ASSUME NEW b \in BookingId, NEW t \in Team, NEW override \in BOOLEAN,
             AssignTeam(b, t, override)
      PROVE  PlacedAll'
  BY <1>2, AssignTeamPlaced, QuietPlaced
<1> QED  BY <1>1, <1>2, CreateHoldPlaced, BookPayAfterPlaced, BookPayNowPlaced,
            RescheduleByHoldPlaced, RescheduleExactPlaced,
            ApproveCancellationPlaced, QuietPlaced
         DEF Next

(* The grid and the jobs never drift apart: whatever moves, assignments    *)
(* and cancellations came before, a job that still blocks its team has a   *)
(* reserved row at its start, and the rows reserved for one booking lie on *)
(* one team within its interval (_lock_slot_sequence, _reschedule_booking, *)
(* _reschedule_managed_exact and _move_booking_capacity).                  *)
THEOREM JobsAlwaysHoldSlots == Spec => []JobsHoldTheirSlots
<1> DEFINE I == Sane /\ Held /\ PlacedAll
<1>1. Init => I
  BY InitSane, InitHeld, InitPlaced
<1>2. I /\ [Next]_vars => I'
  BY SaneStep, HeldStays, PlacedStays
<1>3. I => JobsHoldTheirSlots
  BY PlacedShows
<1> HIDE DEF I
<1> QED  BY <1>1, <1>2, <1>3, PTL DEF Spec
-----------------------------------------------------------------------------
(* Manual assignments.                                                     *)

(* A manual assignment is one of a job that is there.                      *)
ManualIsAssigned ==
  \A b \in BookingId : job[b].source = "manual" => job[b].status # "none"

LEMMA ManualInit == Init => ManualIsAssigned
  BY DEF Init, ManualIsAssigned

(* A step that moves a job in time knows of its manual assignment.         *)
LEMMA ManualStep ==
  ASSUME Sane, ManualIsAssigned, [Next]_vars, NEW c \in BookingId
  PROVE  /\ job[c].source = "manual" /\ job'[c].start # job[c].start
              => job'[c].team = job[c].team
         /\ job'[c].source = "manual" => job'[c].status # "none"
<1> DEFINE Goal == /\ job[c].source = "manual" /\ job'[c].start # job[c].start
                        => job'[c].team = job[c].team
                   /\ job'[c].source = "manual" => job'[c].status # "none"
<1> USE DEF ManualIsAssigned, Sane, TypeOK, JobRow
<1>1. ASSUME job' = job  PROVE Goal
  BY <1>1
<1>2. ASSUME NEW h \in HoldId, NEW b \in BookingId, NEW e, booking[b].status = "none",
             job' = [job EXCEPT ![b] = NewJob(h, e)]
      PROVE  Goal
  BY <1>2 DEF NewJob, Intervals
<1>3. ASSUME NEW h \in HoldId, NEW b \in BookingId, NEW d \in Durations,
             BookPayAfter(b, h, d)
      PROVE  Goal
  BY <1>2, <1>3 DEF BookPayAfter, BookingChecks
<1>5. ASSUME NEW h \in HoldId, NEW b \in BookingId, RescheduleByHold(b, h)  PROVE Goal
  BY <1>5 DEF RescheduleByHold
<1>6. ASSUME NEW b \in BookingId, NEW t \in Team, NEW s \in Instant, NEW override \in BOOLEAN,
             RescheduleExact(b, t, s, override)
      PROVE  Goal
  BY <1>6 DEF RescheduleExact, KeepsManualTeam
<1>7. ASSUME NEW b \in BookingId, NEW t \in Team, NEW override \in BOOLEAN,
             AssignAuto(b, t) \/ AssignTeam(b, t, override)
      PROVE  Goal
  <2>1. /\ job[b].status # "none"
        /\ \E source \in {"auto", "manual"} :
             job' = [job EXCEPT ![b] = [@ EXCEPT !.team = t, !.source = source]]
    BY <1>7 DEF AssignAuto, AssignTeam
  <2> QED  BY <2>1
<1>8. ASSUME NEW b \in BookingId,
             AssignStaff(b) \/ StartJob(b) \/ CompleteJob(b) \/ ApproveCancellation(b)
      PROVE  Goal
  BY <1>8 DEF AssignStaff, StartJob, CompleteJob, ApproveCancellation
<1>9. ASSUME \/ \E h \in HoldId, t \in Team, s \in GridStarts, v \in VehicleCounts,
                   d \in Durations : CreateHold(h, t, s, v, d)
             \/ \E b \in BookingId, h \in HoldId, d \in Durations : BookPayNow(b, h, d)
             \/ \E b \in BookingId : RequestCancellation(b) \/ RejectCancellation(b)
             \/ \E t \in Unsteady : ChangeEligibility(t)
             \/ Tick
             \/ UNCHANGED vars
      PROVE  Goal
  BY <1>1, <1>9 DEF CreateHold, BookPayNow, RequestCancellation, RejectCancellation,
                    ChangeEligibility, Tick, vars
<1> HIDE DEF Goal, ManualIsAssigned, Sane, TypeOK, JobRow
<1>10. Goal
  BY <1>3, <1>5, <1>6, <1>7, <1>8, <1>9 DEF Next
<1> QED  BY <1>10 DEF Goal

(* _reschedule_booking and _reschedule_managed_exact keep the team of a    *)
(* job that a manager assigned by hand.                                    *)
THEOREM ManualAssignmentsStick == Spec => ManualStaysSticky
<1> DEFINE I == Sane /\ ManualIsAssigned
<1>1. Init => I
  BY InitSane, ManualInit
<1>2. I /\ [Next]_vars => I'
  BY SaneStep, ManualStep DEF ManualIsAssigned
<1>3. I /\ [Next]_vars =>
        [\A b \in BookingId :
           job[b].source = "manual" /\ job'[b].start # job[b].start
             => job'[b].team = job[b].team]_vars
  BY ManualStep
<1> HIDE DEF I
<1> QED  BY <1>1, <1>2, <1>3, PTL DEF Spec, ManualStaysSticky
=============================================================================
