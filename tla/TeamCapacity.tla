---------------------------- MODULE TeamCapacity ----------------------------
(***************************************************************************)
(* How the backend promises mobile-team time to customers: slot holds,     *)
(* bookings, jobs and the schedule-slot grid, with every handler that      *)
(* creates, moves or releases a claim on a team under the lock of its day. *)
(*                                                                         *)
(* Every handler runs in one database transaction.  The capacity decisions *)
(* of one business day are serialised by a transaction advisory lock       *)
(* (lock_schedule_day), so a handler is one atomic step here; module       *)
(* CapacityRace takes the statements apart.  A rewash                      *)
(* (_create_correction_job) decides without that lock: it is no step of    *)
(* this module, and CapacityRace has it statement by statement.            *)
(*                                                                         *)
(* Two kinds of record claim a team for an interval: an active, unexpired  *)
(* hold and a job in a blocking status.  A job has the identity of its     *)
(* booking (jobs.booking_id is unique).  Time is a number of ticks.        *)
(***************************************************************************)
EXTENDS Integers, FiniteSets

CONSTANTS
  Team,              \* mobile teams (schedule resources)
  HoldId,            \* slot hold groups that may be created
  BookingId,         \* bookings that may be created, each with its job
  NoTeam, NoHold, NoBooking, \* null foreign keys
  Days,              \* days that can be booked: 0 .. Days - 1
  OpenDays,          \* those on which the business is open
  DayLength,         \* ticks in a day
  Opening, Closing,  \* operating hours, as offsets in the day
  SlotLength,        \* slot_duration_minutes
  VehicleCounts,     \* vehicle counts of a request
  Threshold,         \* multi_vehicle_threshold
  SlotsAtThreshold,  \* multi_vehicle_required_slots
  Durations,         \* summed catalogue durations of a selection
  Turnaround,        \* default_team_turnaround_minutes
  HoldLife,          \* hold_duration_minutes
  Cutoff,            \* cancellation_cutoff_hours
  Blocked,           \* <<team, start>> rows blocked on the grid
  Unsteady,          \* bound: teams whose staffing changes while the model runs
  MaxTime            \* bound: the clock stops here

Horizon == Days * DayLength

Instant == 0 .. Horizon

ASSUME CapacityConstants ==
  /\ NoTeam \notin Team
  /\ NoHold \notin HoldId
  /\ NoBooking \notin BookingId
  /\ HoldId \cap BookingId = {}
  /\ {Days, DayLength, SlotLength, SlotsAtThreshold} \subseteq Nat \ {0}
  /\ {Opening, Closing, Threshold, Turnaround, HoldLife, Cutoff, MaxTime} \subseteq Nat
  /\ Closing < DayLength
  /\ OpenDays \subseteq 0 .. Days - 1
  /\ VehicleCounts \subseteq Nat \ {0}
  /\ Durations \subseteq Nat \ {0}
  /\ Blocked \subseteq Team \X Instant
  /\ Unsteady \subseteq Team

VARIABLES
  now,       \* the server's clock
  eligible,  \* teams that are active with a member who is not on leave
  hold,      \* rows of slot_hold_groups
  slot,      \* rows of schedule_slots; an absent row is a free one
  booking,   \* rows of bookings
  job,       \* rows of jobs
  request    \* the latest cancellation request of each booking

vars == <<now, eligible, hold, slot, booking, job, request>>
-----------------------------------------------------------------------------
(* Rows.                                                                   *)

Claim == HoldId \cup BookingId

(* "active" stands for en_route, arrived and in_progress, which capacity   *)
(* does not tell apart.                                                    *)
BlockingStatus == {"assigned", "active"}

JobStatus == {"none", "completed", "cancelled"} \cup BlockingStatus

HoldRow ==
  [status   : {"none", "active", "consumed", "expired"},
   team     : Team \cup {NoTeam},
   start    : Nat,
   end      : Nat,
   vehicles : Nat,
   expires  : Nat]

SlotRow ==
  [status  : {"free", "held", "reserved", "blocked"},
   hold    : HoldId \cup {NoHold},
   expires : Nat,
   booking : BookingId \cup {NoBooking}]

BookingRow ==
  [status   : {"none", "pending_payment", "confirmed", "cancellation_requested",
               "cancelled", "completed"},
   team     : Team \cup {NoTeam},
   start    : Nat,
   end      : Nat,
   vehicles : Nat,
   hold     : HoldId \cup {NoHold}]

JobRow ==
  [status : JobStatus,
   team   : Team \cup {NoTeam},
   start  : Nat,
   end    : Nat,
   source : {"auto", "manual"}]

FreeSlot ==
  [status |-> "free", hold |-> NoHold, expires |-> 0, booking |-> NoBooking]

BlockedSlot == [FreeSlot EXCEPT !.status = "blocked"]

TypeOK ==
  /\ now \in Nat
  /\ eligible \subseteq Team
  /\ hold \in [HoldId -> HoldRow]
  /\ slot \in [Team \X Instant -> SlotRow]
  /\ booking \in [BookingId -> BookingRow]
  /\ job \in [BookingId -> JobRow]
  /\ request \in [BookingId -> {"none", "requested", "reviewed"}]

Init ==
  /\ now = 0
  /\ eligible = Team
  /\ hold = [h \in HoldId |->
               [status |-> "none", team |-> NoTeam, start |-> 0, end |-> 0,
                vehicles |-> 0, expires |-> 0]]
  /\ slot = [x \in Team \X Instant |-> IF x \in Blocked THEN BlockedSlot ELSE FreeSlot]
  /\ booking = [b \in BookingId |->
                  [status |-> "none", team |-> NoTeam, start |-> 0, end |-> 0,
                   vehicles |-> 0, hold |-> NoHold]]
  /\ job = [b \in BookingId |->
              [status |-> "none", team |-> NoTeam, start |-> 0, end |-> 0,
               source |-> "auto"]]
  /\ request = [b \in BookingId |-> "none"]
-----------------------------------------------------------------------------
(* The grid of start times.                                                *)

RequiredSlots(v) == IF v >= Threshold THEN SlotsAtThreshold ELSE 1

DayOf(s) == s \div DayLength

DayStart(s) == DayOf(s) * DayLength

DayEnd(s) == DayStart(s) + DayLength

GridStarts ==
  {d * DayLength + Opening + k * SlotLength :
     d \in OpenDays, k \in 0 .. (Closing - Opening) \div SlotLength}

Windows(s, v) == {s + i * SlotLength : i \in 0 .. RequiredSlots(v) - 1}

ResolvedWindows(s, v) ==
  /\ s \in GridStarts
  /\ \A w \in Windows(s, v) : w \in GridStarts /\ DayOf(w) = DayOf(s)
  /\ s > now

(* operational_duration_minutes: never below the reserved grid time.       *)
OperationalDuration(d, v) ==
  LET floor == RequiredSlots(v) * SlotLength IN IF d > floor THEN d ELSE floor

WithinHours(s, e) ==
  /\ DayOf(s) \in OpenDays
  /\ s >= DayStart(s) + Opening
  /\ e <= DayStart(s) + Closing
-----------------------------------------------------------------------------
(* Operational capacity.                                                   *)

Row(c) == IF c \in HoldId THEN hold[c] ELSE job[c]

Blocking(c) ==
  IF c \in HoldId
  THEN hold[c].status = "active" /\ hold[c].expires > now
  ELSE job[c].status \in BlockingStatus

Overlap(s1, e1, s2, e2) == s1 < e2 /\ e1 > s2

(* load_capacity_items reads only the items that touch the day on which    *)
(* the new interval starts.                                                *)
Loaded(s) ==
  {c \in Claim : /\ Blocking(c)
                 /\ Overlap(Row(c).start, Row(c).end, DayStart(s), DayEnd(s))}

(* Mutant: the gap is required only before the new interval.               *)
FitsOneSided(t, s, e, gap, exclude) ==
  \A c \in Loaded(s) \ exclude :
    Row(c).team = t => Row(c).end + gap <= s \/ e <= Row(c).start

(* evaluate_team: no loaded item closer than gap.  With gap = 0 this is    *)
(* the absence of a time_conflict.                                         *)
Fits(t, s, e, gap, exclude) ==
  \A c \in Loaded(s) \ exclude :
    Row(c).team = t => Row(c).end + gap <= s \/ e + gap <= Row(c).start

Feasible(t, s, e, gap, exclude) ==
  /\ t \in eligible
  /\ Fits(t, s, e, gap, exclude)
-----------------------------------------------------------------------------
(* Schedule slots.                                                         *)

SlotBlocks(r) ==
  \/ r.status = "held" /\ r.expires > now
  \/ r.status \in {"reserved", "blocked"}

StaleHeld(r) == r.status = "held" /\ r.expires <= now

SlotsOfHold(h) == {x \in DOMAIN slot : slot[x].hold = h}

SlotsOfBooking(b) == {x \in DOMAIN slot : slot[x].booking = b}

SlotsOfTeam(t, starts) == {<<t, w>> : w \in starts}

(* create_booking and _reschedule_booking demand that the hold still owns  *)
(* every slot it acquired.                                                 *)
HoldUsable(h) ==
  /\ hold[h].status = "active"
  /\ hold[h].expires > now
  /\ Cardinality(SlotsOfHold(h)) = RequiredSlots(hold[h].vehicles)
  /\ \A x \in SlotsOfHold(h) : slot[x].status = "held" /\ slot[x].expires > now

(* bookings.hold_group_id is unique.                                       *)
HoldUnclaimed(h) == \A b \in BookingId : booking[b].hold # h

(* _lock_slot_sequence marks the groups of the stale slots it frees.       *)
ExpireStale(holds, xs) ==
  LET stale == {slot[x].hold : x \in {y \in xs : StaleHeld(slot[y])}}
  IN [h \in HoldId |->
        IF h \in stale /\ holds[h].status = "active"
        THEN [holds[h] EXCEPT !.status = "expired"]
        ELSE holds[h]]

HeldSlot(h, expires) ==
  [status |-> "held", hold |-> h, expires |-> expires, booking |-> NoBooking]

ReservedSlot(b, h) ==
  [status |-> "reserved", hold |-> h, expires |-> 0, booking |-> b]

Overwrite(xs, row) == [x \in DOMAIN slot |-> IF x \in xs THEN row ELSE slot[x]]

(* Mutant: the old slots are freed after the new ones were taken.          *)
ReplaceFreeingLast(freed, taken, row) ==
  [x \in DOMAIN slot |->
     IF x \in freed THEN FreeSlot ELSE IF x \in taken THEN row ELSE slot[x]]

(* The slots of freed become free, then those of taken are given to row.   *)
Replace(freed, taken, row) ==
  [x \in DOMAIN slot |->
     IF x \in taken THEN row ELSE IF x \in freed THEN FreeSlot ELSE slot[x]]
-----------------------------------------------------------------------------
(* Customers: holds and bookings.                                          *)

(* create_hold.  rank_evaluations picks one of the feasible teams; which   *)
(* one is a preference, so every feasible team is tried.                   *)
CreateHold(h, t, s, v, d) ==
  LET e       == s + OperationalDuration(d, v)
      targets == SlotsOfTeam(t, Windows(s, v))
      expires == now + HoldLife
  IN /\ hold[h].status = "none"
     /\ ResolvedWindows(s, v)
     /\ Feasible(t, s, e, Turnaround, {})
     /\ \A x \in targets : ~SlotBlocks(slot[x])
     /\ slot' = Overwrite(targets, HeldSlot(h, expires))
     /\ hold' = [ExpireStale(hold, targets) EXCEPT
                   ![h] = [status |-> "active", team |-> t, start |-> s, end |-> e,
                           vehicles |-> v, expires |-> expires]]
     /\ UNCHANGED <<now, eligible, booking, job, request>>

(* Mutant: the time is not evaluated again, as the hold already has it.    *)
BookingChecksOfHold(b, h, e) ==
  /\ booking[b].status = "none"
  /\ HoldUsable(h)
  /\ HoldUnclaimed(h)
  /\ DayOf(hold[h].start) \in OpenDays

(* What create_booking checks for either payment choice: the duration is   *)
(* taken from the catalogue again, so the end of the hold may move.        *)
BookingChecks(b, h, e) ==
  /\ booking[b].status = "none"
  /\ HoldUsable(h)
  /\ HoldUnclaimed(h)
  /\ DayOf(hold[h].start) \in OpenDays
  /\ Feasible(hold[h].team, hold[h].start, e, Turnaround, {h})

NewBooking(status, h, e) ==
  [status |-> status, team |-> hold[h].team, start |-> hold[h].start, end |-> e,
   vehicles |-> hold[h].vehicles, hold |-> h]

NewJob(h, e) ==
  [status |-> "assigned", team |-> hold[h].team, start |-> hold[h].start,
   end |-> e, source |-> "auto"]

(* create_booking with pay_after_service confirms at once.                 *)
BookPayAfter(b, h, d) ==
  LET e == hold[h].start + OperationalDuration(d, hold[h].vehicles)
  IN /\ BookingChecks(b, h, e)
     /\ booking' = [booking EXCEPT ![b] = NewBooking("confirmed", h, e)]
     /\ job' = [job EXCEPT ![b] = NewJob(h, e)]
     /\ hold' = [hold EXCEPT ![h] = [@ EXCEPT !.status = "consumed", !.end = e]]
     /\ slot' = Overwrite(SlotsOfHold(h), ReservedSlot(b, h))
     /\ UNCHANGED <<now, eligible, request>>

(* Mutant: pay_now reserves the slots before any payment.                  *)
BookPayNowReserving(b, h, d) ==
  LET e == hold[h].start + OperationalDuration(d, hold[h].vehicles)
  IN /\ BookingChecks(b, h, e)
     /\ booking' = [booking EXCEPT ![b] = NewBooking("pending_payment", h, e)]
     /\ hold' = [hold EXCEPT ![h].end = e]
     /\ slot' = Overwrite(SlotsOfHold(h), ReservedSlot(b, h))
     /\ UNCHANGED <<now, eligible, job, request>>

(* create_booking with pay_now leaves the hold running: nothing in the     *)
(* code turns pending_payment into another status.                         *)
BookPayNow(b, h, d) ==
  LET e == hold[h].start + OperationalDuration(d, hold[h].vehicles)
  IN /\ BookingChecks(b, h, e)
     /\ booking' = [booking EXCEPT ![b] = NewBooking("pending_payment", h, e)]
     /\ hold' = [hold EXCEPT ![h].end = e]
     /\ slot' = [x \in DOMAIN slot |->
                   IF slot[x].hold = h THEN [slot[x] EXCEPT !.booking = b] ELSE slot[x]]
     /\ UNCHANGED <<now, eligible, job, request>>
-----------------------------------------------------------------------------
(* Rescheduling.                                                           *)

BeforeCutoff(b) == now <= booking[b].start - Cutoff

(* _action_eligibility *)
CustomerMayReschedule(b) ==
  /\ booking[b].status = "confirmed"
  /\ BeforeCutoff(b)
  /\ job[b].status = "assigned"

(* reschedule_managed_booking, with confirm_active_reschedule when the     *)
(* job has started.                                                        *)
StaffMayReschedule(b) ==
  /\ job[b].status \notin {"none", "completed", "cancelled"}
  /\ booking[b].status \notin {"completed", "cancelled"}

(* _reschedule_booking: the new time is that of a second hold.  A manual   *)
(* assignment keeps its team, on slots acquired at the held times.         *)
RescheduleByHold(b, h) ==
  LET e       == hold[h].start + (job[b].end - job[b].start)
      t       == IF job[b].source = "manual" THEN job[b].team ELSE hold[h].team
      old     == SlotsOfBooking(b)
      held    == SlotsOfHold(h)
      targets == IF t = hold[h].team THEN held ELSE SlotsOfTeam(t, {x[2] : x \in held})
  IN /\ CustomerMayReschedule(b) \/ StaffMayReschedule(b)
     /\ hold[h].vehicles = booking[b].vehicles
     /\ HoldUsable(h)
     /\ HoldUnclaimed(h)
     /\ DayOf(hold[h].start) \in OpenDays
     /\ Feasible(t, hold[h].start, e, Turnaround, {b, h})
     /\ old # {}
     /\ \A x \in old : slot[x].status = "reserved"
     /\ t # hold[h].team => \A x \in targets : ~SlotBlocks(slot[x])
     /\ slot' = Replace(old \cup held, targets,
                        ReservedSlot(b, IF t = hold[h].team THEN h ELSE NoHold))
     /\ hold' = [ExpireStale(hold, targets) EXCEPT
                   ![h] = [@ EXCEPT !.status = "consumed", !.team = t, !.end = e]]
     /\ booking' = [booking EXCEPT
                      ![b] = [@ EXCEPT !.team = t, !.start = hold[h].start, !.end = e,
                                       !.hold = h]]
     /\ job' = [job EXCEPT
                  ![b] = [@ EXCEPT !.status = "assigned", !.team = t,
                                   !.start = hold[h].start, !.end = e]]
     /\ UNCHANGED <<now, eligible, request>>

(* Mutant: any eligible team does for a manual assignment.                 *)
KeepsManualTeamLoosely(b, t) == job[b].source = "manual" => t \in eligible

KeepsManualTeam(b, t) == job[b].source = "manual" => t = job[b].team

(* _reschedule_managed_exact: any minute within opening hours; one slot    *)
(* row at the exact start, old rows freed first.                           *)
RescheduleExact(b, t, s, override) ==
  LET e      == s + (job[b].end - job[b].start)
      old    == SlotsOfBooking(b)
      target == {<<t, s>>}
  IN /\ StaffMayReschedule(b)
     /\ s > now
     /\ WithinHours(s, e)
     /\ KeepsManualTeam(b, t)
     /\ override => job[b].source = "manual"
     /\ Feasible(t, s, e, IF override THEN 0 ELSE Turnaround, {b})
     /\ old # {}
     /\ <<t, s>> \in old \/ ~SlotBlocks(slot[<<t, s>>])
     /\ slot' = Replace(old, target, ReservedSlot(b, NoHold))
     /\ hold' = ExpireStale(hold, target \ old)
     /\ booking' = [booking EXCEPT
                      ![b] = [@ EXCEPT !.team = t, !.start = s, !.end = e]]
     /\ job' = [job EXCEPT
                  ![b] = [@ EXCEPT !.status = "assigned", !.team = t, !.start = s, !.end = e]]
     /\ UNCHANGED <<now, eligible, request>>
-----------------------------------------------------------------------------
(* Staff assignment.  confirm_active_reassignment lets a job be assigned   *)
(* whatever its status.                                                    *)

(* assign_job in mode auto writes the job and nothing else: neither the    *)
(* slots nor bookings.resource_id follow.                                  *)
AssignAuto(b, t) ==
  /\ job[b].status # "none"
  /\ Feasible(t, job[b].start, job[b].end, Turnaround, {b})
  /\ job' = [job EXCEPT ![b] = [@ EXCEPT !.team = t, !.source = "auto"]]
  /\ UNCHANGED <<now, eligible, hold, slot, booking, request>>

(* The further conflict query of _move_booking_capacity, on any day.       *)
NoJobConflict(b, t) ==
  \A c \in BookingId \ {b} :
    job[c].status \in BlockingStatus /\ job[c].team = t
      => ~Overlap(job[c].start, job[c].end, job[b].start, job[b].end)

(* assign_job in mode manual with a team; _move_booking_capacity when the  *)
(* team changes.                                                           *)
AssignTeam(b, t, override) ==
  LET source  == SlotsOfBooking(b)
      targets == SlotsOfTeam(t, {x[2] : x \in source})
  IN /\ job[b].status # "none"
     /\ Feasible(t, job[b].start, job[b].end, IF override THEN 0 ELSE Turnaround, {b})
     /\ job' = [job EXCEPT ![b] = [@ EXCEPT !.team = t, !.source = "manual"]]
     /\ IF t = job[b].team
        THEN UNCHANGED <<hold, slot, booking>>
        ELSE /\ NoJobConflict(b, t)
             /\ \A x \in targets : ~SlotBlocks(slot[x])
             /\ slot' = Replace(source, targets, ReservedSlot(b, NoHold))
             /\ hold' = ExpireStale(hold, targets)
             /\ booking' = [booking EXCEPT ![b].team = t]
     /\ UNCHANGED <<now, eligible, request>>

(* assign_job in mode manual with only a staff member.                     *)
AssignStaff(b) ==
  /\ job[b].status # "none"
  /\ job' = [job EXCEPT ![b].source = "manual"]
  /\ UNCHANGED <<now, eligible, hold, slot, booking, request>>
-----------------------------------------------------------------------------
(* Job lifecycle and cancellation.                                         *)

(* start_trip, and transition_job to arrived and in_progress.  A repeated  *)
(* transition to the present status is accepted and changes nothing here.  *)
StartJob(b) ==
  /\ job[b].status = "assigned"
  /\ job' = [job EXCEPT ![b].status = "active"]
  /\ UNCHANGED <<now, eligible, hold, slot, booking, request>>

(* transition_job to completed, also repeated on a completed job: the      *)
(* status of the booking is not read.                                      *)
CompleteJob(b) ==
  /\ job[b].status \in {"active", "completed"}
  /\ job' = [job EXCEPT ![b].status = "completed"]
  /\ booking' = [booking EXCEPT ![b].status = "completed"]
  /\ UNCHANGED <<now, eligible, hold, slot, request>>

(* request_booking_cancellation *)
RequestCancellation(b) ==
  /\ booking[b].status = "confirmed"
  /\ BeforeCutoff(b)
  /\ booking' = [booking EXCEPT ![b].status = "cancellation_requested"]
  /\ request' = [request EXCEPT ![b] = "requested"]
  /\ UNCHANGED <<now, eligible, hold, slot, job>>

(* review_cancellation, approved: the slots still ahead become free.       *)
ApproveCancellation(b) ==
  /\ request[b] = "requested"
  /\ request' = [request EXCEPT ![b] = "reviewed"]
  /\ booking' = [booking EXCEPT ![b].status = "cancelled"]
  /\ job' = [job EXCEPT ![b].status = "cancelled"]
  /\ slot' = Overwrite({x \in SlotsOfBooking(b) : x[2] > now}, FreeSlot)
  /\ UNCHANGED <<now, eligible, hold>>

(* review_cancellation, rejected.                                          *)
RejectCancellation(b) ==
  /\ request[b] = "requested"
  /\ request' = [request EXCEPT ![b] = "reviewed"]
  /\ booking' = [booking EXCEPT ![b].status = "confirmed"]
  /\ UNCHANGED <<now, eligible, hold, slot, job>>
-----------------------------------------------------------------------------
(* update_team, replace_team_members and approved leave change which teams *)
(* get_eligible_teams returns.                                             *)
ChangeEligibility(t) ==
  /\ eligible' = IF t \in eligible THEN eligible \ {t} ELSE eligible \cup {t}
  /\ UNCHANGED <<now, hold, slot, booking, job, request>>

Tick ==
  /\ now < MaxTime
  /\ now' = now + 1
  /\ UNCHANGED <<eligible, hold, slot, booking, job, request>>

Next ==
  \/ \E h \in HoldId, t \in Team, s \in GridStarts, v \in VehicleCounts, d \in Durations :
       CreateHold(h, t, s, v, d)
  \/ \E b \in BookingId, h \in HoldId, d \in Durations :
       BookPayAfter(b, h, d) \/ BookPayNow(b, h, d)
  \/ \E b \in BookingId, h \in HoldId : RescheduleByHold(b, h)
  \/ \E b \in BookingId, t \in Team, s \in Instant, override \in BOOLEAN :
       RescheduleExact(b, t, s, override)
  \/ \E b \in BookingId, t \in Team : AssignAuto(b, t)
  \/ \E b \in BookingId, t \in Team, override \in BOOLEAN : AssignTeam(b, t, override)
  \/ \E b \in BookingId :
       \/ AssignStaff(b)
       \/ StartJob(b)
       \/ CompleteJob(b)
       \/ RequestCancellation(b)
       \/ ApproveCancellation(b)
       \/ RejectCancellation(b)
  \/ \E t \in Unsteady : ChangeEligibility(t)
  \/ Tick

Spec == Init /\ [][Next]_vars
-----------------------------------------------------------------------------
(* Properties.                                                             *)

(* The hypothesis of NoOverlap: no service is so long that, started on the *)
(* grid, it runs past midnight.                                            *)
Spans(v) == {OperationalDuration(d, v) : d \in Durations}

WithinDay ==
  \A s \in GridStarts, v \in VehicleCounts : \A n \in Spans(v) : s + n <= DayEnd(s)

(* What keeps the stored rows in proportion: a claim lasts as long as      *)
(* a selection of its vehicle count can, a hold starts on the grid, and a  *)
(* booking that can be cancelled has a job.                                *)
Intervals ==
  /\ \A h \in HoldId :
       hold[h].status # "none"
         => /\ hold[h].vehicles \in VehicleCounts
            /\ hold[h].start \in GridStarts
            /\ hold[h].end - hold[h].start \in Spans(hold[h].vehicles)
  /\ \A b \in BookingId :
       job[b].status # "none"
         => /\ booking[b].status # "none"
            /\ booking[b].vehicles \in VehicleCounts
            /\ job[b].end - job[b].start \in Spans(booking[b].vehicles)
  /\ \A b \in BookingId :
       request[b] # "none" \/ booking[b].status = "confirmed" => job[b].status # "none"

JobsWithinDay ==
  \A b \in BookingId : job[b].status # "none" => job[b].end <= DayEnd(job[b].start)

(* Two claims never hold one team at overlapping times: "Hard interval     *)
(* overlap is never allowed" (docs/scheduling.md), whatever sequence of    *)
(* holds, confirmations, moves and assignments came before.  Rewashes are  *)
(* excepted, they decide outside the lock of the day: see CapacityRace.    *)
NoOverlap ==
  \A c1, c2 \in Claim :
    /\ c1 # c2
    /\ Blocking(c1)
    /\ Blocking(c2)
    /\ Row(c1).team = Row(c2).team
    => ~Overlap(Row(c1).start, Row(c1).end, Row(c2).start, Row(c2).end)

(* Unless a manager assigned one of the two jobs by hand, and could confirm *)
(* a shorter gap, two claims of one team are a turnaround apart.  Rewashes *)
(* are excepted here as well.                                              *)
Automatic(c) == c \in HoldId \/ job[c].source = "auto"

TurnaroundKept ==
  \A c1, c2 \in Claim :
    /\ c1 # c2
    /\ Blocking(c1) /\ Automatic(c1)
    /\ Blocking(c2) /\ Automatic(c2)
    /\ Row(c1).team = Row(c2).team
    => \/ Row(c1).end + Turnaround <= Row(c2).start
       \/ Row(c2).end + Turnaround <= Row(c1).start

(* Until it expires a hold owns exactly the slots it acquired, on the team *)
(* it reserved: no other handler frees, reserves or re-holds one of them,  *)
(* so a customer within the ten minutes is never told HOLD_EXPIRED.        *)
LiveHoldKeepsSlots ==
  \A h \in HoldId :
    hold[h].status = "active" /\ hold[h].expires > now
      => /\ SlotsOfHold(h) = SlotsOfTeam(hold[h].team, Windows(hold[h].start, hold[h].vehicles))
         /\ \A x \in SlotsOfHold(h) :
              slot[x].status = "held" /\ slot[x].expires = hold[h].expires

(* A job that still blocks its team has a reserved slot at its start, so   *)
(* the grid refuses the same start, and the slots reserved for a booking   *)
(* lie on the team that the booking states (bookings.resource_id) and      *)
(* within the booked interval.                                             *)
JobsHoldTheirSlots ==
  \A b \in BookingId :
    /\ job[b].status \in BlockingStatus
         => \E x \in SlotsOfBooking(b) : slot[x].status = "reserved" /\ x[2] = job[b].start
    /\ \A x \in SlotsOfBooking(b) : slot[x].status = "reserved" => x[1] = booking[b].team
    /\ \A x \in SlotsOfBooking(b) :
         booking[b].start <= x[2] /\ x[2] < booking[b].end

(* Manual assignments are sticky: no step that moves a manually assigned   *)
(* job in time changes its team.                                           *)
ManualStaysSticky ==
  [][\A b \in BookingId :
       job[b].source = "manual" /\ job'[b].start # job[b].start
         => job'[b].team = job[b].team]_vars
=============================================================================
