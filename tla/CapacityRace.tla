---------------------------- MODULE CapacityRace ----------------------------
(***************************************************************************)
(* The statements of the requests that decide about one business day, as   *)
(* PostgreSQL runs them concurrently at READ COMMITTED: create_hold,       *)
(* create_booking (pay after service) and _create_correction_job.          *)
(*                                                                         *)
(* A statement is a step.  It sees what was committed before it; its own   *)
(* writes appear at the commit; locks are held to the end of the           *)
(* transaction.  The per-slot advisory locks are left out: only holders of *)
(* the day lock take them.  A session keeps the attributes of a row as it  *)
(* first loaded them, also when it selects the row again FOR UPDATE.       *)
(*                                                                         *)
(* A hold has the identity of the request that creates it.  Time is        *)
(* relative: expired is the set of holds whose expires_at has passed.      *)
(***************************************************************************)
EXTENDS Integers, Sequences, FiniteSets

CONSTANTS
  Holding,     \* requests of create_hold
  Confirming,  \* requests of create_booking
  Correcting,  \* requests of _create_correction_job
  Nobody,      \* owner of a free lock, and the hold of a request without one
  Team,        \* eligible teams
  Grid,        \* starts of the slots of the day
  SlotLength,  \* slot_duration_minutes
  Required,    \* slots of a request
  Length,      \* operational duration of a request
  Turnaround,  \* default_team_turnaround_minutes
  RowId        \* [Team \X Grid -> Nat]: order of the random row ids

Request == Holding \cup Confirming \cup Correcting

Slot == Team \X Grid

ASSUME RaceConstants ==
  /\ Holding \cap (Confirming \cup Correcting) = {}
  /\ Confirming \cap Correcting = {}
  /\ Nobody \notin Request
  /\ Team # {} /\ Grid # {}
  /\ Grid \subseteq Nat
  /\ {Required, SlotLength} \subseteq Nat \ {0}
  /\ Turnaround \in Nat
  /\ Length \in Nat /\ Length >= Required * SlotLength
  /\ RowId \in [Slot -> Nat]
  /\ \A s, t \in Slot : RowId[s] = RowId[t] => s = t

VARIABLES
  hold,      \* rows of slot_hold_groups; a consumed hold has its job
  expired,   \* holds whose time has run out
  slot,      \* rows of schedule_slots
  day,       \* owner of the advisory lock of the business day
  holdLock,  \* owners of the row locks of the holds
  slotLock,  \* owners of the row locks of the slots
  tx         \* the transaction of each request

vars == <<hold, expired, slot, day, holdLock, slotLock, tx>>
-----------------------------------------------------------------------------
(* The statements of each handler in their order.                          *)

(* Mutant: create_booking locks the slots before the day.                  *)
StatementsSlotsFirst(r) ==
  CASE r \in Holding    -> <<"day", "jobs", "holds", "grid", "slots", "stale", "commit">>
    [] r \in Confirming -> <<"hold", "slots", "day", "jobs", "holds", "commit">>
    [] OTHER            -> <<"hold", "slots", "commit">>

Statements(r) ==
  CASE r \in Holding    -> <<"day", "jobs", "holds", "grid", "slots", "stale", "commit">>
    [] r \in Confirming -> <<"hold", "day", "slots", "jobs", "holds", "commit">>
    [] OTHER            -> <<"hold", "slots", "commit">>

HoldRow ==
  [status : {"none", "active", "expired", "consumed"}, team : Team, start : Grid]

SlotRow == [status : {"free", "held", "reserved"}, by : Holding \cup {Nobody}]

Transaction ==
  [state  : {"new", "open", "committed", "refused"},
   next   : 1 .. 7,                    \* the statement it is about to run
   hold   : Holding \cup {Nobody},     \* the hold it creates or uses
   team   : Team,
   start  : Grid,
   claims : SUBSET Holding,            \* the claims it has read
   seen   : [Slot -> SlotRow],         \* slot rows in its session
   stale  : SUBSET Holding]            \* expired_group_ids

TypeOK ==
  /\ hold \in [Holding -> HoldRow]
  /\ expired \subseteq Holding
  /\ slot \in [Slot -> SlotRow]
  /\ day \in Request \cup {Nobody}
  /\ holdLock \in [Holding -> Request \cup {Nobody}]
  /\ slotLock \in [Slot -> Request \cup {Nobody}]
  /\ tx \in [Request -> Transaction]

FreeSlot == [status |-> "free", by |-> Nobody]

Idle ==
  [state |-> "new", next |-> 1, hold |-> Nobody,
   team |-> CHOOSE t \in Team : TRUE, start |-> CHOOSE s \in Grid : TRUE,
   claims |-> {}, seen |-> [s \in Slot |-> FreeSlot], stale |-> {}]

Init ==
  /\ hold = [h \in Holding |-> [status |-> "none", team |-> Idle.team, start |-> Idle.start]]
  /\ expired = {}
  /\ slot = [s \in Slot |-> FreeSlot]
  /\ day = Nobody
  /\ holdLock = [h \in Holding |-> Nobody]
  /\ slotLock = [s \in Slot |-> Nobody]
  /\ tx = [r \in Request |-> Idle]
-----------------------------------------------------------------------------
(* Locks and the life of a transaction.                                    *)

At(r, statement) == tx[r].state = "open" /\ Statements(r)[tx[r].next] = statement

Step(r, local) == tx' = [tx EXCEPT ![r] = [local EXCEPT !.next = @ + 1]]

Freed(owner, r) == [x \in DOMAIN owner |-> IF owner[x] = r THEN Nobody ELSE owner[x]]

(* Mutant: an advisory lock of the session outlives the transaction.       *)
ReleaseButDay(r) ==
  /\ UNCHANGED day
  /\ holdLock' = Freed(holdLock, r)
  /\ slotLock' = Freed(slotLock, r)

Release(r) ==
  /\ day' = IF day = r THEN Nobody ELSE day
  /\ holdLock' = Freed(holdLock, r)
  /\ slotLock' = Freed(slotLock, r)

(* Only what later states need of a finished transaction is kept.          *)
Finish(r, state) ==
  /\ tx' = [tx EXCEPT ![r] = [Idle EXCEPT !.state = state, !.hold = tx[r].hold]]
  /\ Release(r)

Refuse(r) == Finish(r, "refused") /\ UNCHANGED <<hold, expired, slot>>

Windows(start) == {start + k * SlotLength : k \in 0 .. Required - 1}

(* Slot rows a handler locks: the windows on a team, in order of their     *)
(* starts, or those of the hold, in order of start or of row id.           *)
Wanted(r) ==
  IF r \in Holding
  THEN {tx[r].team} \X Windows(tx[r].start)
  ELSE {s \in Slot : slot[s].by = tx[r].hold}

Rank(r, s) == IF r \in Correcting THEN RowId[s] ELSE s[2]

NextSlot(r) ==
  CHOOSE s \in {w \in Wanted(r) : slotLock[w] # r} :
    \A t \in Wanted(r) : slotLock[t] # r => Rank(r, s) <= Rank(r, t)

(* Holds whose rows the statement that expires stale holds has to lock.    *)
Expiring(r) == {h \in tx[r].stale : hold[h].status = "active" /\ holdLock[h] # r}

Fits(start, claims, team) ==
  \A h \in claims :
    hold[h].team = team =>
      \/ start + Length + Turnaround <= hold[h].start
      \/ hold[h].start + Length + Turnaround <= start
-----------------------------------------------------------------------------
(* A request arrives.  A confirmation or a correction names a hold, and    *)
(* takes the time by which it judges the hold before it waits for it.      *)
Begin(r) ==
  /\ tx[r].state = "new"
  /\ \/ /\ r \in Holding
        /\ \E s \in Grid :
             /\ Windows(s) \subseteq Grid
             /\ tx' = [tx EXCEPT ![r].state = "open", ![r].hold = r, ![r].start = s]
     \/ /\ r \notin Holding
        /\ \E h \in Holding \ expired :
             /\ hold[h].status # "none"
             /\ tx' = [tx EXCEPT ![r].state = "open", ![r].hold = h,
                                 ![r].team = hold[h].team, ![r].start = hold[h].start]
  /\ UNCHANGED <<hold, expired, slot, day, holdLock, slotLock>>

(* SELECT the hold FOR UPDATE.                                             *)
LockHold(r) ==
  LET h == tx[r].hold
  IN /\ At(r, "hold")
     /\ holdLock[h] = Nobody
     /\ IF hold[h].status = "active"
        THEN /\ Step(r, tx[r])
             /\ holdLock' = [holdLock EXCEPT ![h] = r]
             /\ UNCHANGED <<hold, expired, slot, day, slotLock>>
        ELSE Refuse(r)

(* lock_schedule_day *)
LockDay(r) ==
  /\ At(r, "day")
  /\ day = Nobody
  /\ day' = r
  /\ Step(r, tx[r])
  /\ UNCHANGED <<hold, expired, slot, holdLock, slotLock>>

(* load_capacity_items: the jobs, and in a statement of its own the holds. *)
ReadJobs(r) ==
  /\ At(r, "jobs")
  /\ Step(r, [tx[r] EXCEPT !.claims = {h \in Holding : hold[h].status = "consumed"}])
  /\ UNCHANGED <<hold, expired, slot, day, holdLock, slotLock>>

ReadHolds(r) ==
  LET active == {h \in Holding \ expired : hold[h].status = "active"}
  IN /\ At(r, "holds")
     /\ Step(r, [tx[r] EXCEPT !.claims = (@ \cup active) \ {tx[r].hold}])
     /\ UNCHANGED <<hold, expired, slot, day, holdLock, slotLock>>

SlotBlocks(s) ==
  \/ slot[s].status = "reserved"
  \/ slot[s].status = "held" /\ slot[s].by \notin expired

(* The grid rows of the feasible teams are read without a lock.            *)
ReadGrid(r) ==
  LET candidates == {t \in Team : /\ Fits(tx[r].start, tx[r].claims, t)
                                  /\ \A w \in Windows(tx[r].start) : ~SlotBlocks(<<t, w>>)}
  IN /\ At(r, "grid")
     /\ IF candidates = {}
        THEN Refuse(r)
        ELSE /\ \E t \in candidates : Step(r, [tx[r] EXCEPT !.team = t, !.seen = slot])
             /\ UNCHANGED <<hold, expired, slot, day, holdLock, slotLock>>

(* SELECT slots FOR UPDATE, one row after the other.                       *)
LockSlot(r) ==
  /\ At(r, "slots")
  /\ {s \in Wanted(r) : slotLock[s] # r} # {}
  /\ slotLock[NextSlot(r)] = Nobody
  /\ slotLock' = [slotLock EXCEPT ![NextSlot(r)] = r]
  /\ UNCHANGED <<hold, expired, slot, day, holdLock, tx>>

(* Mutant: the rows of the hold are not counted.                           *)
SlotsLockedUnchecked(r) ==
  /\ At(r, "slots")
  /\ \A s \in Wanted(r) : slotLock[s] = r
  /\ Step(r, tx[r])
  /\ UNCHANGED <<hold, expired, slot, day, holdLock, slotLock>>

(* All rows are locked.  create_hold judges them as its session first saw  *)
(* them, so none of them can block it now; it notes the stale ones.        *)
SlotsLocked(r) ==
  LET stale == {tx[r].seen[s].by : s \in {w \in Wanted(r) : tx[r].seen[w].status = "held"}}
  IN /\ At(r, "slots")
     /\ \A s \in Wanted(r) : slotLock[s] = r
     /\ IF \/ r \in Holding
           \/ /\ Cardinality(Wanted(r)) = Required
              /\ \A s \in Wanted(r) : slot[s].status = "held"
        THEN /\ Step(r, [tx[r] EXCEPT !.stale = IF r \in Holding THEN stale ELSE {}])
             /\ UNCHANGED <<hold, expired, slot, day, holdLock, slotLock>>
        ELSE Refuse(r)

(* UPDATE slot_hold_groups SET status = 'expired', row by row.             *)
LockExpiring(r) ==
  /\ At(r, "stale")
  /\ \E h \in Expiring(r) :
       /\ holdLock[h] = Nobody
       /\ holdLock' = [holdLock EXCEPT ![h] = r]
  /\ UNCHANGED <<hold, expired, slot, day, slotLock, tx>>

ExpiringLocked(r) ==
  /\ At(r, "stale")
  /\ Expiring(r) = {}
  /\ Step(r, tx[r])
  /\ UNCHANGED <<hold, expired, slot, day, holdLock, slotLock>>

CommitHold(r) ==
  /\ At(r, "commit") /\ r \in Holding
  /\ hold' = [h \in Holding |->
       IF h = r
       THEN [status |-> "active", team |-> tx[r].team, start |-> tx[r].start]
       ELSE IF h \in tx[r].stale /\ hold[h].status = "active"
            THEN [hold[h] EXCEPT !.status = "expired"]
            ELSE hold[h]]
  /\ slot' = [s \in Slot |->
       IF s \in Wanted(r) THEN [status |-> "held", by |-> r] ELSE slot[s]]
  /\ Finish(r, "committed")
  /\ UNCHANGED expired

(* Mutant: hold and slots stay as they are, as pay-now bookings leave them. *)
ConsumeNothing(h) == UNCHANGED <<hold, slot>>

Consume(h) ==
  /\ hold' = [hold EXCEPT ![h].status = "consumed"]
  /\ slot' = [s \in Slot |->
       IF slot[s].by = h THEN [slot[s] EXCEPT !.status = "reserved"] ELSE slot[s]]

(* Mutant: the capacity is not looked at again.                            *)
CommitBookingUnchecked(r) ==
  /\ At(r, "commit") /\ r \in Confirming
  /\ Consume(tx[r].hold)
  /\ Finish(r, "committed")
  /\ UNCHANGED expired

(* choose_team_for_booking insists on the team of the hold.                *)
CommitBooking(r) ==
  /\ At(r, "commit") /\ r \in Confirming
  /\ IF Fits(tx[r].start, tx[r].claims, tx[r].team)
     THEN Consume(tx[r].hold) /\ Finish(r, "committed") /\ UNCHANGED expired
     ELSE Refuse(r)

CommitCorrection(r) ==
  /\ At(r, "commit") /\ r \in Correcting
  /\ Consume(tx[r].hold)
  /\ Finish(r, "committed")
  /\ UNCHANGED expired

Run(r) ==
  \/ LockHold(r)
  \/ LockDay(r)
  \/ ReadJobs(r)
  \/ ReadHolds(r)
  \/ ReadGrid(r)
  \/ LockSlot(r)
  \/ SlotsLocked(r)
  \/ LockExpiring(r)
  \/ ExpiringLocked(r)
  \/ CommitHold(r)
  \/ CommitBooking(r)
  \/ CommitCorrection(r)
-----------------------------------------------------------------------------
(* Waiting.                                                                *)

WaitsForDay(r, q) == At(r, "day") /\ day = q

WaitsForSlot(r, q) ==
  /\ At(r, "slots")
  /\ {s \in Wanted(r) : slotLock[s] # r} # {}
  /\ slotLock[NextSlot(r)] = q

WaitsForHold(r, q) ==
  \/ At(r, "hold") /\ holdLock[tx[r].hold] = q
  \/ /\ At(r, "stale")
     /\ \E h \in Expiring(r) : holdLock[h] = q

WaitsFor(r, q) == WaitsForDay(r, q) \/ WaitsForSlot(r, q) \/ WaitsForHold(r, q)

(* PostgreSQL aborts a transaction of a set that waits in a circle.        *)
Abort(r) ==
  /\ \E circle \in SUBSET Request :
       /\ r \in circle
       /\ \A p \in circle : /\ \E q \in circle : WaitsFor(p, q)
                            /\ \E q \in circle : WaitsFor(q, p)
  /\ Refuse(r)

Expire(h) ==
  /\ hold[h].status # "none"
  /\ h \notin expired
  /\ expired' = expired \cup {h}
  /\ UNCHANGED <<hold, slot, day, holdLock, slotLock, tx>>

Next ==
  \/ \E r \in Request : Begin(r) \/ Run(r) \/ Abort(r)
  \/ \E h \in Holding : Expire(h)

Spec == Init /\ [][Next]_vars

(* The database carries out a statement whose lock is free, and breaks a   *)
(* circle of waits.                                                        *)
FairSpec == Spec /\ \A r \in Request : WF_vars(Run(r)) /\ WF_vars(Abort(r))
-----------------------------------------------------------------------------
(* Properties.                                                             *)

Claims(h) ==
  \/ hold[h].status = "consumed"
  \/ hold[h].status = "active" /\ h \notin expired

(* One hold becomes one booking, also when two requests use it at once.    *)
ConsumedOnce ==
  \A r, q \in Confirming \cup Correcting :
    /\ tx[r].state = "committed" /\ tx[q].state = "committed"
    /\ tx[r].hold = tx[q].hold
    => r = q

(* The job that a hold has become has all the slots of its time, although  *)
(* the hold may run out, and others take its slots, while it is confirmed. *)
JobsHaveTheirSlots ==
  \A h \in Holding :
    hold[h].status = "consumed" =>
      \A w \in Windows(hold[h].start) :
        slot[<<hold[h].team, w>>] = [status |-> "reserved", by |-> h]

(* The comment at bookings.py:197: confirmations and new holds never wait  *)
(* for each other with the day in one hand and a slot in the other.        *)
NoDaySlotDeadlock ==
  \A r, q \in Request : ~(WaitsForDay(r, q) /\ WaitsForSlot(q, r))

(* What the rows of a day promise to each claim.                           *)
Promise ==
  [h \in Holding |->
    [status |-> CASE hold[h].status = "none"     -> "none"
                  [] hold[h].status = "consumed" -> "booked"
                  [] hold[h].status = "active" /\ h \notin expired -> "live"
                  [] OTHER                       -> "lapsed",
     team   |-> hold[h].team,
     start  |-> hold[h].start]]

(* The decisions of a day implement the calendar.                          *)
Calendar == INSTANCE TeamCalendar WITH
  Claim <- Holding,
  Time  <- Grid,
  claim <- Promise

ImplementsCalendar == Calendar!Spec

(* "Hard interval overlap is never allowed" (docs/scheduling.md, line 15): *)
(* no team has two claims on one moment.  A rewash decides without the     *)
(* lock of the day, on a time taken before it waits for its hold.          *)
HardOverlapNever == Calendar!NoOverlap

(* Every request comes to an end, although requests wait for each other.   *)
Served == \A r \in Request : tx[r].state = "open" ~> tx[r].state # "open"
=============================================================================
