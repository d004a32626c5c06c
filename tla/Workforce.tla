----------------------------- MODULE Workforce ------------------------------
(* Teams, their members, attendance, shifts and leave of a business        *)
(* (services/workforce.py), and the assignment of jobs they constrain.     *)
(* A request is a transaction of two steps: Begin takes its row locks and  *)
(* reads, Commit writes.  Other transactions commit in between.            *)
EXTENDS Integers, Sequences, FiniteSets, FiniteSetsExt, Functions

CONSTANTS
  Staff, Team, Job, Shift, Session,
  Leave,        \* the leave requests that may be made
  DayLength,    \* instants of a local day
  LastDay,
  ShiftStart,   \* the instant of the day at which a shift starts,
  ShiftEnd,     \* and at which it ends
  Grace,        \* business_settings.attendance_grace_minutes
  WorkDay,      \* the day of each job
  Unsteady,     \* the staff profiles and teams that may be deactivated
  Followed,     \* whose attendance, shifts, leave and jobs are followed
  MaxSessions,  \* bound of the attendance sessions of one person
  NoTeam, NoStaff, NoShift

Day == 0 .. LastDay

ASSUME TimeAssumption ==
  /\ DayLength \in Nat \ {0} /\ LastDay \in Nat /\ Grace \in Nat
  /\ ShiftStart \in [Shift -> Nat] /\ ShiftEnd \in [Shift -> Nat]
  /\ \A s \in Shift : ShiftStart[s] < ShiftEnd[s]
  /\ WorkDay \in [Job -> Day]

ASSUME StaffAssumption == Followed \subseteq Staff

VARIABLES
  now,
  enabled,     \* the staff profiles and teams with is_active
  member,      \* the active team memberships
  attendance,  \* the attendance sessions of each person, oldest first
  shift,       \* staff_shift_assignments: one row per person and day
  leave,       \* leave_requests
  job,         \* assignment and status of each job
  tx           \* the open transaction of each session

vars == <<now, enabled, member, attendance, shift, leave, job, tx>>
-----------------------------------------------------------------------------
(* Rows.                                                                   *)

Open == -1

AttendanceRow == [in : Nat, out : Nat \cup {Open}]

ShiftRow == [shift : Shift \cup {NoShift}, team : Team \cup {NoTeam}]

NoAssignment == [shift |-> NoShift, team |-> NoTeam]

LeaveStatus == {"none", "pending", "approved", "rejected"}

LeaveRow == [staff : Staff \cup {NoStaff}, from : Day, to : Day, status : LeaveStatus]

JobRow == [status : {"open", "closed"}, staff : Staff \cup {NoStaff}, team : Team \cup {NoTeam}]

Idle == [kind |-> "idle", locks |-> {}]

TypeOK ==
  /\ now \in Nat
  /\ enabled \subseteq Staff \cup Team
  /\ member \subseteq Team \X Staff
  /\ attendance \in [Staff -> Seq(AttendanceRow)]
  /\ shift \in [Staff \X Day -> ShiftRow]
  /\ leave \in [Leave -> LeaveRow]
  /\ job \in [Job -> JobRow]

Init ==
  /\ now = 0
  /\ enabled = Staff \cup Team
  /\ member = {}
  /\ attendance = [s \in Staff |-> <<>>]
  /\ shift = [x \in Staff \X Day |-> NoAssignment]
  /\ leave = [l \in Leave |-> [staff |-> NoStaff, from |-> 0, to |-> 0, status |-> "none"]]
  /\ job = [j \in Job |-> [status |-> "open", staff |-> NoStaff, team |-> NoTeam]]
  /\ tx = [p \in Session |-> Idle]
-----------------------------------------------------------------------------
(* Time and attendance as the views report them.                           *)

DayOf(t) == t \div DayLength

LateMinutes(t, d, s) ==
  IF s = NoShift THEN 0
  ELSE Max({0, t - (d * DayLength + ShiftStart[s]) - Grace})

Worked(a, t) == (IF a.out = Open THEN t ELSE a.out) - a.in

(* The hours of the report: all that a person worked until t.              *)
HoursWorked(s, t) ==
  SumFunction([n \in DOMAIN attendance[s] |-> Worked(attendance[s][n], t)])

OnLeave(s, d) ==
  \E l \in Leave : /\ leave[l].staff = s
                   /\ leave[l].status = "approved"
                   /\ d \in leave[l].from .. leave[l].to

(* The session of the overview: an open one, or else the latest of the day.*)
SessionsOf(s, d) == {n \in DOMAIN attendance[s] : DayOf(attendance[s][n].in) = d}

(* Mutant: approved leave is reported before the attendance.               *)
AttendanceCategoryLeaveFirst(s, d, t) ==
  IF OnLeave(s, d) THEN "approved_leave"
  ELSE IF SessionsOf(s, d) = {} THEN "off_today"
  ELSE IF \E n \in SessionsOf(s, d) : attendance[s][n].out = Open THEN "working" ELSE "clocked_out"

AttendanceCategory(s, d, t) ==
  LET today == SessionsOf(s, d)
      row == shift[<<s, d>>].shift
  IN
  CASE \E n \in today : attendance[s][n].out = Open ->
         IF LateMinutes(attendance[s][Max(today)].in, d, row) > 0 THEN "late" ELSE "working"
    [] today # {} /\ \A n \in today : attendance[s][n].out # Open -> "clocked_out"
    [] today = {} /\ OnLeave(s, d) -> "approved_leave"
    [] today = {} /\ ~OnLeave(s, d) /\ row = NoShift -> "off_today"
    [] OTHER -> IF t < d * DayLength + ShiftStart[row] THEN "scheduled"
                ELSE IF t < d * DayLength + ShiftEnd[row] THEN "not_clocked_in"
                ELSE "missed"
-----------------------------------------------------------------------------
(* Transactions.                                                           *)

Free(lock) == \A p \in Session : lock \notin tx[p].locks

Start(p, t) == tx[p] = Idle /\ tx' = [tx EXCEPT ![p] = t]

End(p) == tx' = [tx EXCEPT ![p] = Idle]

(* An error response, a lost connection or a violated index.               *)
Abort(p) ==
  /\ tx[p] # Idle
  /\ End(p)
  /\ UNCHANGED <<now, enabled, member, attendance, shift, leave, job>>
-----------------------------------------------------------------------------
(* Attendance.                                                             *)

HasOpen(s) == \E n \in DOMAIN attendance[s] : attendance[s][n].out = Open

(* Mutant: the row of the staff member is not locked.                      *)
BeginClockInUnlocked(p, s) ==
  /\ s \in enabled
  /\ HasOpen(s) \/ Len(attendance[s]) < MaxSessions
  /\ Start(p, [kind |-> "clock_in", staff |-> s, locks |-> {},
               found |-> HasOpen(s), at |-> now])
  /\ UNCHANGED <<now, enabled, member, attendance, shift, leave, job>>

BeginClockIn(p, s) ==
  /\ s \in enabled
  /\ HasOpen(s) \/ Len(attendance[s]) < MaxSessions
  /\ Free(<<"staff", s>>)
  /\ Start(p, [kind |-> "clock_in", staff |-> s, locks |-> {<<"staff", s>>},
               found |-> HasOpen(s), at |-> now])
  /\ UNCHANGED <<now, enabled, member, attendance, shift, leave, job>>

(* An open session is returned as it is.                                   *)
CommitClockIn(p) ==
  LET t == tx[p] IN
  /\ t.kind = "clock_in"
  /\ attendance' = IF t.found THEN attendance
                   ELSE [attendance EXCEPT ![t.staff] = Append(@, [in |-> t.at, out |-> Open])]
  /\ End(p)
  /\ UNCHANGED <<now, enabled, member, shift, leave, job>>

(* The latest session is locked and closed, if it is open.  Only its own   *)
(* row is locked, so that this is one step.                                *)
ClockOut(s) ==
  LET n == Len(attendance[s]) IN
  /\ s \in enabled
  /\ n > 0
  /\ attendance[s][n].out = Open
  /\ ~ \E p \in Session : tx[p].kind = "clock_in" /\ tx[p].staff = s /\ tx[p].found
  /\ attendance' = [attendance EXCEPT ![s][n].out = now]
  /\ UNCHANGED <<now, enabled, member, shift, leave, job, tx>>
-----------------------------------------------------------------------------
(* Shifts.                                                                 *)

BeginAssignShift(p, s, d, row) ==
  /\ s \in enabled
  /\ Free(<<"staff", s>>)
  /\ row.team # NoTeam => <<row.team, s>> \in member
  /\ Start(p, [kind |-> "assign_shift", staff |-> s, day |-> d, row |-> row,
               locks |-> {<<"staff", s>>}, found |-> shift[<<s, d>>] # NoAssignment])
  /\ UNCHANGED <<now, enabled, member, attendance, shift, leave, job>>

CommitAssignShift(p) ==
  LET t == tx[p] IN
  /\ t.kind = "assign_shift"
  /\ shift' = [shift EXCEPT ![<<t.staff, t.day>>] = t.row]
  /\ End(p)
  /\ UNCHANGED <<now, enabled, member, attendance, leave, job>>
-----------------------------------------------------------------------------
(* Teams.                                                                  *)

Members(t) == {s \in Staff : <<t, s>> \in member}

(* Mutant: the row of the team is not locked.                              *)
BeginReplaceMembersUnlocked(p, t, wanted) ==
  /\ wanted \subseteq enabled
  /\ Start(p, [kind |-> "replace_members", team |-> t, wanted |-> wanted,
               locks |-> {}, read |-> Members(t)])
  /\ UNCHANGED <<now, enabled, member, attendance, shift, leave, job>>

BeginReplaceMembers(p, t, wanted) ==
  /\ Free(<<"team", t>>)
  /\ wanted \subseteq enabled
  /\ Start(p, [kind |-> "replace_members", team |-> t, wanted |-> wanted,
               locks |-> {<<"team", t>>}, read |-> Members(t)])
  /\ UNCHANGED <<now, enabled, member, attendance, shift, leave, job>>

(* Memberships that were read are ended or revived, missing ones added.    *)
CommitReplaceMembers(p) ==
  LET t == tx[p] IN
  /\ t.kind = "replace_members"
  /\ member' = (member \ ({t.team} \X (t.read \ t.wanted)))
                 \cup ({t.team} \X (t.wanted \ t.read))
  /\ End(p)
  /\ UNCHANGED <<now, enabled, attendance, shift, leave, job>>

(* A team with work ahead stays active.                                    *)
UpdateTeam(t) ==
  /\ t \in Unsteady
  /\ Free(<<"team", t>>)
  /\ t \in enabled =>
       \A j \in Job : ~(job[j].team = t /\ job[j].status = "open" /\ WorkDay[j] * DayLength > now)
  /\ enabled' = IF t \in enabled THEN enabled \ {t} ELSE enabled \cup {t}
  /\ UNCHANGED <<now, member, attendance, shift, leave, job, tx>>

UpdateStaffAccount(s) ==
  /\ s \in Unsteady
  /\ Free(<<"staff", s>>)
  /\ enabled' = IF s \in enabled THEN enabled \ {s} ELSE enabled \cup {s}
  /\ UNCHANGED <<now, member, attendance, shift, leave, job, tx>>
-----------------------------------------------------------------------------
(* Leave.                                                                  *)

Covers(l, from, to) ==
  leave[l].status \in {"pending", "approved"} /\ leave[l].from <= to /\ leave[l].to >= from

BeginCreateLeave(p, l, s, from, to) ==
  /\ s \in enabled
  /\ leave[l].status = "none"
  /\ \A q \in Session : tx[q].kind = "create_leave" => tx[q].leave # l
  /\ \A k \in Leave : leave[k].staff = s => ~Covers(k, from, to)
  /\ Start(p, [kind |-> "create_leave", leave |-> l, locks |-> {},
               row |-> [staff |-> s, from |-> from, to |-> to, status |-> "pending"]])
  /\ UNCHANGED <<now, enabled, member, attendance, shift, leave, job>>

CommitCreateLeave(p) ==
  LET t == tx[p] IN
  /\ t.kind = "create_leave"
  /\ leave' = [leave EXCEPT ![t.leave] = t.row]
  /\ End(p)
  /\ UNCHANGED <<now, enabled, member, attendance, shift, job>>

WorkOf(s, days) ==
  {j \in Job : /\ job[j].status = "open"
               /\ WorkDay[j] \in days
               /\ job[j].staff = s \/ <<job[j].team, s>> \in member}

(* Mutant: the status is read before the lock.                             *)
BeginReviewLeaveUnlocked(p, l, decision) ==
  /\ leave[l].status = "pending"
  /\ decision = "approved" => WorkOf(leave[l].staff, leave[l].from .. leave[l].to) = {}
  /\ Start(p, [kind |-> "review_leave", leave |-> l, decision |-> decision, locks |-> {}])
  /\ UNCHANGED <<now, enabled, member, attendance, shift, leave, job>>

BeginReviewLeave(p, l, decision) ==
  /\ Free(<<"leave", l>>)
  /\ leave[l].status = "pending"
  /\ decision = "approved" => WorkOf(leave[l].staff, leave[l].from .. leave[l].to) = {}
  /\ Start(p, [kind |-> "review_leave", leave |-> l, decision |-> decision,
               locks |-> {<<"leave", l>>}])
  /\ UNCHANGED <<now, enabled, member, attendance, shift, leave, job>>

CommitReviewLeave(p) ==
  LET t == tx[p] IN
  /\ t.kind = "review_leave"
  /\ leave' = [leave EXCEPT ![t.leave].status = t.decision]
  /\ End(p)
  /\ UNCHANGED <<now, enabled, member, attendance, shift, job>>
-----------------------------------------------------------------------------
(* Jobs.                                                                   *)

(* get_eligible_teams: active, and some active member not on leave.        *)
Eligible(t, d) ==
  /\ t \in enabled
  /\ \E s \in Members(t) \cap enabled : ~OnLeave(s, d)

(* A closed job may be reassigned too, with a confirmation.                *)
BeginAssignJob(p, j, s, t) ==
  /\ Free(<<"job", j>>)
  /\ s # NoStaff \/ t # NoTeam
  /\ s # NoStaff => s \in enabled
  /\ t # NoTeam => Eligible(t, WorkDay[j])
  /\ Start(p, [kind |-> "assign_job", job |-> j, staff |-> s, team |-> t,
               locks |-> {<<"job", j>>}])
  /\ UNCHANGED <<now, enabled, member, attendance, shift, leave, job>>

CommitAssignJob(p) ==
  LET t == tx[p] IN
  /\ t.kind = "assign_job"
  /\ job' = [job EXCEPT ![t.job] =
               [status |-> @.status,
                staff  |-> IF t.staff = NoStaff THEN @.staff ELSE t.staff,
                team   |-> IF t.team = NoTeam THEN @.team ELSE t.team]]
  /\ End(p)
  /\ UNCHANGED <<now, enabled, member, attendance, shift, leave>>

CompleteJob(j) ==
  /\ Free(<<"job", j>>)
  /\ job[j].status = "open"
  /\ job[j].staff # NoStaff \/ job[j].team # NoTeam
  /\ job' = [job EXCEPT ![j].status = "closed"]
  /\ UNCHANGED <<now, enabled, member, attendance, shift, leave, tx>>

Tick ==
  /\ now < (LastDay + 1) * DayLength - 1
  /\ now' = now + 1
  /\ UNCHANGED <<enabled, member, attendance, shift, leave, job, tx>>
-----------------------------------------------------------------------------
Next ==
  \/ Tick
  \/ \E p \in Session :
       \/ Abort(p)
       \/ \E s \in Followed : BeginClockIn(p, s)
       \/ \E s \in Followed, d \in Day, row \in [shift : Shift, team : Team \cup {NoTeam}] :
            BeginAssignShift(p, s, d, row)
       \/ \E t \in Team, wanted \in SUBSET Staff : BeginReplaceMembers(p, t, wanted)
       \/ \E l \in Leave, s \in Followed, from \in Day, to \in Day :
            from <= to /\ BeginCreateLeave(p, l, s, from, to)
       \/ \E l \in Leave, d \in {"approved", "rejected"} : BeginReviewLeave(p, l, d)
       \/ \E j \in Job, s \in Followed \cup {NoStaff}, t \in Team \cup {NoTeam} :
            BeginAssignJob(p, j, s, t)
       \/ CommitClockIn(p)
       \/ CommitAssignShift(p)
       \/ CommitReplaceMembers(p)
       \/ CommitCreateLeave(p)
       \/ CommitReviewLeave(p)
       \/ CommitAssignJob(p)
  \/ \E s \in Staff : ClockOut(s) \/ UpdateStaffAccount(s)
  \/ \E t \in Team : UpdateTeam(t)
  \/ \E j \in Job : CompleteJob(j)

Spec == Init /\ [][Next]_vars
-----------------------------------------------------------------------------
(* Properties.                                                             *)

(* Nobody is credited two attendance sessions for one moment, however many *)
(* devices tap at once: sessions follow each other, only the last may be   *)
(* open, and the hours of the report never exceed the time that passed.    *)
SessionsApart ==
  \A s \in Staff :
    /\ \A m, n \in DOMAIN attendance[s] : m < n =>
         /\ attendance[s][m].out # Open
         /\ attendance[s][m].out <= attendance[s][n].in
    /\ HoursWorked(s, now) <= now

(* What a transaction read under its locks is still so when it writes:     *)
(* no second open session, no second row of a day, no decided leave, and   *)
(* the members of the team are the ones it compares with.                  *)
DecisionsHold ==
  \A p \in Session :
    LET t == tx[p] IN
    /\ t.kind = "clock_in" /\ ~t.found => ~HasOpen(t.staff)
    /\ t.kind = "assign_shift" /\ ~t.found => shift[<<t.staff, t.day>>] = NoAssignment
    /\ t.kind = "replace_members" => t.read = Members(t.team)
    /\ t.kind = "review_leave" => leave[t.leave].status = "pending"

(* After a replacement the team has the members of that request, not a     *)
(* mixture with another one.                                               *)
MembersAreTheWantedOnes ==
  [][\A p \in Session : tx[p].kind = "replace_members" /\ member' # member /\ tx'[p] = Idle =>
       {s \in Staff : <<tx[p].team, s>> \in member'} = tx[p].wanted]_vars

(* A leave request is decided once: approval and rejection are final.      *)
LeaveDecidedOnce ==
  [][\A l \in Leave : leave[l].status \in {"approved", "rejected"} => leave'[l] = leave[l]]_vars

(* Whoever was seen at work on a day is never reported absent for it       *)
(* later, whatever shifts are changed, leave approved or sessions closed.  *)
PresenceIsKept ==
  [][\A s \in Staff, d \in Day :
       AttendanceCategory(s, d, now) \in {"working", "late", "clocked_out"}
         => AttendanceCategory(s, d, now)' \in {"working", "late", "clocked_out"}]_vars
=============================================================================
