--------------------------- MODULE WorkforceProofs ---------------------------
(* Proofs about Workforce, for any staff, teams, days, leave requests and   *)
(* sessions.                                                                *)
EXTENDS Workforce, SumTheorems

Lock ==
  ({"staff"} \X Staff) \cup ({"team"} \X Team) \cup ({"leave"} \X Leave) \cup ({"job"} \X Job)

ClockIn ==
  [kind : {"clock_in"}, staff : Staff, locks : SUBSET Lock, found : BOOLEAN, at : Nat]

AssignShift ==
  [kind : {"assign_shift"}, staff : Staff, day : Day, row : ShiftRow,
   locks : SUBSET Lock, found : BOOLEAN]

ReplaceMembers ==
  [kind : {"replace_members"}, team : Team, wanted : SUBSET Staff,
   locks : SUBSET Lock, read : SUBSET Staff]

CreateLeave ==
  [kind : {"create_leave"}, leave : Leave, locks : SUBSET Lock, row : LeaveRow]

ReviewLeave ==
  [kind : {"review_leave"}, leave : Leave, decision : {"approved", "rejected"},
   locks : SUBSET Lock]

AssignJob ==
  [kind : {"assign_job"}, job : Job, staff : Staff \cup {NoStaff}, team : Team \cup {NoTeam},
   locks : SUBSET Lock]

Transaction ==
  {Idle} \cup ClockIn \cup AssignShift \cup ReplaceMembers
    \cup CreateLeave \cup ReviewLeave \cup AssignJob

Types == TypeOK /\ tx \in [Session -> Transaction]

(* No two transactions hold one row, and each holds the row it decides on.  *)
Exclusive == \A p, q \in Session : p # q => tx[p].locks \cap tx[q].locks = {}

HoldsRow(p) ==
  /\ tx[p].kind \in {"clock_in", "assign_shift"} => <<"staff", tx[p].staff>> \in tx[p].locks
  /\ tx[p].kind = "replace_members" => <<"team", tx[p].team>> \in tx[p].locks
  /\ tx[p].kind = "review_leave" => <<"leave", tx[p].leave>> \in tx[p].locks

Locking == Exclusive /\ \A p \in Session : HoldsRow(p)

(* The attendance sessions of one person follow each other, and only the    *)
(* last one may be open.                                                    *)
Follows(a, t) ==
  /\ \A n \in DOMAIN a : a[n].in <= t /\ (a[n].out = Open \/ (a[n].in <= a[n].out /\ a[n].out <= t))
  /\ \A m, n \in DOMAIN a : m < n => a[m].out # Open /\ a[m].out <= a[n].in

SessionsInOrder == \A s \in Staff : Follows(attendance[s], now)

(* What each transaction has read is still so.                              *)
ReadHolds(p) ==
  /\ tx[p].kind = "clock_in" /\ ~tx[p].found =>
       /\ tx[p].at <= now
       /\ \A n \in DOMAIN attendance[tx[p].staff] :
            /\ attendance[tx[p].staff][n].out # Open
            /\ attendance[tx[p].staff][n].out <= tx[p].at
  /\ tx[p].kind = "assign_shift" /\ ~tx[p].found => shift[<<tx[p].staff, tx[p].day>>] = NoAssignment
  /\ tx[p].kind = "replace_members" => tx[p].read = Members(tx[p].team)
  /\ tx[p].kind = "review_leave" => leave[tx[p].leave].status = "pending"
  /\ tx[p].kind = "create_leave" => leave[tx[p].leave].status = "none"

(* Every request for leave is a row of its own.                             *)
LeaveDistinct ==
  \A p, q \in Session :
    p # q /\ tx[p].kind = "create_leave" /\ tx[q].kind = "create_leave" => tx[p].leave # tx[q].leave

Sound ==
  /\ Types /\ Locking /\ SessionsInOrder /\ LeaveDistinct
  /\ \A p \in Session : ReadHolds(p)
-----------------------------------------------------------------------------
(* Transactions.                                                            *)

LEMMA Kinds ==
  ASSUME Types, NEW p \in Session
  PROVE  /\ tx[p].kind = "clock_in" => tx[p] \in ClockIn
         /\ tx[p].kind = "assign_shift" => tx[p] \in AssignShift
         /\ tx[p].kind = "replace_members" => tx[p] \in ReplaceMembers
         /\ tx[p].kind = "create_leave" => tx[p] \in CreateLeave
         /\ tx[p].kind = "review_leave" => tx[p] \in ReviewLeave
         /\ tx[p].kind = "assign_job" => tx[p] \in AssignJob
         /\ tx[p] \in Transaction
         /\ tx[p].locks \subseteq Lock
<1>1. tx[p] \in Transaction
  BY DEF Types
<1>2. CASE tx[p] = Idle
  BY <1>1, <1>2 DEF Idle
<1>3. CASE tx[p] \in ClockIn
  BY <1>1, <1>3 DEF ClockIn
<1>4. CASE tx[p] \in AssignShift
  BY <1>1, <1>4 DEF AssignShift
<1>5. CASE tx[p] \in ReplaceMembers
  BY <1>1, <1>5 DEF ReplaceMembers
<1>6. CASE tx[p] \in CreateLeave
  BY <1>1, <1>6 DEF CreateLeave
<1>7. CASE tx[p] \in ReviewLeave
  BY <1>1, <1>7 DEF ReviewLeave
<1>8. CASE tx[p] \in AssignJob
  BY <1>1, <1>8 DEF AssignJob
<1> QED  BY <1>1, <1>2, <1>3, <1>4, <1>5, <1>6, <1>7, <1>8 DEF Transaction

LEMMA Step ==
  ASSUME Types, NEW p \in Session, NEW t \in Transaction, tx' = [tx EXCEPT ![p] = t]
  PROVE  /\ tx' \in [Session -> Transaction]
         /\ tx'[p] = t
         /\ \A q \in Session \ {p} : tx'[q] = tx[q]
  BY DEF Types

(* What a session has read is still so when its part has not changed.       *)
LEMMA ReadKept ==
  ASSUME Types, NEW q \in Session, ReadHolds(q), tx'[q] = tx[q], now' \in Nat, now <= now',
         tx[q].kind = "clock_in" /\ ~tx[q].found =>
           attendance'[tx[q].staff] = attendance[tx[q].staff],
         tx[q].kind = "assign_shift" =>
           shift'[<<tx[q].staff, tx[q].day>>] = shift[<<tx[q].staff, tx[q].day>>],
         tx[q].kind = "replace_members" => Members(tx[q].team)' = Members(tx[q].team),
         tx[q].kind \in {"review_leave", "create_leave"} =>
           leave'[tx[q].leave] = leave[tx[q].leave]
  PROVE  ReadHolds(q)'
<1>1. ASSUME tx[q].kind = "clock_in", ~tx[q].found
      PROVE  /\ tx[q].at <= now'
             /\ \A n \in DOMAIN attendance[tx[q].staff] :
                  /\ attendance[tx[q].staff][n].out # Open
                  /\ attendance[tx[q].staff][n].out <= tx[q].at
  <2>1. tx[q].at \in Nat /\ now \in Nat
    BY <1>1, Kinds DEF ClockIn, Types, TypeOK
  <2>2. tx[q].at <= now'
    BY <1>1, <2>1 DEF ReadHolds
  <2> QED  BY <1>1, <2>2 DEF ReadHolds
<1> QED  BY <1>1 DEF ReadHolds

(* A transaction that begins: its locks were free, and what it has read is  *)
(* so.                                                                      *)
LEMMA BeginSound ==
  ASSUME Sound, NEW p \in Session, NEW t \in Transaction, Start(p, t),
         UNCHANGED <<now, enabled, member, attendance, shift, leave, job>>,
         \A q \in Session : t.locks \cap tx[q].locks = {},
         t.kind = "create_leave" =>
           \A q \in Session : tx[q].kind = "create_leave" => tx[q].leave # t.leave,
         tx'[p] = t => HoldsRow(p)' /\ ReadHolds(p)'
  PROVE  Sound'
<1>1. /\ tx' \in [Session -> Transaction]
      /\ tx'[p] = t
      /\ \A q \in Session \ {p} : tx'[q] = tx[q]
  BY Step DEF Sound, Start
<1>2. Types'
  BY <1>1 DEF Sound, Types, TypeOK
<1>3. Exclusive'
  BY <1>1 DEF Sound, Locking, Exclusive
<1>4. ASSUME NEW q \in Session
      PROVE  HoldsRow(q)' /\ ReadHolds(q)'
  <2>1. CASE q = p
    BY <2>1, <1>1
  <2>2. CASE q # p
    <3>1. HoldsRow(q) /\ ReadHolds(q) /\ tx'[q] = tx[q]
      BY <2>2, <1>1 DEF Sound, Locking
    <3>2. HoldsRow(q)'
      BY <3>1 DEF HoldsRow
    <3>3. Members(tx[q].team)' = Members(tx[q].team) /\ now \in Nat
      BY <3>1 DEF Members, Sound, Types, TypeOK
    <3>4. ReadHolds(q)'
      BY <3>1, <3>3, ReadKept DEF Sound
    <3> QED  BY <3>2, <3>4
  <2> QED  BY <2>1, <2>2
<1>5. SessionsInOrder'
  BY DEF Sound, SessionsInOrder, Follows
<1>6. LeaveDistinct'
  BY <1>1 DEF Sound, LeaveDistinct
<1> QED  BY <1>2, <1>3, <1>4, <1>5, <1>6 DEF Sound, Locking

(* A transaction that ends without its own decision keeps what the others   *)
(* have read.                                                               *)
LEMMA EndSound ==
  ASSUME Sound, NEW p \in Session, End(p), TypeOK', SessionsInOrder',
         \A q \in Session \ {p} : ReadHolds(q)'
  PROVE  Sound'
<1>1. /\ tx' \in [Session -> Transaction]
      /\ tx'[p] = Idle
      /\ \A q \in Session \ {p} : tx'[q] = tx[q]
  BY Step DEF Sound, End, Transaction
<1>2. tx'[p].kind = "idle" /\ tx'[p].locks = {}
  BY <1>1 DEF Idle
<1>3. Types'
  BY <1>1 DEF Types
<1>4. Exclusive'
  BY <1>1, <1>2 DEF Sound, Locking, Exclusive
<1>5. ASSUME NEW q \in Session
      PROVE  HoldsRow(q)' /\ ReadHolds(q)'
  <2>1. CASE q = p
    BY <2>1, <1>2 DEF HoldsRow, ReadHolds
  <2>2. CASE q # p
    BY <2>2, <1>1 DEF Sound, Locking, HoldsRow
  <2> QED  BY <2>1, <2>2
<1>6. LeaveDistinct'
  BY <1>1, <1>2 DEF Sound, LeaveDistinct
<1> QED  BY <1>3, <1>4, <1>5, <1>6 DEF Sound, Locking
-----------------------------------------------------------------------------
(* The inductive invariant holds in the beginning ...                       *)
THEOREM InitSound == TimeAssumption /\ Init => Sound
<1> SUFFICES ASSUME TimeAssumption, Init
             PROVE  Sound
  OBVIOUS
<1>1. Types
  <2>1. leave \in [Leave -> LeaveRow]
    BY DEF Init, LeaveRow, LeaveStatus, Day, TimeAssumption
  <2>2. job \in [Job -> JobRow] /\ shift \in [Staff \X Day -> ShiftRow]
    BY DEF Init, JobRow, ShiftRow, NoAssignment
  <2>3. attendance \in [Staff -> Seq(AttendanceRow)]
    BY DEF Init
  <2>4. tx \in [Session -> Transaction]
    BY DEF Init, Transaction
  <2> QED  BY <2>1, <2>2, <2>3, <2>4 DEF Init, Types, TypeOK
<1>2. \A p \in Session : tx[p].kind = "idle" /\ tx[p].locks = {}
  BY DEF Init, Idle
<1>3. SessionsInOrder
  BY DEF Init, SessionsInOrder, Follows
<1> QED
  BY <1>1, <1>2, <1>3 DEF Sound, Locking, Exclusive, HoldsRow, LeaveDistinct, ReadHolds
-----------------------------------------------------------------------------
(* Requests begin.                                                          *)

LEMMA FreeLock ==
  ASSUME NEW lock, Free(lock)
  PROVE  \A q \in Session : {lock} \cap tx[q].locks = {}
  BY DEF Free

LEMMA BeginClockInSound ==
  ASSUME Sound, StaffAssumption, NEW p \in Session, NEW s \in Followed, BeginClockIn(p, s)
  PROVE  Sound'
<1> DEFINE t == [kind |-> "clock_in", staff |-> s, locks |-> {<<"staff", s>>},
                 found |-> HasOpen(s), at |-> now]
<1>1. s \in Staff /\ now \in Nat
  BY DEF StaffAssumption, Sound, Types, TypeOK
<1>2. <<"staff", s>> \in Lock
  BY <1>1 DEF Lock
<1>3. t \in Transaction
  <2>1. HasOpen(s) \in BOOLEAN
    BY DEF HasOpen
  <2> QED  BY <1>1, <1>2, <2>1 DEF Transaction, ClockIn
<1>4. /\ t.kind = "clock_in" /\ t.staff = s /\ t.locks = {<<"staff", s>>}
      /\ t.found = HasOpen(s) /\ t.at = now
  OBVIOUS
<1>5. Start(p, t) /\ Free(<<"staff", s>>)
      /\ UNCHANGED <<now, enabled, member, attendance, shift, leave, job>>
  BY DEF BeginClockIn
<1> HIDE DEF t
<1>6. \A q \in Session : t.locks \cap tx[q].locks = {}
  BY <1>4, <1>5, FreeLock
<1>7. ASSUME ~HasOpen(s)
      PROVE  \A n \in DOMAIN attendance[s] :
               attendance[s][n].out # Open /\ attendance[s][n].out <= now
  BY <1>1, <1>7 DEF HasOpen, Sound, SessionsInOrder, Follows
<1>8. ASSUME tx'[p] = t
      PROVE  HoldsRow(p)' /\ ReadHolds(p)'
  <2>1. HoldsRow(p)'
    BY <1>4, <1>8 DEF HoldsRow
  <2>2. attendance' = attendance /\ now' = now
    BY <1>5
  <2>3. ReadHolds(p)'
    BY <1>1, <1>4, <1>7, <1>8, <2>2 DEF ReadHolds
  <2> QED  BY <2>1, <2>3
<1> QED  BY <1>3, <1>4, <1>5, <1>6, <1>8, BeginSound

LEMMA BeginAssignShiftSound ==
  ASSUME Sound, StaffAssumption, NEW p \in Session, NEW s \in Followed, NEW d \in Day,
         NEW row \in [shift : Shift, team : Team \cup {NoTeam}], BeginAssignShift(p, s, d, row)
  PROVE  Sound'
<1> DEFINE t == [kind |-> "assign_shift", staff |-> s, day |-> d, row |-> row,
                 locks |-> {<<"staff", s>>}, found |-> shift[<<s, d>>] # NoAssignment]
<1>1. s \in Staff /\ row \in ShiftRow
  BY DEF StaffAssumption, ShiftRow
<1>2. <<"staff", s>> \in Lock
  BY <1>1 DEF Lock
<1>3. t \in Transaction
  BY <1>1, <1>2 DEF Transaction, AssignShift
<1>4. /\ t.kind = "assign_shift" /\ t.staff = s /\ t.day = d /\ t.locks = {<<"staff", s>>}
      /\ t.found = (shift[<<s, d>>] # NoAssignment)
  OBVIOUS
<1>5. Start(p, t) /\ Free(<<"staff", s>>)
      /\ UNCHANGED <<now, enabled, member, attendance, shift, leave, job>>
  BY DEF BeginAssignShift
<1> HIDE DEF t
<1>6. \A q \in Session : t.locks \cap tx[q].locks = {}
  BY <1>4, <1>5, FreeLock
<1>7. ASSUME tx'[p] = t
      PROVE  HoldsRow(p)' /\ ReadHolds(p)'
  BY <1>4, <1>5, <1>7 DEF HoldsRow, ReadHolds
<1> QED  BY <1>3, <1>4, <1>5, <1>6, <1>7, BeginSound

LEMMA BeginReplaceMembersSound ==
  ASSUME Sound, NEW p \in Session, NEW team \in Team, NEW wanted \in SUBSET Staff,
         BeginReplaceMembers(p, team, wanted)
  PROVE  Sound'
<1> DEFINE t == [kind |-> "replace_members", team |-> team, wanted |-> wanted,
                 locks |-> {<<"team", team>>}, read |-> Members(team)]
<1>1. <<"team", team>> \in Lock
  BY DEF Lock
<1>2. t \in Transaction
  BY <1>1 DEF Transaction, ReplaceMembers, Members
<1>3. /\ t.kind = "replace_members" /\ t.team = team /\ t.locks = {<<"team", team>>}
      /\ t.read = Members(team)
  OBVIOUS
<1>4. Start(p, t) /\ Free(<<"team", team>>)
      /\ UNCHANGED <<now, enabled, member, attendance, shift, leave, job>>
  BY DEF BeginReplaceMembers
<1> HIDE DEF t
<1>5. \A q \in Session : t.locks \cap tx[q].locks = {}
  BY <1>3, <1>4, FreeLock
<1>6. ASSUME tx'[p] = t
      PROVE  HoldsRow(p)' /\ ReadHolds(p)'
  <2>1. Members(team)' = Members(team)
    BY <1>4 DEF Members
  <2> QED  BY <1>3, <1>6, <2>1 DEF HoldsRow, ReadHolds
<1> QED  BY <1>2, <1>3, <1>4, <1>5, <1>6, BeginSound

LEMMA BeginCreateLeaveSound ==
  ASSUME Sound, StaffAssumption, NEW p \in Session, NEW l \in Leave, NEW s \in Followed,
         NEW from \in Day, NEW to \in Day, BeginCreateLeave(p, l, s, from, to)
  PROVE  Sound'
<1> DEFINE t == [kind |-> "create_leave", leave |-> l, locks |-> {},
                 row |-> [staff |-> s, from |-> from, to |-> to, status |-> "pending"]]
<1>1. t \in Transaction
  BY DEF Transaction, CreateLeave, LeaveRow, LeaveStatus, StaffAssumption
<1>2. t.kind = "create_leave" /\ t.leave = l /\ t.locks = {}
  OBVIOUS
<1>3. /\ Start(p, t)
      /\ UNCHANGED <<now, enabled, member, attendance, shift, leave, job>>
      /\ leave[l].status = "none"
      /\ \A q \in Session : tx[q].kind = "create_leave" => tx[q].leave # l
  BY DEF BeginCreateLeave
<1> HIDE DEF t
<1>4. ASSUME tx'[p] = t
      PROVE  HoldsRow(p)' /\ ReadHolds(p)'
  BY <1>2, <1>3, <1>4 DEF HoldsRow, ReadHolds
<1> QED  BY <1>1, <1>2, <1>3, <1>4, BeginSound

LEMMA BeginReviewLeaveSound ==
  ASSUME Sound, NEW p \in Session, NEW l \in Leave, NEW d \in {"approved", "rejected"},
         BeginReviewLeave(p, l, d)
  PROVE  Sound'
<1> DEFINE t == [kind |-> "review_leave", leave |-> l, decision |-> d,
                 locks |-> {<<"leave", l>>}]
<1>1. <<"leave", l>> \in Lock
  BY DEF Lock
<1>2. t \in Transaction
  BY <1>1 DEF Transaction, ReviewLeave
<1>3. t.kind = "review_leave" /\ t.leave = l /\ t.locks = {<<"leave", l>>}
  OBVIOUS
<1>4. /\ Start(p, t) /\ Free(<<"leave", l>>)
      /\ UNCHANGED <<now, enabled, member, attendance, shift, leave, job>>
      /\ leave[l].status = "pending"
  BY DEF BeginReviewLeave
<1> HIDE DEF t
<1>5. \A q \in Session : t.locks \cap tx[q].locks = {}
  BY <1>3, <1>4, FreeLock
<1>6. ASSUME tx'[p] = t
      PROVE  HoldsRow(p)' /\ ReadHolds(p)'
  BY <1>3, <1>4, <1>6 DEF HoldsRow, ReadHolds
<1> QED  BY <1>2, <1>3, <1>4, <1>5, <1>6, BeginSound

LEMMA BeginAssignJobSound ==
  ASSUME Sound, StaffAssumption, NEW p \in Session, NEW j \in Job,
         NEW s \in Followed \cup {NoStaff}, NEW team \in Team \cup {NoTeam},
         BeginAssignJob(p, j, s, team)
  PROVE  Sound'
<1> DEFINE t == [kind |-> "assign_job", job |-> j, staff |-> s, team |-> team,
                 locks |-> {<<"job", j>>}]
<1>1. <<"job", j>> \in Lock
  BY DEF Lock
<1>2. t \in Transaction
  BY <1>1 DEF Transaction, AssignJob, StaffAssumption
<1>3. t.kind = "assign_job" /\ t.locks = {<<"job", j>>}
  OBVIOUS
<1>4. /\ Start(p, t) /\ Free(<<"job", j>>)
      /\ UNCHANGED <<now, enabled, member, attendance, shift, leave, job>>
  BY DEF BeginAssignJob
<1> HIDE DEF t
<1>5. \A q \in Session : t.locks \cap tx[q].locks = {}
  BY <1>3, <1>4, FreeLock
<1>6. ASSUME tx'[p] = t
      PROVE  HoldsRow(p)' /\ ReadHolds(p)'
  BY <1>3, <1>6 DEF HoldsRow, ReadHolds
<1> QED  BY <1>2, <1>3, <1>4, <1>5, <1>6, BeginSound
-----------------------------------------------------------------------------
(* Requests end.                                                            *)

LEMMA Others ==
  ASSUME Types, NEW p \in Session, End(p)
  PROVE  \A q \in Session \ {p} : tx'[q] = tx[q]
  BY DEF Types, End

(* Two transactions that decide on rows of one kind decide on two rows.     *)
LEMMA Apart ==
  ASSUME Locking, NEW p \in Session, NEW q \in Session \ {p}
  PROVE  /\ {tx[p].kind, tx[q].kind} \subseteq {"clock_in", "assign_shift"} =>
              tx[p].staff # tx[q].staff
         /\ {tx[p].kind, tx[q].kind} = {"replace_members"} => tx[p].team # tx[q].team
         /\ {tx[p].kind, tx[q].kind} = {"review_leave"} => tx[p].leave # tx[q].leave
<1>1. HoldsRow(p) /\ HoldsRow(q) /\ tx[p].locks \cap tx[q].locks = {}
  BY DEF Locking, Exclusive
<1> QED  BY <1>1 DEF HoldsRow

LEMMA AbortSound ==
  ASSUME Sound, NEW p \in Session, Abort(p)
  PROVE  Sound'
<1>1. UNCHANGED <<now, enabled, member, attendance, shift, leave, job>> /\ End(p)
  BY DEF Abort
<1>2. TypeOK' /\ now \in Nat
  BY <1>1 DEF Sound, Types, TypeOK
<1>3. SessionsInOrder'
  BY <1>1 DEF Sound, SessionsInOrder
<1>4. ASSUME NEW q \in Session \ {p}
      PROVE  ReadHolds(q)'
  <2>1. tx'[q] = tx[q]
    BY <1>1, Others DEF Sound
  <2>2. Members(tx[q].team)' = Members(tx[q].team)
    BY <1>1, <2>1 DEF Members
  <2> QED  BY <1>1, <1>2, <2>1, <2>2, ReadKept DEF Sound
<1> QED  BY <1>1, <1>2, <1>3, <1>4, EndSound

LEMMA AppendFollows ==
  ASSUME NEW a \in Seq(AttendanceRow), NEW t \in Nat, NEW at \in Nat, at <= t, Follows(a, t),
         \A n \in DOMAIN a : a[n].out # Open /\ a[n].out <= at
  PROVE  Follows(Append(a, [in |-> at, out |-> Open]), t)
<1> DEFINE row == [in |-> at, out |-> Open]
           b == Append(a, row)
<1>1. row.in = at /\ row.out = Open /\ row \in AttendanceRow
  BY DEF AttendanceRow
<1> HIDE DEF row
<1>2. /\ DOMAIN a = 1 .. Len(a) /\ DOMAIN b = 1 .. Len(a) + 1 /\ Len(a) \in Nat
      /\ \A n \in 1 .. Len(a) : b[n] = a[n]
      /\ b[Len(a) + 1] = row
  OBVIOUS
<1> HIDE DEF b
<1>3. ASSUME NEW n \in DOMAIN b
      PROVE  b[n].in <= t /\ (b[n].out = Open \/ (b[n].in <= b[n].out /\ b[n].out <= t))
  <2>1. CASE n = Len(a) + 1
    BY <2>1, <1>1, <1>2
  <2>2. CASE n \in 1 .. Len(a)
    BY <2>2, <1>2 DEF Follows
  <2> QED  BY <2>1, <2>2, <1>2
<1>4. ASSUME NEW m \in DOMAIN b, NEW n \in DOMAIN b, m < n
      PROVE  b[m].out # Open /\ b[m].out <= b[n].in
  <2>1. m \in 1 .. Len(a)
    BY <1>2, <1>4
  <2>2. CASE n = Len(a) + 1
    BY <2>1, <2>2, <1>1, <1>2
  <2>3. CASE n \in 1 .. Len(a)
    BY <2>1, <2>3, <1>2, <1>4 DEF Follows
  <2> QED  BY <2>2, <2>3, <1>2
<1> QED  BY <1>3, <1>4 DEF Follows, b, row

LEMMA CommitClockInSound ==
  ASSUME Sound, NEW p \in Session, CommitClockIn(p)
  PROVE  Sound'
<1>1. /\ tx[p] \in ClockIn /\ tx[p].kind = "clock_in"
      /\ UNCHANGED <<now, enabled, member, shift, leave, job>> /\ End(p)
  BY Kinds DEF CommitClockIn, Sound
<1>2. /\ tx[p].staff \in Staff /\ tx[p].at \in Nat /\ now \in Nat
      /\ attendance \in [Staff -> Seq(AttendanceRow)]
  BY <1>1 DEF ClockIn, Sound, Types, TypeOK
<1> DEFINE s == tx[p].staff
           b == Append(attendance[s], [in |-> tx[p].at, out |-> Open])
<1>3. \/ tx[p].found /\ attendance' = attendance
      \/ ~tx[p].found /\ attendance' = [attendance EXCEPT ![s] = b]
  BY DEF CommitClockIn
<1>4. ~tx[p].found => Follows(b, now)
  BY <1>1, <1>2, AppendFollows DEF Sound, SessionsInOrder, ReadHolds
<1>5. b \in Seq(AttendanceRow)
  <2>1. [in |-> tx[p].at, out |-> Open] \in AttendanceRow /\ attendance[s] \in Seq(AttendanceRow)
    BY <1>2 DEF AttendanceRow
  <2> QED  BY <2>1
<1> HIDE DEF b
<1>6. /\ attendance' \in [Staff -> Seq(AttendanceRow)]
      /\ ~tx[p].found => attendance'[s] = b
      /\ \A r \in Staff \ {s} : attendance'[r] = attendance[r]
  BY <1>2, <1>3, <1>5
<1>7. TypeOK'
  BY <1>1, <1>6 DEF Sound, Types, TypeOK
<1>8. SessionsInOrder'
  BY <1>1, <1>3, <1>4, <1>6 DEF Sound, SessionsInOrder
<1>9. ASSUME NEW q \in Session \ {p}
      PROVE  ReadHolds(q)'
  <2>1. tx'[q] = tx[q]
    BY <1>1, Others DEF Sound
  <2>2. Members(tx[q].team)' = Members(tx[q].team)
    BY <1>1, <2>1 DEF Members
  <2>3. tx[q].kind = "clock_in" => tx[q].staff \in Staff \ {s}
    BY <1>1, Apart, Kinds DEF Sound, ClockIn
  <2> QED  BY <1>1, <1>2, <1>6, <2>1, <2>2, <2>3, ReadKept DEF Sound
<1> QED  BY <1>1, <1>7, <1>8, <1>9, EndSound

LEMMA CommitAssignShiftSound ==
  ASSUME Sound, NEW p \in Session, CommitAssignShift(p)
  PROVE  Sound'
<1>1. /\ tx[p] \in AssignShift /\ tx[p].kind = "assign_shift" /\ End(p)
      /\ UNCHANGED <<now, enabled, member, attendance, leave, job>>
      /\ shift' = [shift EXCEPT ![<<tx[p].staff, tx[p].day>>] = tx[p].row]
  BY Kinds DEF CommitAssignShift, Sound
<1>2. /\ tx[p].staff \in Staff /\ tx[p].day \in Day /\ tx[p].row \in ShiftRow
      /\ shift \in [Staff \X Day -> ShiftRow] /\ now \in Nat
  BY <1>1 DEF AssignShift, Sound, Types, TypeOK
<1>3. TypeOK'
  <2>1. shift' \in [Staff \X Day -> ShiftRow]
    BY <1>1, <1>2
  <2> QED  BY <1>1, <2>1 DEF Sound, Types, TypeOK
<1>4. SessionsInOrder'
  BY <1>1 DEF Sound, SessionsInOrder
<1>5. ASSUME NEW q \in Session \ {p}
      PROVE  ReadHolds(q)'
  <2>1. tx'[q] = tx[q]
    BY <1>1, Others DEF Sound
  <2>2. Members(tx[q].team)' = Members(tx[q].team)
    BY <1>1, <2>1 DEF Members
  <2>3. tx[q].kind = "assign_shift" =>
          tx[q].staff # tx[p].staff /\ tx[q].staff \in Staff /\ tx[q].day \in Day
    BY <1>1, Apart, Kinds DEF Sound, AssignShift
  <2>4. tx[q].kind = "assign_shift" =>
          shift'[<<tx[q].staff, tx[q].day>>] = shift[<<tx[q].staff, tx[q].day>>]
    BY <1>1, <1>2, <2>3
  <2> QED  BY <1>1, <1>2, <2>1, <2>2, <2>4, ReadKept DEF Sound
<1> QED  BY <1>1, <1>3, <1>4, <1>5, EndSound

(* The members that the commit leaves are those that were wanted, for what  *)
(* was read of this team is still so.                                       *)
LEMMA MembersReplaced ==
  ASSUME Sound, NEW p \in Session, CommitReplaceMembers(p), NEW t \in Team
  PROVE  Members(t)' = IF t = tx[p].team THEN tx[p].wanted ELSE Members(t)
<1>1. /\ tx[p] \in ReplaceMembers
      /\ member' = (member \ ({tx[p].team} \X (tx[p].read \ tx[p].wanted)))
                     \cup ({tx[p].team} \X (tx[p].wanted \ tx[p].read))
      /\ tx[p].read = Members(tx[p].team)
  BY Kinds DEF CommitReplaceMembers, Sound, ReadHolds
<1>2. tx[p].wanted \subseteq Staff /\ tx[p].read \subseteq Staff
  BY <1>1 DEF ReplaceMembers
<1>3. CASE t = tx[p].team
  <2>1. ASSUME NEW s \in Staff
        PROVE  <<t, s>> \in member' <=> s \in tx[p].wanted
    <3>1. s \in tx[p].read <=> <<t, s>> \in member
      BY <1>1, <1>3 DEF Members
    <3> QED  BY <1>1, <1>3, <3>1
  <2> QED  BY <1>2, <1>3, <2>1 DEF Members
<1>4. CASE t # tx[p].team
  <2>1. \A s \in Staff : <<t, s>> \in member' <=> <<t, s>> \in member
    BY <1>1, <1>4
  <2> QED  BY <1>4, <2>1 DEF Members
<1> QED  BY <1>3, <1>4

LEMMA CommitReplaceMembersSound ==
  ASSUME Sound, NEW p \in Session, CommitReplaceMembers(p)
  PROVE  Sound'
<1>1. /\ tx[p] \in ReplaceMembers /\ tx[p].kind = "replace_members" /\ End(p)
      /\ UNCHANGED <<now, enabled, attendance, shift, leave, job>>
      /\ member' = (member \ ({tx[p].team} \X (tx[p].read \ tx[p].wanted)))
                     \cup ({tx[p].team} \X (tx[p].wanted \ tx[p].read))
  BY Kinds DEF CommitReplaceMembers, Sound
<1>2. TypeOK'
  <2>1. member' \subseteq Team \X Staff
    BY <1>1 DEF ReplaceMembers, Sound, Types, TypeOK
  <2> QED  BY <1>1, <2>1 DEF Sound, Types, TypeOK
<1>3. SessionsInOrder'
  BY <1>1 DEF Sound, SessionsInOrder
<1>4. ASSUME NEW q \in Session \ {p}
      PROVE  ReadHolds(q)'
  <2>1. tx'[q] = tx[q] /\ now \in Nat
    BY <1>1, Others DEF Sound, Types, TypeOK
  <2>2. ASSUME tx[q].kind = "replace_members"
        PROVE  Members(tx[q].team)' = Members(tx[q].team)
    <3>1. PICK t \in Team : t = tx[q].team /\ t # tx[p].team
      BY <1>1, <2>2, Apart, Kinds DEF Sound, ReplaceMembers
    <3>2. Members(t)' = Members(t)
      BY <3>1, MembersReplaced
    <3> QED  BY <2>1, <3>1, <3>2 DEF Members
  <2> QED  BY <1>1, <2>1, <2>2, ReadKept DEF Sound
<1> QED  BY <1>1, <1>2, <1>3, <1>4, EndSound

(* The steps that write one request for leave.                              *)
LEMMA LeaveWritten ==
  ASSUME Sound, NEW p \in Session, NEW l \in Leave, NEW row \in LeaveRow, End(p),
         UNCHANGED <<now, enabled, member, attendance, shift, job>>,
         leave' = [leave EXCEPT ![l] = row],
         \A q \in Session \ {p} :
           tx[q].kind \in {"create_leave", "review_leave"} => tx[q].leave # l
  PROVE  Sound'
<1>1. leave \in [Leave -> LeaveRow] /\ now \in Nat
  BY DEF Sound, Types, TypeOK
<1>2. leave' \in [Leave -> LeaveRow] /\ \A k \in Leave \ {l} : leave'[k] = leave[k]
  BY <1>1
<1>3. TypeOK'
  BY <1>2 DEF Sound, Types, TypeOK
<1>4. SessionsInOrder'
  BY DEF Sound, SessionsInOrder
<1>5. ASSUME NEW q \in Session \ {p}
      PROVE  ReadHolds(q)'
  <2>1. tx'[q] = tx[q]
    BY Others DEF Sound
  <2>2. Members(tx[q].team)' = Members(tx[q].team)
    BY <2>1 DEF Members
  <2>3. tx[q].kind \in {"create_leave", "review_leave"} => tx[q].leave \in Leave \ {l}
    BY Kinds DEF Sound, CreateLeave, ReviewLeave
  <2> QED  BY <1>1, <1>2, <2>1, <2>2, <2>3, ReadKept DEF Sound
<1> QED  BY <1>3, <1>4, <1>5, EndSound

LEMMA CommitCreateLeaveSound ==
  ASSUME Sound, NEW p \in Session, CommitCreateLeave(p)
  PROVE  Sound'
<1>1. /\ tx[p] \in CreateLeave /\ tx[p].kind = "create_leave" /\ End(p)
      /\ UNCHANGED <<now, enabled, member, attendance, shift, job>>
      /\ leave' = [leave EXCEPT ![tx[p].leave] = tx[p].row]
  BY Kinds DEF CommitCreateLeave, Sound
<1>2. tx[p].leave \in Leave /\ tx[p].row \in LeaveRow
  BY <1>1 DEF CreateLeave
<1>3. ASSUME NEW q \in Session \ {p}, tx[q].kind \in {"create_leave", "review_leave"}
      PROVE  tx[q].leave # tx[p].leave
  BY <1>1, <1>3 DEF Sound, LeaveDistinct, ReadHolds
<1> QED  BY <1>1, <1>2, <1>3, LeaveWritten

LEMMA CommitReviewLeaveSound ==
  ASSUME Sound, NEW p \in Session, CommitReviewLeave(p)
  PROVE  Sound'
<1>1. /\ tx[p] \in ReviewLeave /\ tx[p].kind = "review_leave" /\ End(p)
      /\ UNCHANGED <<now, enabled, member, attendance, shift, job>>
      /\ leave' = [leave EXCEPT ![tx[p].leave].status = tx[p].decision]
  BY Kinds DEF CommitReviewLeave, Sound
<1> DEFINE row == [leave[tx[p].leave] EXCEPT !.status = tx[p].decision]
<1>2. tx[p].leave \in Leave /\ tx[p].decision \in {"approved", "rejected"}
  BY <1>1 DEF ReviewLeave
<1>3. leave' = [leave EXCEPT ![tx[p].leave] = row] /\ row \in LeaveRow
  BY <1>1, <1>2 DEF Sound, Types, TypeOK, LeaveRow, LeaveStatus
<1>4. ASSUME NEW q \in Session \ {p}, tx[q].kind \in {"create_leave", "review_leave"}
      PROVE  tx[q].leave # tx[p].leave
  <2>1. CASE tx[q].kind = "create_leave"
    BY <1>1, <2>1 DEF Sound, ReadHolds
  <2>2. CASE tx[q].kind = "review_leave"
    BY <1>1, <2>2, Apart DEF Sound
  <2> QED  BY <1>4, <2>1, <2>2
<1> HIDE DEF row
<1> QED  BY <1>1, <1>2, <1>3, <1>4, LeaveWritten

LEMMA CommitAssignJobSound ==
  ASSUME Sound, NEW p \in Session, CommitAssignJob(p)
  PROVE  Sound'
<1>1. /\ tx[p] \in AssignJob /\ tx[p].kind = "assign_job" /\ End(p)
      /\ UNCHANGED <<now, enabled, member, attendance, shift, leave>>
  BY Kinds DEF CommitAssignJob, Sound
<1>2. job' \in [Job -> JobRow]
  <2>1. job \in [Job -> JobRow] /\ tx[p].job \in Job
    BY <1>1 DEF AssignJob, Sound, Types, TypeOK
  <2> DEFINE row == [status |-> job[tx[p].job].status,
                     staff  |-> IF tx[p].staff = NoStaff THEN job[tx[p].job].staff ELSE tx[p].staff,
                     team   |-> IF tx[p].team = NoTeam THEN job[tx[p].job].team ELSE tx[p].team]
  <2>2. row \in JobRow
    BY <1>1, <2>1 DEF JobRow, AssignJob
  <2>3. job' = [job EXCEPT ![tx[p].job] = row]
    BY DEF CommitAssignJob
  <2> HIDE DEF row
  <2> QED  BY <2>1, <2>2, <2>3
<1>3. TypeOK' /\ now \in Nat
  BY <1>1, <1>2 DEF Sound, Types, TypeOK
<1>4. SessionsInOrder'
  BY <1>1 DEF Sound, SessionsInOrder
<1>5. ASSUME NEW q \in Session \ {p}
      PROVE  ReadHolds(q)'
  <2>1. tx'[q] = tx[q]
    BY <1>1, Others DEF Sound
  <2>2. Members(tx[q].team)' = Members(tx[q].team)
    BY <1>1, <2>1 DEF Members
  <2> QED  BY <1>1, <1>3, <2>1, <2>2, ReadKept DEF Sound
<1> QED  BY <1>1, <1>3, <1>4, <1>5, EndSound
-----------------------------------------------------------------------------
(* Requests of one step.                                                    *)

(* A step that no transaction has read anything of.                         *)
LEMMA NothingRead ==
  ASSUME Sound, TypeOK', now <= now', SessionsInOrder',
         UNCHANGED <<member, shift, leave, tx>>,
         \A q \in Session : tx[q].kind = "clock_in" /\ ~tx[q].found =>
           attendance'[tx[q].staff] = attendance[tx[q].staff]
  PROVE  Sound'
<1>1. Types' /\ Locking' /\ LeaveDistinct'
  BY DEF Sound, Types, Locking, Exclusive, HoldsRow, LeaveDistinct
<1>2. ASSUME NEW q \in Session
      PROVE  ReadHolds(q)'
  <2>1. Members(tx[q].team)' = Members(tx[q].team) /\ now' \in Nat
    BY DEF Members, TypeOK
  <2> QED  BY <2>1, ReadKept DEF Sound
<1> QED  BY <1>1, <1>2 DEF Sound

LEMMA ClockOutFollows ==
  ASSUME NEW a \in Seq(AttendanceRow), NEW t \in Nat, Follows(a, t), Len(a) > 0
  PROVE  /\ Follows([a EXCEPT ![Len(a)].out = t], t)
         /\ [a EXCEPT ![Len(a)].out = t] \in Seq(AttendanceRow)
<1> DEFINE row == [a[Len(a)] EXCEPT !.out = t]
           b == [a EXCEPT ![Len(a)] = row]
<1>1. /\ Len(a) \in 1 .. Len(a) /\ Len(a) \in Nat /\ DOMAIN a = 1 .. Len(a)
      /\ \A n \in 1 .. Len(a) : a[n] \in AttendanceRow
  OBVIOUS
<1>2. row \in AttendanceRow /\ row.out = t /\ row.in = a[Len(a)].in /\ row.in <= t
  BY <1>1 DEF AttendanceRow, Follows
<1>3. [a EXCEPT ![Len(a)].out = t] = b
  OBVIOUS
<1> HIDE DEF row
<1>4. /\ b \in Seq(AttendanceRow) /\ DOMAIN b = 1 .. Len(a) /\ b[Len(a)] = row
      /\ \A n \in 1 .. Len(a) : n # Len(a) => b[n] = a[n]
  BY <1>1, <1>2
<1> HIDE DEF b
<1>5. ASSUME NEW n \in 1 .. Len(a)
      PROVE  b[n].in = a[n].in /\ b[n].in <= t
             /\ (b[n].out = Open \/ (b[n].in <= b[n].out /\ b[n].out <= t))
  <2>1. CASE n = Len(a)
    BY <2>1, <1>2, <1>4
  <2>2. CASE n # Len(a)
    BY <2>2, <1>1, <1>4 DEF Follows
  <2> QED  BY <2>1, <2>2
<1>6. ASSUME NEW m \in 1 .. Len(a), NEW n \in 1 .. Len(a), m < n
      PROVE  b[m].out # Open /\ b[m].out <= b[n].in
  <2>1. b[m] = a[m] /\ b[n].in = a[n].in
    <3>1. ASSUME m = Len(a)
          PROVE  FALSE
      <4>1. n \in Nat /\ n <= m /\ m \in Nat
        BY <1>1, <3>1
      <4> QED  BY <4>1, <1>6
    <3> QED  BY <3>1, <1>4, <1>5
  <2>2. a[m].out # Open /\ a[m].out <= a[n].in
    BY <1>1, <1>6 DEF Follows
  <2> QED  BY <2>1, <2>2
<1> QED  BY <1>3, <1>4, <1>5, <1>6 DEF Follows

LEMMA ClockOutSound ==
  ASSUME Sound, NEW s \in Staff, ClockOut(s)
  PROVE  Sound'
<1> DEFINE b == [attendance[s] EXCEPT ![Len(attendance[s])].out = now]
<1>1. /\ attendance \in [Staff -> Seq(AttendanceRow)] /\ now \in Nat
      /\ attendance' = [attendance EXCEPT ![s] = b]
      /\ UNCHANGED <<now, enabled, member, shift, leave, job, tx>>
  BY DEF ClockOut, Sound, Types, TypeOK
<1>2. /\ attendance[s] \in Seq(AttendanceRow) /\ Len(attendance[s]) > 0
      /\ attendance[s][Len(attendance[s])].out = Open /\ Follows(attendance[s], now)
  BY <1>1 DEF ClockOut, Sound, SessionsInOrder
<1>3. Follows(b, now) /\ b \in Seq(AttendanceRow)
  BY <1>1, <1>2, ClockOutFollows
<1> HIDE DEF b
<1>4. /\ attendance' \in [Staff -> Seq(AttendanceRow)] /\ attendance'[s] = b
      /\ \A r \in Staff \ {s} : attendance'[r] = attendance[r]
  BY <1>1, <1>3
<1>5. TypeOK'
  BY <1>1, <1>4 DEF Sound, Types, TypeOK
<1>6. SessionsInOrder'
  BY <1>1, <1>3, <1>4 DEF Sound, SessionsInOrder
<1>7. ASSUME NEW q \in Session, tx[q].kind = "clock_in", ~tx[q].found
      PROVE  attendance'[tx[q].staff] = attendance[tx[q].staff]
  <2>1. Len(attendance[s]) \in DOMAIN attendance[s]
    BY <1>2
  <2>2. tx[q].staff # s
    BY <1>2, <1>7, <2>1 DEF Sound, ReadHolds
  <2>3. tx[q].staff \in Staff
    BY <1>7, Kinds DEF Sound, ClockIn
  <2> QED  BY <1>4, <2>2, <2>3
<1> QED  BY <1>1, <1>5, <1>6, <1>7, NothingRead

LEMMA TickSound ==
  ASSUME Sound, Tick
  PROVE  Sound'
<1>1. /\ now \in Nat /\ now' = now + 1 /\ attendance \in [Staff -> Seq(AttendanceRow)]
      /\ UNCHANGED <<enabled, member, attendance, shift, leave, job, tx>>
  BY DEF Tick, Sound, Types, TypeOK
<1>2. TypeOK'
  BY <1>1 DEF Sound, Types, TypeOK
<1>3. ASSUME NEW s \in Staff
      PROVE  Follows(attendance[s], now')
  <2>1. \A n \in DOMAIN attendance[s] : attendance[s][n] \in AttendanceRow
    BY <1>1
  <2> QED  BY <1>1, <2>1 DEF Sound, SessionsInOrder, Follows, AttendanceRow, Open
<1>4. SessionsInOrder'
  BY <1>1, <1>3 DEF SessionsInOrder
<1> QED  BY <1>1, <1>2, <1>4, NothingRead

LEMMA RecordsSound ==
  ASSUME Sound,
         \/ \E s \in Staff : UpdateStaffAccount(s)
         \/ \E t \in Team : UpdateTeam(t)
         \/ \E j \in Job : CompleteJob(j)
  PROVE  Sound'
<1>1. UNCHANGED <<now, member, attendance, shift, leave, tx>> /\ now \in Nat
  BY DEF UpdateStaffAccount, UpdateTeam, CompleteJob, Sound, Types, TypeOK
<1>2. enabled' \subseteq Staff \cup Team /\ job' \in [Job -> JobRow]
  <2>1. enabled \subseteq Staff \cup Team /\ job \in [Job -> JobRow]
    BY DEF Sound, Types, TypeOK
  <2>2. CASE \E s \in Staff : UpdateStaffAccount(s)
    BY <2>1, <2>2 DEF UpdateStaffAccount
  <2>3. CASE \E t \in Team : UpdateTeam(t)
    BY <2>1, <2>3 DEF UpdateTeam
  <2>4. CASE \E j \in Job : CompleteJob(j)
    BY <2>1, <2>4 DEF CompleteJob, JobRow
  <2> QED  BY <2>2, <2>3, <2>4
<1>3. TypeOK'
  BY <1>1, <1>2 DEF Sound, Types, TypeOK
<1>4. SessionsInOrder'
  BY <1>1 DEF Sound, SessionsInOrder
<1> QED  BY <1>1, <1>3, <1>4, NothingRead
-----------------------------------------------------------------------------
(* Theorems.                                                                *)

(* ... and every step keeps it ...                                          *)
THEOREM NextSound == StaffAssumption /\ Sound /\ [Next]_vars => Sound'
<1> SUFFICES ASSUME StaffAssumption, Sound, [Next]_vars
             PROVE  Sound'
  OBVIOUS
<1>1. CASE Tick
  BY <1>1, TickSound
<1>2. CASE \E p \in Session : Abort(p)
  BY <1>2, AbortSound
<1>3. CASE \E p \in Session, s \in Followed : BeginClockIn(p, s)
  BY <1>3, BeginClockInSound
<1>4. CASE \E p \in Session, s \in Followed, d \in Day,
              row \in [shift : Shift, team : Team \cup {NoTeam}] : BeginAssignShift(p, s, d, row)
  BY <1>4, BeginAssignShiftSound
<1>5. CASE \E p \in Session, t \in Team, wanted \in SUBSET Staff :
             BeginReplaceMembers(p, t, wanted)
  BY <1>5, BeginReplaceMembersSound
<1>6. CASE \E p \in Session, l \in Leave, s \in Followed, from \in Day, to \in Day :
             BeginCreateLeave(p, l, s, from, to)
  BY <1>6, BeginCreateLeaveSound
<1>7. CASE \E p \in Session, l \in Leave, d \in {"approved", "rejected"} :
             BeginReviewLeave(p, l, d)
  BY <1>7, BeginReviewLeaveSound
<1>8. CASE \E p \in Session, j \in Job, s \in Followed \cup {NoStaff}, t \in Team \cup {NoTeam} :
             BeginAssignJob(p, j, s, t)
  BY <1>8, BeginAssignJobSound
<1>9. CASE \E p \in Session : CommitClockIn(p) \/ CommitAssignShift(p) \/ CommitReplaceMembers(p)
  BY <1>9, CommitClockInSound, CommitAssignShiftSound, CommitReplaceMembersSound
<1>10. CASE \E p \in Session : CommitCreateLeave(p) \/ CommitReviewLeave(p) \/ CommitAssignJob(p)
  BY <1>10, CommitCreateLeaveSound, CommitReviewLeaveSound, CommitAssignJobSound
<1>11. CASE \E s \in Staff : ClockOut(s)
  BY <1>11, ClockOutSound
<1>12. CASE \/ \E s \in Staff : UpdateStaffAccount(s)
            \/ \E t \in Team : UpdateTeam(t)
            \/ \E j \in Job : CompleteJob(j)
  BY <1>12, RecordsSound
<1>13. CASE UNCHANGED vars
  <2>1. UNCHANGED <<now, enabled, member, attendance, shift, leave, job, tx>>
    BY <1>13 DEF vars
  <2>2. TypeOK' /\ now <= now'
    BY <2>1 DEF Sound, Types, TypeOK
  <2>3. SessionsInOrder'
    BY <2>1 DEF Sound, SessionsInOrder
  <2> QED  BY <2>1, <2>2, <2>3, NothingRead
<1> QED
  BY <1>1, <1>2, <1>3, <1>4, <1>5, <1>6, <1>7, <1>8, <1>9, <1>10, <1>11, <1>12, <1>13 DEF Next

(* ... so it holds always.                                                  *)
THEOREM AlwaysSound == Spec => []Sound
<1>1. Init => Sound
  BY InitSound, TimeAssumption
<1>2. Sound /\ [Next]_vars => Sound'
  BY NextSound, StaffAssumption
<1> QED  BY <1>1, <1>2, PTL DEF Spec

(* Every reachable state has its types, the open transactions included.     *)
THEOREM WorkforceTypes == Spec => [](TypeOK /\ tx \in [Session -> Transaction])
<1>1. Sound => TypeOK /\ tx \in [Session -> Transaction]
  BY DEF Sound, Types
<1> QED  BY <1>1, AlwaysSound, PTL

(* What a transaction has read under its locks is still so when it writes,  *)
(* for any number of sessions.                                              *)
THEOREM DecisionsAlwaysHold == Spec => []DecisionsHold
<1>1. ASSUME Sound
      PROVE  DecisionsHold
  <2> SUFFICES ASSUME NEW p \in Session
               PROVE  /\ tx[p].kind = "clock_in" /\ ~tx[p].found => ~HasOpen(tx[p].staff)
                      /\ tx[p].kind = "assign_shift" /\ ~tx[p].found =>
                           shift[<<tx[p].staff, tx[p].day>>] = NoAssignment
                      /\ tx[p].kind = "replace_members" => tx[p].read = Members(tx[p].team)
                      /\ tx[p].kind = "review_leave" => leave[tx[p].leave].status = "pending"
    BY DEF DecisionsHold
  <2> QED  BY <1>1 DEF Sound, ReadHolds, HasOpen
<1> QED  BY <1>1, AlwaysSound, PTL

(* Attendance sessions of one person follow each other and only the last    *)
(* may be open, however many devices tap at once.                           *)
THEOREM SessionsFollow == Spec => []SessionsInOrder
<1>1. Sound => SessionsInOrder
  BY DEF Sound
<1> QED  BY <1>1, AlwaysSound, PTL

(* What a person worked in sessions that follow each other is no more than  *)
(* the time that passed: each session begins when the one before has ended, *)
(* so that the first n of them fit into the time until the end of the n-th. *)
LEMMA HoursFit ==
  ASSUME NEW a \in Seq(AttendanceRow), NEW t \in Nat, Follows(a, t)
  PROVE  SumFunction([n \in DOMAIN a |-> Worked(a[n], t)]) <= t
<1>1. PICK N \in Nat : N = Len(a) /\ DOMAIN a = 1 .. N
  OBVIOUS
<1>2. PICK start : start = [n \in 1 .. N |-> a[n].in]
  OBVIOUS
<1>3. PICK end : end = [n \in 1 .. N |-> IF a[n].out = Open THEN t ELSE a[n].out]
  OBVIOUS
<1>4. ASSUME NEW n \in 1 .. N
      PROVE  start[n] \in Nat /\ end[n] \in Nat /\ start[n] <= end[n] /\ end[n] <= t
  <2>1. a[n] \in AttendanceRow
    BY <1>1
  <2>2. PICK in \in Nat, out \in Nat \cup {Open} : in = a[n].in /\ out = a[n].out
    BY <2>1 DEF AttendanceRow
  <2>3. in <= t /\ (out = Open \/ (in <= out /\ out <= t))
    BY <1>1, <2>2 DEF Follows
  <2>4. start[n] = in /\ end[n] = IF out = Open THEN t ELSE out
    BY <1>2, <1>3, <2>2
  <2> QED  BY <2>2, <2>3, <2>4
<1>5. ASSUME NEW m \in 1 .. N, NEW n \in 1 .. N, m < n
      PROVE  end[m] <= start[n]
  <2>1. a[m].out # Open /\ a[m].out <= a[n].in
    BY <1>1, <1>5 DEF Follows
  <2> QED  BY <1>2, <1>3, <2>1
<1>6. PICK f : f = [n \in 1 .. N |-> end[n] - start[n]]
  OBVIOUS
<1>7. [n \in DOMAIN a |-> Worked(a[n], t)] = f
  BY <1>1, <1>2, <1>3, <1>6 DEF Worked
<1>8. PICK sum : sum = [n \in 0 .. N |-> SumFunctionOnSet(f, 1 .. n)]
  OBVIOUS
<1>9. \A n \in 1 .. N : f[n] \in Int
  BY <1>4, <1>6
<1>10. ASSUME NEW n \in 0 .. N
       PROVE  sum[n] \in Int
  <2>1. PICK S : S = 1 .. n
    OBVIOUS
  <2>2. IsFiniteSet(S)
    <3>1. n \in Int
      OBVIOUS
    <3> QED  BY <2>1, <3>1, FS_Interval
  <2>3. \A k \in S : f[k] \in Int
    BY <1>9, <2>1
  <2> QED  BY <1>8, <2>1, <2>2, <2>3, SumType
<1>11. ASSUME NEW n \in 1 .. N
       PROVE  sum[n] = f[n] + sum[n - 1]
  <2>1. n - 1 \in 0 .. N /\ n \in 0 .. N /\ n \in Int
    OBVIOUS
  <2>2. PICK S : S = 1 .. n
    OBVIOUS
  <2>3. n \in S /\ S \ {n} = 1 .. n - 1
    BY <2>2
  <2>4. IsFiniteSet(S)
    BY <2>1, <2>2, FS_Interval
  <2>5. \A k \in S : f[k] \in Int
    BY <1>9, <2>2
  <2>6. SumFunctionOnSet(f, S) = f[n] + SumFunctionOnSet(f, S \ {n})
    BY <2>3, <2>4, <2>5, SumRemove
  <2> QED  BY <1>8, <2>1, <2>2, <2>3, <2>6
<1>12. sum[0] = 0
  <2>1. 1 .. 0 = {} /\ 0 \in 0 .. N
    OBVIOUS
  <2> QED  BY <1>8, <2>1, SumEmpty
<1>13. \A n \in 1 .. N : sum[n] <= end[n]
  <2>1. PICK P : P = {n \in Nat : n \in 1 .. N => sum[n] <= end[n]}
    OBVIOUS
  <2>2. 0 \in P
    BY <2>1
  <2>3. ASSUME NEW n \in Nat, n \in P
        PROVE  n + 1 \in P
    <3>1. CASE n + 1 \in 1 .. N
      <4>1. n \in 0 .. N /\ (n + 1) - 1 = n
        BY <3>1
      <4>2. PICK before \in Int : before = sum[n]
        BY <1>10, <4>1
      <4>3. PICK from \in Nat, until \in Nat : from = start[n + 1] /\ until = end[n + 1]
        BY <1>4, <3>1
      <4>4. sum[n + 1] = (until - from) + before
        BY <1>6, <1>11, <3>1, <4>1, <4>2, <4>3
      <4>5. before <= from
        <5>1. CASE n = 0
          BY <1>12, <4>2, <5>1
        <5>2. CASE n # 0
          <6>1. n \in 1 .. N /\ n < n + 1
            BY <4>1, <5>2
          <6>2. sum[n] <= end[n] /\ end[n] <= start[n + 1] /\ end[n] \in Nat
            BY <1>4, <1>5, <2>1, <2>3, <3>1, <6>1
          <6> QED  BY <4>2, <4>3, <6>2
        <5> QED  BY <5>1, <5>2
      <4>6. (until - from) + before <= until
        BY <4>5
      <4> QED  BY <2>1, <4>3, <4>4, <4>6
    <3>2. CASE n + 1 \notin 1 .. N
      BY <2>1, <3>2
    <3> QED  BY <3>1, <3>2
  <2>4. Nat \subseteq P
    BY <2>2, <2>3, SetOfNaturalsInduction
  <2> QED  BY <2>1, <2>4
<1>14. sum[N] <= t
  <2>1. N \in 0 .. N /\ (N # 0 => N \in 1 .. N)
    OBVIOUS
  <2>2. CASE N = 0
    BY <1>12, <2>2
  <2>3. CASE N # 0
    <3>1. sum[N] <= end[N] /\ end[N] <= t /\ end[N] \in Nat /\ sum[N] \in Int
      BY <1>4, <1>10, <1>13, <2>1, <2>3
    <3> QED  BY <3>1
  <2> QED  BY <2>2, <2>3
<1>15. SumFunction(f) = sum[N]
  <2>1. DOMAIN f = 1 .. N /\ N \in 0 .. N
    BY <1>6
  <2> QED  BY <1>8, <2>1 DEF SumFunction
<1> QED  BY <1>7, <1>14, <1>15

(* Nobody is credited two attendance sessions for one moment, and nobody    *)
(* more hours than have passed.                                             *)
THEOREM HoursNeverExceedTime == Spec => []SessionsApart
<1>1. ASSUME Sound
      PROVE  SessionsApart
  <2>1. ASSUME NEW s \in Staff
        PROVE  /\ \A m, n \in DOMAIN attendance[s] : m < n =>
                    /\ attendance[s][m].out # Open
                    /\ attendance[s][m].out <= attendance[s][n].in
               /\ HoursWorked(s, now) <= now
    <3>1. attendance[s] \in Seq(AttendanceRow) /\ now \in Nat /\ Follows(attendance[s], now)
      BY <1>1 DEF Sound, Types, TypeOK, SessionsInOrder
    <3>2. HoursWorked(s, now) <= now
      BY <3>1, HoursFit DEF HoursWorked
    <3> QED  BY <3>1, <3>2 DEF Follows
  <2> QED  BY <2>1 DEF SessionsApart
<1> QED  BY <1>1, AlwaysSound, PTL

(* After a replacement the team has exactly the members of that request.    *)
THEOREM MembersAreWanted == Spec => MembersAreTheWantedOnes
<1>1. ASSUME Sound, Sound', [Next]_vars, NEW p \in Session,
             tx[p].kind = "replace_members", member' # member, tx'[p] = Idle
      PROVE  {s \in Staff : <<tx[p].team, s>> \in member'} = tx[p].wanted
  <2>1. PICK q \in Session : CommitReplaceMembers(q)
    BY ZenonT(40), <1>1 DEF Next, vars, Tick, Abort, BeginClockIn, BeginAssignShift, BeginReplaceMembers,
             BeginCreateLeave, BeginReviewLeave, BeginAssignJob, CommitClockIn,
             CommitAssignShift, CommitCreateLeave, CommitReviewLeave, CommitAssignJob,
             ClockOut, UpdateStaffAccount, UpdateTeam, CompleteJob
  <2>2. q = p
    <3>1. \A r \in Session \ {q} : tx'[r] = tx[r]
      BY <1>1, <2>1, Others DEF CommitReplaceMembers, Sound
    <3>2. tx[p] # Idle
      BY <1>1 DEF Idle
    <3> QED  BY <1>1, <3>1, <3>2
  <2>3. PICK t \in Team : t = tx[p].team
    BY <1>1, Kinds DEF Sound, ReplaceMembers
  <2>4. Members(t)' = tx[p].wanted
    BY <1>1, <2>1, <2>2, <2>3, MembersReplaced
  <2> QED  BY <2>3, <2>4 DEF Members
<1>2. Sound /\ Sound' /\ [Next]_vars =>
        [\A p \in Session : tx[p].kind = "replace_members" /\ member' # member /\ tx'[p] = Idle =>
           {s \in Staff : <<tx[p].team, s>> \in member'} = tx[p].wanted]_vars
  BY <1>1
<1> QED  BY <1>2, AlwaysSound, PTL DEF Spec, MembersAreTheWantedOnes

(* A person is seen at work on a day exactly if a session of the day began.  *)
AtWork == {"working", "late", "clocked_out"}

SeenOnceCome ==
  \A s \in Staff, d \in Day : AttendanceCategory(s, d, now) \in AtWork <=> SessionsOf(s, d) # {}

LEMMA SeenAtWork == SeenOnceCome
<1> SUFFICES ASSUME NEW s \in Staff, NEW d \in Day
             PROVE  AttendanceCategory(s, d, now) \in AtWork <=> SessionsOf(s, d) # {}
  BY DEF SeenOnceCome
<1>1. CASE SessionsOf(s, d) = {}
  <2>1. AttendanceCategory(s, d, now)
          \in {"approved_leave", "off_today", "scheduled", "not_clocked_in", "missed"}
    BY <1>1 DEF AttendanceCategory
  <2> QED  BY <1>1, <2>1 DEF AtWork
<1>2. CASE SessionsOf(s, d) # {} /\ \E n \in SessionsOf(s, d) : attendance[s][n].out = Open
  BY <1>2 DEF AttendanceCategory, AtWork
<1>3. CASE SessionsOf(s, d) # {} /\ \A n \in SessionsOf(s, d) : attendance[s][n].out # Open
  BY <1>3 DEF AttendanceCategory, AtWork
<1> QED  BY <1>1, <1>2, <1>3

(* A session that began stays, and keeps the instant at which it began.     *)
LEMMA SessionsRemain ==
  ASSUME Sound, [Next]_vars, NEW s \in Staff, NEW n \in DOMAIN attendance[s]
  PROVE  n \in DOMAIN attendance'[s] /\ attendance'[s][n].in = attendance[s][n].in
<1>1. attendance \in [Staff -> Seq(AttendanceRow)]
  BY DEF Sound, Types, TypeOK
<1>2. CASE UNCHANGED attendance
  BY <1>2
<1>3. ASSUME NEW p \in Session, CommitClockIn(p)
      PROVE  n \in DOMAIN attendance'[s] /\ attendance'[s][n].in = attendance[s][n].in
  <2>1. CASE UNCHANGED attendance
    BY <2>1
  <2>2. CASE ~ UNCHANGED attendance
    <3>1. PICK row : row = [in |-> tx[p].at, out |-> Open]
      OBVIOUS
    <3>2. attendance' = [attendance EXCEPT ![tx[p].staff] = Append(attendance[tx[p].staff], row)]
      BY <1>3, <2>2, <3>1 DEF CommitClockIn
    <3>3. CASE tx[p].staff = s
      <4>1. attendance'[s] = Append(attendance[s], row) /\ attendance[s] \in Seq(AttendanceRow)
        BY <1>1, <3>2, <3>3
      <4>2. n \in 1 .. Len(attendance[s]) /\ DOMAIN attendance'[s] = 1 .. Len(attendance[s]) + 1
            /\ attendance'[s][n] = attendance[s][n]
        BY <4>1
      <4> QED  BY <4>2
    <3>4. CASE tx[p].staff # s
      <4>1. attendance'[s] = attendance[s]
        BY <1>1, <3>2, <3>4
      <4> QED  BY <4>1
    <3> QED  BY <3>3, <3>4
  <2> QED  BY <2>1, <2>2
<1>4. ASSUME NEW o \in Staff, ClockOut(o)
      PROVE  n \in DOMAIN attendance'[s] /\ attendance'[s][n].in = attendance[s][n].in
  <2>1. PICK k : k = Len(attendance[o])
    OBVIOUS
  <2>2. attendance' = [attendance EXCEPT ![o][k].out = now]
    BY <1>4, <2>1 DEF ClockOut
  <2>3. attendance' = [attendance EXCEPT ![o] = [attendance[o] EXCEPT ![k] =
                         [attendance[o][k] EXCEPT !.out = now]]]
    BY <2>2
  <2>4. CASE o = s
    <3>1. attendance'[s] = [attendance[s] EXCEPT ![k] = [attendance[s][k] EXCEPT !.out = now]]
      BY <1>1, <2>3, <2>4
    <3>2. DOMAIN attendance'[s] = DOMAIN attendance[s]
      BY <3>1
    <3>3. attendance[s][n] \in AttendanceRow
      BY <1>1
    <3>4. attendance'[s][n] = IF n = k THEN [attendance[s][n] EXCEPT !.out = now]
                              ELSE attendance[s][n]
      BY <3>1
    <3>5. attendance'[s][n].in = attendance[s][n].in
      BY <3>3, <3>4 DEF AttendanceRow
    <3> QED  BY <3>2, <3>5
  <2>5. CASE o # s
    <3>1. attendance'[s] = attendance[s]
      BY <1>1, <2>3, <2>5
    <3> QED  BY <3>1
  <2> QED  BY <2>4, <2>5
<1>5. UNCHANGED attendance \/ (\E p \in Session : CommitClockIn(p)) \/ \E o \in Staff : ClockOut(o)
  BY ZenonT(40)
     DEF Next, vars, Tick, Abort, BeginClockIn, BeginAssignShift, BeginReplaceMembers,
         BeginCreateLeave, BeginReviewLeave, BeginAssignJob, CommitAssignShift,
         CommitReplaceMembers, CommitCreateLeave, CommitReviewLeave, CommitAssignJob,
         UpdateStaffAccount, UpdateTeam, CompleteJob
<1> QED  BY <1>2, <1>3, <1>4, <1>5

(* Whoever was seen at work on a day is never reported absent for it later. *)
THEOREM PresenceAlwaysKept == Spec => PresenceIsKept
<1>1. ASSUME Sound, [Next]_vars, NEW s \in Staff, NEW d \in Day,
             AttendanceCategory(s, d, now) \in {"working", "late", "clocked_out"}
      PROVE  AttendanceCategory(s, d, now)' \in {"working", "late", "clocked_out"}
  <2>1. SessionsOf(s, d) # {}
    BY <1>1, SeenAtWork DEF SeenOnceCome, AtWork
  <2>2. PICK n \in DOMAIN attendance[s] : DayOf(attendance[s][n].in) = d
    BY <2>1 DEF SessionsOf
  <2>3. n \in DOMAIN attendance'[s] /\ DayOf(attendance'[s][n].in) = d
    BY <1>1, <2>2, SessionsRemain
  <2>4. SessionsOf(s, d)' # {}
    BY <2>3 DEF SessionsOf, DayOf
  <2>5. SeenOnceCome'
    BY SeenAtWork, PTL
  <2> QED  BY <2>4, <2>5 DEF SeenOnceCome, AtWork
<1>2. Sound /\ [Next]_vars =>
        [\A s \in Staff, d \in Day :
           AttendanceCategory(s, d, now) \in {"working", "late", "clocked_out"}
             => AttendanceCategory(s, d, now)' \in {"working", "late", "clocked_out"}]_vars
  BY <1>1
<1> QED  BY <1>2, AlwaysSound, PTL DEF Spec, PresenceIsKept

(* Approval and rejection of leave are final, for any number of reviewers.  *)
THEOREM LeaveDecided == Spec => LeaveDecidedOnce
<1>1. ASSUME Sound, [Next]_vars, NEW l \in Leave, leave[l].status \in {"approved", "rejected"}
      PROVE  leave'[l] = leave[l]
  <2>1. CASE \E p \in Session : CommitCreateLeave(p)
    <3>1. PICK p \in Session : CommitCreateLeave(p)
      BY <2>1
    <3>2. tx[p].leave # l /\ leave' = [leave EXCEPT ![tx[p].leave] = tx[p].row]
      BY <1>1, <3>1 DEF CommitCreateLeave, Sound, ReadHolds
    <3> QED  BY <1>1, <3>2 DEF Sound, Types, TypeOK
  <2>2. CASE \E p \in Session : CommitReviewLeave(p)
    <3>1. PICK p \in Session : CommitReviewLeave(p)
      BY <2>2
    <3>2. tx[p].leave # l /\ leave' = [leave EXCEPT ![tx[p].leave].status = tx[p].decision]
      BY <1>1, <3>1 DEF CommitReviewLeave, Sound, ReadHolds
    <3> QED  BY <1>1, <3>2 DEF Sound, Types, TypeOK
  <2>3. CASE UNCHANGED leave
    BY <2>3
  <2> QED
    BY ZenonT(40), <1>1, <2>1, <2>2, <2>3
       DEF Next, vars, Tick, Abort, BeginClockIn, BeginAssignShift, BeginReplaceMembers,
           BeginCreateLeave, BeginReviewLeave, BeginAssignJob, CommitClockIn,
           CommitAssignShift, CommitReplaceMembers, CommitAssignJob,
           ClockOut, UpdateStaffAccount, UpdateTeam, CompleteJob
<1>2. Sound /\ [Next]_vars =>
        [\A l \in Leave : leave[l].status \in {"approved", "rejected"} => leave'[l] = leave[l]]_vars
  BY <1>1
<1> QED  BY <1>2, AlwaysSound, PTL DEF Spec, LeaveDecidedOnce
=============================================================================
