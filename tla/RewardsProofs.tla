---------------------------- MODULE RewardsProofs ----------------------------
(* Proofs about Rewards, for any bookings, rewards, keys and sessions.      *)
EXTENDS Rewards, SequenceTheorems, SumTheorems

Fields ==
  {"kind", "booking", "key", "rewards", "percent", "adjustment", "asked", "held", "read", "due"}

Kind == {"idle", "create", "complete", "cash", "cancel", "review", "adjust"}

(* An open transaction.  Nothing is said of due, a quotient of sums.        *)
TxRow(t) ==
  /\ DOMAIN t = Fields
  /\ t.kind \in Kind
  /\ t.kind \notin {"idle", "adjust"} => t.booking \in Booking
  /\ t.kind = "adjust" => t.adjustment \in Adjustment
  /\ t.kind = "create" => t.key \in Key
  /\ t.rewards \subseteq Reward
  /\ t.percent \in Percent \cup {0}

Types == TypeOK /\ DOMAIN tx = Session /\ \A p \in Session : TxRow(tx[p])

(* A booking takes the lock of its key first, and nothing else before the   *)
(* row of the customer; other requests of a customer start with that row.   *)
CreateLocks(t) ==
  t.kind = "create" =>
    /\ t.held # {} => KeyLock(t.key) \in t.held
    /\ Profile \notin t.held => t.held \subseteq {KeyLock(t.key)}
    /\ t.asked => KeyLock(t.key) \in t.held
    /\ t.read => t.asked
    /\ Reference \notin t.held

OtherLocks(t) ==
  t.kind \in {"review", "adjust"} =>
    /\ Profile \notin t.held => t.held = {}
    /\ Reference \notin t.held

(* Only references to the customer are shared.                              *)
Exclusive ==
  \A p, q \in Session : p # q =>
    \A l : l \in tx[p].held /\ l \in tx[q].held => l = Reference

Locking == Exclusive /\ \A p \in Session : CreateLocks(tx[p]) /\ OtherLocks(tx[p])

(* Who has looked its key up has found no live record, and still would.     *)
LookedUp == \A p \in Session :
  tx[p].kind = "create" /\ tx[p].asked => record[tx[p].key].status # "live"

Sound == Types /\ Locking /\ LookedUp
-----------------------------------------------------------------------------
(* The next locks of a plan.                                                *)

LEMMA FirstOpen ==
  ASSUME NEW S \in SUBSET Nat, S # {}
  PROVE  Min(S) \in S /\ \A y \in S : Min(S) <= y
<1>1. \E x \in S : \A y \in S : x <= y
  BY LeastNatural
<1> QED  BY <1>1 DEF Min

(* What a request wants belongs to the first part of its plan that it does  *)
(* not hold.                                                                *)
LEMMA WantedFirst ==
  ASSUME NEW p \in Session, tx[p].kind # "idle", DOMAIN Plan(tx[p]) \subseteq Nat,
         NEW l \in Wanted(p)
  PROVE  /\ l \notin tx[p].held
         /\ \E i \in DOMAIN Plan(tx[p]) :
              /\ l \in Plan(tx[p])[i]
              /\ \A j \in DOMAIN Plan(tx[p]) : j < i => Plan(tx[p])[j] \subseteq tx[p].held
<1> DEFINE plan == Plan(tx[p])
           open == {i \in DOMAIN plan : ~(plan[i] \subseteq tx[p].held)}
<1>1. open # {} /\ l \in plan[Min(open)] \ tx[p].held
  BY DEF Wanted
<1>2. Min(open) \in open /\ \A j \in open : Min(open) <= j
  BY <1>1, FirstOpen
<1>3. ASSUME NEW j \in DOMAIN plan, j < Min(open)
      PROVE  plan[j] \subseteq tx[p].held
  <2>1. j \notin open
    BY <1>2, <1>3
  <2> QED  BY <2>1
<1> QED  BY <1>1, <1>2, <1>3

LEMMA PlanOfThree ==
  ASSUME NEW A, NEW B, NEW C, NEW plan, plan = <<A>> \o <<B, C>>
  PROVE  DOMAIN plan = 1 .. 3 /\ plan[1] = A /\ plan[2] = B /\ plan[3] = C
<1> DEFINE a == <<A>>
           b == <<B, C>>
<1>1. /\ a \in Seq({A, B, C}) /\ Len(a) = 1 /\ a[1] = A
      /\ b \in Seq({A, B, C}) /\ Len(b) = 2 /\ b[1] = B /\ b[2] = C
  OBVIOUS
<1>2. plan = a \o b
  OBVIOUS
<1> HIDE DEF a, b
<1>3. plan \in Seq({A, B, C}) /\ Len(plan) = 3
  BY <1>1, <1>2, ConcatProperties
<1>4. \A i \in 1 .. 3 : plan[i] = IF i <= 1 THEN a[i] ELSE b[i - 1]
  BY <1>1, <1>2, ConcatProperties
<1>5. DOMAIN plan = 1 .. 3
  BY <1>3
<1> QED  BY <1>1, <1>4, <1>5

(* What a request of the customer wants is the row of the customer, a lock  *)
(* that comes after it, or the key with which a booking begins.             *)
LEMMA WantedCreate ==
  ASSUME Types, NEW p \in Session, tx[p].kind = "create", NEW l \in Wanted(p)
  PROVE  /\ l \notin tx[p].held /\ l # Reference
         /\ \/ l = KeyLock(tx[p].key)
            \/ KeyLock(tx[p].key) \in tx[p].held /\ l = Profile
            \/ /\ {KeyLock(tx[p].key), Profile} \subseteq tx[p].held
               /\ \E r \in Reward : l = RewardLock(r)
<1> DEFINE t == tx[p]
           plan == Plan(t)
<1>1. t.rewards \subseteq Reward
  BY DEF Types, TxRow
<1>2. plan = CreatePlan(t)
  BY DEF Plan
<1>3. CASE t.asked
  <2>1. plan = <<{KeyLock(t.key)}>> \o <<{Profile}, Rewards(t)>>
    BY <1>2, <1>3 DEF CreatePlan, KeyPlan
  <2> HIDE DEF plan
  <2>2. /\ DOMAIN plan = 1 .. 3 /\ plan[1] = {KeyLock(t.key)}
        /\ plan[2] = {Profile} /\ plan[3] = Rewards(t)
    BY <2>1, PlanOfThree
  <2>3. PICK i \in 1 .. 3 : l \in plan[i] /\ \A j \in 1 .. 3 : j < i => plan[j] \subseteq t.held
    BY <2>2, WantedFirst DEF plan
  <2>4. l \notin t.held
    BY <2>2, WantedFirst DEF plan
  <2>5. CASE i = 1
    BY <2>2, <2>3, <2>4, <2>5 DEF KeyLock, Reference
  <2>6. CASE i = 2
    BY <2>2, <2>3, <2>4, <2>6 DEF Profile, Reference
  <2>7. CASE i = 3
    <3>1. PICK r \in Reward : l = RewardLock(r)
      BY <1>1, <2>2, <2>3, <2>7 DEF Rewards
    <3>2. l # Reference
      BY <3>1 DEF RewardLock, Reference
    <3>3. {KeyLock(t.key), Profile} \subseteq t.held
      BY <2>2, <2>3, <2>7
    <3> QED  BY <2>4, <3>1, <3>2, <3>3
  <2> QED  BY <2>3, <2>5, <2>6, <2>7
<1>4. CASE ~t.asked
  <2>1. plan = <<{KeyLock(t.key)}>>
    BY <1>2, <1>4 DEF CreatePlan, KeyPlan
  <2>2. DOMAIN plan = {1} /\ plan[1] = {KeyLock(t.key)}
    BY <2>1
  <2> HIDE DEF plan
  <2>3. DOMAIN plan \subseteq 1 .. 3
    BY <2>2
  <2>4. l \notin t.held /\ l \in plan[1]
    BY <2>2, <2>3, WantedFirst DEF plan
  <2> QED  BY <2>2, <2>4 DEF KeyLock, Reference
<1> QED  BY <1>3, <1>4

LEMMA WantedOther ==
  ASSUME Types, NEW p \in Session, tx[p].kind \in {"review", "adjust"}, NEW l \in Wanted(p)
  PROVE  /\ l \notin tx[p].held /\ l # Reference /\ \A k : l # KeyLock(k)
         /\ l = Profile \/ Profile \in tx[p].held
<1> DEFINE t == tx[p]
           plan == Plan(t)
<1>1. PICK n \in 2 .. 3 :
        /\ DOMAIN plan = 1 .. n /\ plan[1] = {Profile}
        /\ \A i \in 2 .. n : plan[i] \in {{Settings}, {BookingLock(t.booking)}}
  <2>1. CASE t.kind = "review"
    <3>1. plan = <<{Profile}, {BookingLock(t.booking)}, {Settings}>>
      BY <2>1 DEF Plan
    <3> QED  BY <3>1
  <2>2. CASE t.kind = "adjust"
    <3>1. plan = <<{Profile}, {Settings}>>
      BY <2>2 DEF Plan, AdjustPlan
    <3> QED  BY <3>1
  <2> QED  BY <2>1, <2>2
<1> HIDE DEF plan
<1>2. DOMAIN plan \subseteq Nat /\ t.kind # "idle"
  BY <1>1
<1>3. PICK i \in 1 .. n :
        l \notin t.held /\ l \in plan[i] /\ \A j \in 1 .. n : j < i => plan[j] \subseteq t.held
  BY ZenonT(40), <1>1, <1>2, WantedFirst DEF plan
<1>4. CASE i = 1
  BY <1>1, <1>3, <1>4 DEF Profile, Reference, KeyLock
<1>5. CASE i # 1
  <2>1. 1 < i /\ 1 \in 1 .. n /\ i \in 2 .. n
    BY <1>5
  <2>2. Profile \in t.held
    BY <1>1, <1>3, <2>1
  <2>3. l = Settings \/ l = BookingLock(t.booking)
    BY <1>1, <1>3, <2>1
  <2> QED  BY <1>3, <2>2, <2>3 DEF Settings, BookingLock, Reference, KeyLock
<1> QED  BY <1>4, <1>5

(* A request that wants nothing holds all of its plan.                      *)
LEMMA AllHeld ==
  ASSUME NEW p \in Session, tx[p].kind # "idle", DOMAIN Plan(tx[p]) \subseteq Nat, Wanted(p) = {}
  PROVE  \A i \in DOMAIN Plan(tx[p]) : Plan(tx[p])[i] \subseteq tx[p].held
<1> DEFINE t == tx[p]
           plan == Plan(t)
           open == {i \in DOMAIN plan : ~(plan[i] \subseteq t.held)}
<1>1. CASE open = {}
  BY <1>1
<1>2. CASE open # {}
  <2>1. Min(open) \in open
    BY <1>2, FirstOpen
  <2>2. plan[Min(open)] \ t.held = {}
    BY <1>2 DEF Wanted
  <2> QED  BY <2>1, <2>2
<1> QED  BY <1>1, <1>2

LEMMA KeyIsHeld ==
  ASSUME NEW p \in Session, tx[p].kind = "create", ~tx[p].asked, Wanted(p) = {}
  PROVE  KeyLock(tx[p].key) \in tx[p].held
<1> DEFINE plan == Plan(tx[p])
<1>1. plan = <<{KeyLock(tx[p].key)}>>
  BY DEF Plan, CreatePlan, KeyPlan
<1>2. DOMAIN plan = {1} /\ plan[1] = {KeyLock(tx[p].key)}
  BY <1>1
<1> QED  BY <1>2, AllHeld

LEMMA PlanOfSix ==
  ASSUME NEW A, NEW B, NEW C, NEW D, NEW E, NEW F, NEW plan, plan = <<A, B, C>> \o <<D, E, F>>
  PROVE  /\ DOMAIN plan = 1 .. 6 /\ plan[1] = A /\ plan[2] = B /\ plan[3] = C
         /\ plan[4] = D /\ plan[5] = E /\ plan[6] = F
<1> DEFINE a == <<A, B, C>>
           b == <<D, E, F>>
           all == {A, B, C, D, E, F}
<1>1. /\ a \in Seq(all) /\ Len(a) = 3 /\ a[1] = A /\ a[2] = B /\ a[3] = C
      /\ b \in Seq(all) /\ Len(b) = 3 /\ b[1] = D /\ b[2] = E /\ b[3] = F
  OBVIOUS
<1>2. plan = a \o b
  OBVIOUS
<1> HIDE DEF a, b, all
<1>3. plan \in Seq(all) /\ Len(plan) = 6
  BY <1>1, <1>2, ConcatProperties
<1>4. \A i \in 1 .. 6 : plan[i] = IF i <= 3 THEN a[i] ELSE b[i - 3]
  BY <1>1, <1>2, ConcatProperties
<1>5. DOMAIN plan = 1 .. 6
  BY <1>3
<1> QED  BY <1>1, <1>4, <1>5

(* A request about a job that wants nothing has the job, and who credits    *)
(* or earns has the customer and the settings.                              *)
LEMMA WorkLocks ==
  ASSUME NEW p \in Session, tx[p].kind \in {"complete", "cash", "cancel"}, Wanted(p) = {}
  PROVE  /\ JobLock(tx[p].booking) \in tx[p].held
         /\ EarnsRewards(tx[p]) => {Profile, Settings} \subseteq tx[p].held
<1> DEFINE t == tx[p]
           plan == Plan(t)
           job == {JobLock(t.booking)}
           row == {BookingLock(t.booking)}
           rewards == Rewards(booking[t.booking])
<1>1. PICK A, B, D, E, F :
        /\ plan = <<A, B, rewards>> \o <<D, E, F>>
        /\ JobLock(t.booking) \in A \cup B
        /\ EarnsRewards(t) => Profile \in E /\ Settings \in F
  <2> DEFINE d == IF WritesLedger(t) THEN {Reference} ELSE {}
             e == IF EarnsRewards(t) THEN {Profile} ELSE {}
             f == IF EarnsRewards(t) THEN {Settings} ELSE {}
  <2>1. EarnPlan(t) = <<d, e, f>> /\ (EarnsRewards(t) => Profile \in e /\ Settings \in f)
    BY DEF EarnPlan
  <2> HIDE DEF d, e, f
  <2>2. plan = <<job, row, rewards>> \o EarnPlan(t) \/ plan = <<row, job, rewards>> \o EarnPlan(t)
    BY DEF Plan
  <2> QED  BY <2>1, <2>2
<1> HIDE DEF rewards
<1>2. /\ DOMAIN plan = 1 .. 6 /\ plan[1] = A /\ plan[2] = B
      /\ plan[5] = E /\ plan[6] = F
  <2> HIDE DEF plan
  <2> QED  BY <1>1, PlanOfSix
<1>3. A \subseteq t.held /\ B \subseteq t.held /\ E \subseteq t.held /\ F \subseteq t.held
  <2>1. DOMAIN plan \subseteq Nat /\ t.kind # "idle"
    BY <1>2
  <2>2. \A i \in 1 .. 6 : plan[i] \subseteq t.held
    BY <1>2, <2>1, AllHeld
  <2> QED  BY <1>2, <2>2
<1> QED  BY <1>1, <1>3

(* A booking that wants nothing after the lookup, a review and an           *)
(* adjustment have the customer; the latter have the settings as well.      *)
LEMMA CustomerLocks ==
  ASSUME NEW p \in Session, Wanted(p) = {}
  PROVE  /\ tx[p].kind = "create" /\ tx[p].asked => Profile \in tx[p].held
         /\ tx[p].kind \in {"review", "adjust"} => {Profile, Settings} \subseteq tx[p].held
<1> DEFINE t == tx[p]
           plan == Plan(t)
           row == {BookingLock(t.booking)}
<1>1. CASE t.kind = "create" /\ t.asked
  <2>1. plan = <<{KeyLock(t.key)}>> \o <<{Profile}, Rewards(t)>>
    BY <1>1 DEF Plan, CreatePlan, KeyPlan
  <2>2. DOMAIN plan = 1 .. 3 /\ plan[2] = {Profile}
    <3> HIDE DEF plan
    <3> QED  BY <2>1, PlanOfThree
  <2>3. DOMAIN plan \subseteq Nat /\ 2 \in DOMAIN plan
    BY <2>2
  <2> QED  BY <1>1, <2>2, <2>3, AllHeld
<1>2. CASE t.kind = "review"
  <2>1. plan = <<{Profile}, row, {Settings}>>
    BY <1>2 DEF Plan
  <2>2. DOMAIN plan = 1 .. 3 /\ plan[1] = {Profile} /\ plan[3] = {Settings}
    BY <2>1
  <2>3. DOMAIN plan \subseteq Nat /\ 1 \in DOMAIN plan /\ 3 \in DOMAIN plan
    BY <2>2
  <2> QED  BY <1>2, <2>2, <2>3, AllHeld
<1>3. CASE t.kind = "adjust"
  <2>1. plan = <<{Profile}, {Settings}>>
    BY <1>3 DEF Plan, AdjustPlan
  <2>2. DOMAIN plan = 1 .. 2 /\ plan[1] = {Profile} /\ plan[2] = {Settings}
    BY <2>1
  <2>3. DOMAIN plan \subseteq Nat /\ 1 \in DOMAIN plan /\ 2 \in DOMAIN plan
    BY <2>2
  <2> QED  BY <1>3, <2>2, <2>3, AllHeld
<1> QED  BY <1>1, <1>2, <1>3
-----------------------------------------------------------------------------
(* Steps of one session.                                                    *)

TablesOK ==
  /\ settings \in [enabled : BOOLEAN, required : Required]
  /\ changes \in 0 .. MaxChanges
  /\ booking \in [Booking -> BookingRow]
  /\ reward \in [Reward -> RewardRow]
  /\ log \subseteq SourceKey
  /\ record \in [Key -> [status : {"none", "live", "expired"}, booking : Booking \cup {None}]]

LEMMA TypesSplit == Types <=> TablesOK /\ DOMAIN tx = Session /\ \A p \in Session : TxRow(tx[p])
  BY DEF Types, TypeOK, TablesOK, TxRow, Kind

LEMMA TxChanged ==
  ASSUME DOMAIN tx = Session, NEW p \in Session, NEW t, tx' = [tx EXCEPT ![p] = t]
  PROVE  DOMAIN tx' = Session /\ tx'[p] = t /\ \A q \in Session \ {p} : tx'[q] = tx[q]
  OBVIOUS

LEMMA IdleRow ==
  /\ TxRow(Idle) /\ CreateLocks(Idle) /\ OtherLocks(Idle)
  /\ Idle.held = {} /\ Idle.kind = "idle"
  BY DEF Idle, Request, TxRow, Fields, Kind, CreateLocks, OtherLocks

(* What a step of one session must keep.                                    *)
LEMMA StepSound ==
  ASSUME Sound, NEW p \in Session, NEW t, tx' = [tx EXCEPT ![p] = t], TablesOK',
         TxRow(t), CreateLocks(t), OtherLocks(t),
         \A q \in Session \ {p}, l \in t.held \ tx[p].held : l # Reference => l \notin tx[q].held,
         t.kind = "create" /\ t.asked => record'[t.key].status # "live",
         \A q \in Session \ {p} :
           tx[q].kind = "create" /\ tx[q].asked => record'[tx[q].key].status # "live"
  PROVE  Sound'
<1>1. DOMAIN tx' = Session /\ tx'[p] = t /\ \A q \in Session \ {p} : tx'[q] = tx[q]
  BY TxChanged DEF Sound, Types
<1>2. Types'
  <2>1. \A q \in Session : TxRow(tx'[q])
    BY <1>1 DEF Sound, Types
  <2>2. TypeOK'
    BY <2>1 DEF TablesOK, TypeOK, TxRow, Kind
  <2>3. \A q \in Session : TxRow(tx[q])'
    BY <2>1 DEF TxRow
  <2> QED  BY <1>1, <2>2, <2>3 DEF Types
<1>3. Exclusive'
  <2> SUFFICES ASSUME NEW q \in Session, NEW r \in Session, q # r, NEW l,
                      l # Reference, l \in tx'[q].held, l \in tx'[r].held
               PROVE  FALSE
    BY DEF Exclusive, Reference
  <2>1. ~(l \in tx[q].held /\ l \in tx[r].held)
    BY DEF Sound, Locking, Exclusive
  <2>2. CASE q = p
    BY <2>1, <2>2, <1>1
  <2>3. CASE r = p
    BY <2>1, <2>3, <1>1
  <2>4. CASE q # p /\ r # p
    BY <2>1, <2>4, <1>1
  <2> QED  BY <2>2, <2>3, <2>4
<1>4. ASSUME NEW q \in Session
      PROVE  CreateLocks(tx[q])' /\ OtherLocks(tx[q])'
  <2>1. CASE q = p
    BY <2>1, <1>1 DEF CreateLocks, OtherLocks, KeyLock, Profile, Reference
  <2>2. CASE q # p
    <3>1. tx'[q] = tx[q] /\ CreateLocks(tx[q]) /\ OtherLocks(tx[q])
      BY <2>2, <1>1 DEF Sound, Locking
    <3> QED  BY <3>1 DEF CreateLocks, OtherLocks, KeyLock, Profile, Reference
  <2> QED  BY <2>1, <2>2
<1>5. LookedUp'
  BY <1>1 DEF LookedUp
<1> QED  BY <1>2, <1>3, <1>4, <1>5 DEF Sound, Locking

(* A step that leaves the sessions and the live records alone.              *)
LEMMA TablesSound ==
  ASSUME Sound, UNCHANGED tx, TablesOK',
         \A k \in Key : record'[k].status = "live" => record[k].status = "live"
  PROVE  Sound'
<1>1. Types'
  <2>1. \A q \in Session : TxRow(tx[q]) /\ tx'[q] = tx[q]
    BY DEF Sound, Types
  <2>2. TypeOK'
    BY <2>1 DEF TablesOK, TypeOK, TxRow, Kind
  <2>3. \A q \in Session : TxRow(tx[q])'
    BY <2>1 DEF TxRow
  <2> QED  BY <2>2, <2>3 DEF Sound, Types
<1>2. Locking'
  BY DEF Sound, Locking, Exclusive, CreateLocks, OtherLocks, KeyLock, Profile, Reference
<1>3. LookedUp'
  BY DEF Sound, LookedUp, Types, TxRow
<1> QED  BY <1>1, <1>2, <1>3 DEF Sound

(* The inductive invariant holds in the beginning ...                       *)
THEOREM InitSound == ProgrammeAssumption /\ Init => Sound
<1> SUFFICES ASSUME ProgrammeAssumption, Init
             PROVE  Sound
  OBVIOUS
<1>1. TablesOK
  <2>1. booking \in [Booking -> BookingRow]
    BY DEF Init, NotBooked, BookingRow
  <2>2. reward \in [Reward -> RewardRow]
    BY DEF Init, NoReward, RewardRow
  <2>3. changes \in 0 .. MaxChanges
    BY DEF Init, ProgrammeAssumption
  <2>4. settings \in [enabled : BOOLEAN, required : Required]
    BY DEF Init
  <2> QED  BY <2>1, <2>2, <2>3, <2>4 DEF Init, TablesOK
<1>2. DOMAIN tx = Session /\ \A p \in Session : tx[p] = Idle
  BY DEF Init
<1>3. Types
  BY <1>1, <1>2, IdleRow, TypesSplit
<1>4. Locking /\ LookedUp
  BY <1>2, IdleRow DEF Locking, Exclusive, LookedUp
<1> QED  BY <1>3, <1>4 DEF Sound
-----------------------------------------------------------------------------
(* Requests begin, lock, read and are given up.                             *)

LEMMA TablesKept ==
  ASSUME Sound, UNCHANGED <<settings, changes, tables>>
  PROVE  TablesOK' /\ UNCHANGED record
  BY TypesSplit DEF Sound, TablesOK, tables

LEMMA RecordsKept ==
  ASSUME Sound, UNCHANGED record
  PROVE  \A q \in Session :
           tx[q].kind = "create" /\ tx[q].asked => record'[tx[q].key].status # "live"
  BY DEF Sound, LookedUp

LEMMA BeginSound ==
  ASSUME Sound, NEW p \in Session, NEW t, Begin(p, t), TxRow(t),
         t.held = {}, ~t.asked, ~t.read
  PROVE  Sound'
<1>1. tx' = [tx EXCEPT ![p] = t] /\ UNCHANGED <<settings, changes, tables>>
  BY DEF Begin
<1>2. CreateLocks(t) /\ OtherLocks(t)
  BY DEF CreateLocks, OtherLocks
<1> QED  BY <1>1, <1>2, TablesKept, RecordsKept, StepSound

LEMMA BeginsSound ==
  ASSUME Sound, NEW p \in Session, Begins(p)
  PROVE  Sound'
<1>1. CASE \E b \in Booking, k \in Key, rewards \in SUBSET Rewarded, percent \in Percent \cup {0} :
             BeginCreate(p, k, b, rewards, percent)
  <2>1. PICK b \in Booking, k \in Key, rewards \in SUBSET Rewarded, percent \in Percent \cup {0} :
               BeginCreate(p, k, b, rewards, percent)
    BY <1>1
  <2> DEFINE r == Request("create", b)
             r1 == [r EXCEPT !.key = k]
             r2 == [r1 EXCEPT !.rewards = rewards]
             t == [r2 EXCEPT !.percent = percent]
  <2>2. Begin(p, t)
    BY <2>1 DEF BeginCreate
  <2>3. /\ DOMAIN r = Fields /\ r.kind = "create" /\ r.booking = b /\ r.held = {}
        /\ ~r.asked /\ ~r.read
    BY DEF Request, Fields
  <2> HIDE DEF r
  <2>4. /\ DOMAIN r1 = Fields /\ r1.kind = "create" /\ r1.booking = b /\ r1.held = {}
        /\ ~r1.asked /\ ~r1.read /\ r1.key = k
    BY <2>3 DEF Fields
  <2> HIDE DEF r1
  <2>5. /\ DOMAIN r2 = Fields /\ r2.kind = "create" /\ r2.booking = b /\ r2.held = {}
        /\ ~r2.asked /\ ~r2.read /\ r2.key = k /\ r2.rewards = rewards
    BY <2>4 DEF Fields
  <2> HIDE DEF r2
  <2>6. /\ DOMAIN t = Fields /\ t.kind = "create" /\ t.booking = b /\ t.held = {}
        /\ ~t.asked /\ ~t.read /\ t.key = k /\ t.rewards = rewards /\ t.percent = percent
    BY <2>5 DEF Fields
  <2> HIDE DEF t
  <2>7. TxRow(t)
    BY <2>6 DEF TxRow, Kind, Rewarded
  <2> QED  BY <2>2, <2>6, <2>7, BeginSound
<1>2. CASE \E b \in Booking :
             BeginComplete(p, b) \/ BeginCash(p, b) \/ BeginCancel(p, b) \/ BeginReview(p, b)
  <2>1. PICK b \in Booking, kind \in {"complete", "cash", "cancel", "review"} :
               Begin(p, Request(kind, b))
    BY <1>2 DEF BeginComplete, BeginCash, BeginCancel, BeginReview
  <2> DEFINE t == Request(kind, b)
  <2>2. TxRow(t) /\ t.held = {} /\ ~t.asked /\ ~t.read
    BY DEF Request, TxRow, Fields, Kind
  <2> HIDE DEF t
  <2> QED  BY <2>1, <2>2, BeginSound DEF t
<1>3. CASE \E a \in Adjustment : BeginAdjust(p, a)
  <2>1. PICK a \in Adjustment : BeginAdjust(p, a)
    BY <1>3
  <2> DEFINE r == Request("adjust", None)
             t == [r EXCEPT !.adjustment = a]
  <2>2. Begin(p, t)
    BY <2>1 DEF BeginAdjust
  <2>3. /\ DOMAIN r = Fields /\ r.kind = "adjust" /\ r.held = {} /\ r.rewards = {}
        /\ r.percent = 0 /\ ~r.asked /\ ~r.read
    BY DEF Request, Fields
  <2> HIDE DEF r
  <2>4. /\ DOMAIN t = Fields /\ t.kind = "adjust" /\ t.held = {} /\ t.rewards = {}
        /\ t.percent = 0 /\ ~t.asked /\ ~t.read /\ t.adjustment = a
    BY <2>3 DEF Fields
  <2> HIDE DEF t
  <2>5. TxRow(t)
    BY <2>4 DEF TxRow, Kind
  <2> QED  BY <2>2, <2>4, <2>5, BeginSound
<1> QED  BY <1>1, <1>2, <1>3 DEF Begins

LEMMA LockSound ==
  ASSUME Sound, NEW p \in Session, Lock(p)
  PROVE  Sound'
<1>1. PICK l \in Wanted(p) : /\ \A q \in Session \ {p} : ~Blocks(q, l)
                             /\ tx' = [tx EXCEPT ![p].held = @ \cup {l}]
                             /\ UNCHANGED <<settings, changes, tables>>
  BY DEF Lock
<1> DEFINE t == [tx[p] EXCEPT !.held = @ \cup {l}]
<1>2. tx' = [tx EXCEPT ![p] = t]
  BY <1>1
<1>3. /\ TxRow(tx[p]) /\ CreateLocks(tx[p]) /\ OtherLocks(tx[p]) /\ Types
  BY DEF Sound, Types, Locking
<1>4. /\ t.held = tx[p].held \cup {l} /\ t.kind = tx[p].kind /\ t.key = tx[p].key
      /\ t.asked = tx[p].asked /\ t.read = tx[p].read
  BY <1>3 DEF TxRow, Fields
<1>5. TxRow(t)
  BY <1>3 DEF TxRow, Fields
<1> HIDE DEF t
<1>6. CreateLocks(t)
  <2> SUFFICES ASSUME t.kind = "create"
               PROVE  CreateLocks(t)
    BY DEF CreateLocks
  <2>1. /\ l # Reference
        /\ \/ l = KeyLock(tx[p].key)
           \/ KeyLock(tx[p].key) \in tx[p].held /\ l = Profile
           \/ {KeyLock(tx[p].key), Profile} \subseteq tx[p].held
    BY <1>3, <1>4, WantedCreate
  <2>2. KeyLock(tx[p].key) \in t.held /\ Reference \notin t.held
    BY <1>3, <1>4, <2>1 DEF CreateLocks
  <2>3. ASSUME Profile \notin t.held
        PROVE  t.held \subseteq {KeyLock(t.key)}
    BY <1>3, <1>4, <2>1, <2>3 DEF CreateLocks
  <2> QED  BY <1>3, <1>4, <2>2, <2>3 DEF CreateLocks
<1>7. OtherLocks(t)
  <2> SUFFICES ASSUME t.kind \in {"review", "adjust"}
               PROVE  OtherLocks(t)
    BY DEF OtherLocks
  <2>1. l # Reference /\ (l = Profile \/ Profile \in tx[p].held)
    BY <1>3, <1>4, WantedOther
  <2> QED  BY <1>3, <1>4, <2>1 DEF OtherLocks
<1>8. \A q \in Session \ {p}, m \in t.held \ tx[p].held : m # Reference => m \notin tx[q].held
  BY <1>1, <1>4 DEF Blocks, Conflict
<1>9. TablesOK' /\ UNCHANGED record
  BY <1>1, TablesKept
<1>10. t.kind = "create" /\ t.asked => record'[t.key].status # "live"
  BY <1>4, <1>9 DEF Sound, LookedUp
<1> QED  BY <1>2, <1>5, <1>6, <1>7, <1>8, <1>9, <1>10, RecordsKept, StepSound

LEMMA AbortSound ==
  ASSUME Sound, NEW p \in Session, Abort(p)
  PROVE  Sound'
<1>1. tx' = [tx EXCEPT ![p] = Idle] /\ UNCHANGED <<settings, changes, tables>>
  BY DEF Abort
<1> QED  BY <1>1, IdleRow, TablesKept, RecordsKept, StepSound

LEMMA FindRecordSound ==
  ASSUME Sound, NEW p \in Session, FindRecord(p)
  PROVE  Sound'
<1>1. /\ tx[p].kind = "create" /\ ~tx[p].asked /\ Wanted(p) = {}
      /\ record[tx[p].key].status # "live"
      /\ tx' = [tx EXCEPT ![p].asked = TRUE] /\ UNCHANGED <<settings, changes, tables>>
  BY DEF FindRecord
<1> DEFINE t == [tx[p] EXCEPT !.asked = TRUE]
<1>2. tx' = [tx EXCEPT ![p] = t]
  BY <1>1
<1>3. TxRow(tx[p]) /\ CreateLocks(tx[p]) /\ Types
  BY DEF Sound, Types, Locking
<1>4. /\ t.held = tx[p].held /\ t.kind = "create" /\ t.key = tx[p].key
      /\ t.asked /\ t.read = tx[p].read
  BY <1>1, <1>3 DEF TxRow, Fields
<1>5. TxRow(t)
  BY <1>3 DEF TxRow, Fields
<1> HIDE DEF t
<1>6. KeyLock(tx[p].key) \in tx[p].held
  BY <1>1, <1>3, KeyIsHeld
<1>7. CreateLocks(t) /\ OtherLocks(t)
  BY <1>1, <1>3, <1>4, <1>6 DEF CreateLocks, OtherLocks
<1>8. TablesOK' /\ UNCHANGED record
  BY <1>1, TablesKept
<1>9. record'[t.key].status # "live"
  BY <1>1, <1>4, <1>8
<1>10. \A l : l \notin t.held \ tx[p].held
  BY <1>4
<1> QED  BY <1>2, <1>5, <1>7, <1>8, <1>9, <1>10, RecordsKept, StepSound

LEMMA ReadsSound ==
  ASSUME Sound, NEW p \in Session, NEW kind, NEW credits, Reads(p, kind, credits),
         kind = "create" => tx[p].asked
  PROVE  Sound'
<1> DEFINE r == [tx[p] EXCEPT !.read = TRUE]
           t == [r EXCEPT !.due = Due(credits)]
<1>1. tx[p].kind = kind /\ UNCHANGED <<settings, changes, tables>>
  BY DEF Reads
<1>2. tx' = [tx EXCEPT ![p] = t]
  BY DEF Reads
<1>3. TxRow(tx[p]) /\ CreateLocks(tx[p]) /\ OtherLocks(tx[p])
  BY DEF Sound, Types, Locking
<1>4. /\ r.held = tx[p].held /\ r.kind = tx[p].kind /\ r.key = tx[p].key
      /\ r.asked = tx[p].asked
  BY <1>3 DEF TxRow, Fields
<1>5. TxRow(r)
  BY <1>3 DEF TxRow, Fields
<1> HIDE DEF r
<1>6. /\ t.held = tx[p].held /\ t.kind = tx[p].kind /\ t.key = tx[p].key
      /\ t.asked = tx[p].asked
  BY <1>4, <1>5 DEF TxRow, Fields
<1>7. TxRow(t)
  BY <1>5 DEF TxRow, Fields
<1> HIDE DEF t
<1>8. CreateLocks(t) /\ OtherLocks(t)
  BY <1>1, <1>3, <1>6 DEF CreateLocks, OtherLocks
<1>9. TablesOK' /\ UNCHANGED record
  BY <1>1, TablesKept
<1>10. t.kind = "create" /\ t.asked => record'[t.key].status # "live"
  BY <1>6, <1>9 DEF Sound, LookedUp
<1> QED  BY <1>2, <1>6, <1>7, <1>8, <1>9, <1>10, RecordsKept, StepSound
-----------------------------------------------------------------------------
(* Requests write.                                                          *)

LEMMA WritesSound ==
  ASSUME Sound, NEW p \in Session, tx' = [tx EXCEPT ![p] = Idle], TablesOK', UNCHANGED record
  PROVE  Sound'
  BY IdleRow, RecordsKept, StepSound

LEMMA EarnType ==
  ASSUME ProgrammeAssumption, TablesOK, NEW rewards \in [Reward -> RewardRow], NEW n
  PROVE  Earn(rewards, n) \in [Reward -> RewardRow] /\ EarnKeys(n) \subseteq SourceKey
<1>1. settings.required \in Nat
  BY DEF TablesOK, ProgrammeAssumption
<1>2. [status |-> "available", booking |-> None, required |-> settings.required] \in RewardRow
  BY <1>1 DEF RewardRow
<1>3. Fresh(n) \subseteq Reward
  BY DEF Fresh
<1>4. Earn(rewards, n) \in [Reward -> RewardRow]
  BY <1>2 DEF Earn
<1>5. EarnKeys(n) \subseteq SourceKey
  <2>1. \A r \in Reward : Earned(r) \in SourceKey
    BY DEF SourceKey
  <2> QED  BY <1>3, <2>1 DEF EarnKeys
<1> QED  BY <1>4, <1>5

LEMMA RedeemedType ==
  ASSUME TablesOK, NEW b \in Booking
  PROVE  /\ RedeemedRewards(b) \in [Reward -> RewardRow]
         /\ {Redeemed(r) : r \in ReservedBy(b)} \subseteq SourceKey
         /\ Credit(b) \subseteq SourceKey
<1>1. \A r \in Reward : reward[r] \in RewardRow
  BY DEF TablesOK
<1>2. \A r \in Reward : [reward[r] EXCEPT !.status = "redeemed"] \in RewardRow
  BY <1>1 DEF RewardRow
<1>3. RedeemedRewards(b) \in [Reward -> RewardRow]
  BY <1>1, <1>2 DEF RedeemedRewards
<1>4. ReservedBy(b) \subseteq Reward
  BY DEF ReservedBy, TablesOK, BookingRow
<1>5. {Redeemed(r) : r \in ReservedBy(b)} \subseteq SourceKey
  BY <1>4 DEF SourceKey
<1>6. Credit(b) \subseteq SourceKey
  BY DEF Credit, SourceKey
<1> QED  BY <1>3, <1>5, <1>6

LEMMA CommitCreateSound ==
  ASSUME Sound, NEW p \in Session, CommitCreate(p)
  PROVE  Sound'
<1> DEFINE t == tx[p]
           b == t.booking
<1>1. /\ t.kind = "create" /\ t.read /\ tx' = [tx EXCEPT ![p] = Idle]
      /\ UNCHANGED <<settings, changes>>
  BY DEF CommitCreate, Writes
<1>2. /\ TxRow(t) /\ TablesOK /\ b \in Booking /\ t.key \in Key
      /\ KeyLock(t.key) \in t.held
  BY <1>1, TypesSplit DEF Sound, TxRow, Locking, CreateLocks
<1>3. booking' \in [Booking -> BookingRow]
  <2> DEFINE paid == Total(b, t.rewards, t.percent) = 0
             row == [status |-> "confirmed", job |-> "open", request |-> "none",
                     rewards |-> t.rewards, percent |-> t.percent, paid |-> paid,
                     reviewed |-> FALSE]
  <2>1. booking' = [booking EXCEPT ![b] = row]
    BY DEF CommitCreate
  <2>2. paid \in BOOLEAN
    OBVIOUS
  <2> HIDE DEF paid
  <2>3. row \in BookingRow
    BY <1>2, <2>2 DEF TxRow, BookingRow
  <2> HIDE DEF row
  <2> QED  BY <1>2, <2>1, <2>3 DEF TablesOK
<1>4. reward' \in [Reward -> RewardRow]
  <2>1. ASSUME NEW r \in Reward
        PROVE  [reward[r] EXCEPT !.status = "reserved", !.booking = b] \in RewardRow
    <3> DEFINE one == [reward[r] EXCEPT !.status = "reserved"]
    <3>1. one \in RewardRow
      BY <1>2 DEF TablesOK, RewardRow
    <3> HIDE DEF one
    <3>2. [one EXCEPT !.booking = b] \in RewardRow
      BY <1>2, <3>1 DEF RewardRow
    <3> QED  BY <3>2 DEF one
  <2>2. \A r \in Reward : reward[r] \in RewardRow
    BY <1>2 DEF TablesOK
  <2>3. reward' = [r \in Reward |->
                     IF r \in t.rewards
                     THEN [reward[r] EXCEPT !.status = "reserved", !.booking = b] ELSE reward[r]]
    BY DEF CommitCreate
  <2> QED  BY <2>1, <2>2, <2>3
<1>5. log' \subseteq SourceKey
  <2>1. log' = log \cup {Reserved(r, b) : r \in t.rewards}
    BY DEF CommitCreate
  <2>2. \A r \in t.rewards : Reserved(r, b) \in SourceKey
    BY <1>2 DEF TxRow, SourceKey
  <2> QED  BY <1>2, <2>1, <2>2 DEF TablesOK
<1>6. /\ record' = [record EXCEPT ![t.key] = [status |-> "live", booking |-> b]]
      /\ record' \in [Key -> [status : {"none", "live", "expired"}, booking : Booking \cup {None}]]
      /\ \A k \in Key \ {t.key} : record'[k] = record[k]
  BY <1>2 DEF CommitCreate, TablesOK
<1>7. TablesOK'
  BY <1>1, <1>2, <1>3, <1>4, <1>5, <1>6 DEF TablesOK
<1>8. ASSUME NEW q \in Session \ {p}, tx[q].kind = "create", tx[q].asked
      PROVE  record'[tx[q].key].status # "live"
  <2>1. KeyLock(tx[q].key) \in tx[q].held /\ tx[q].key \in Key
    BY <1>8 DEF Sound, Locking, CreateLocks, Types, TxRow
  <2>2. tx[q].key # t.key
    BY <1>2, <2>1 DEF Sound, Locking, Exclusive, KeyLock, Reference
  <2> QED  BY <1>6, <1>8, <2>1, <2>2 DEF Sound, LookedUp
<1> QED  BY <1>1, <1>7, <1>8, IdleRow, StepSound

(* A write of the row of a booking, and of the rewards and keys it makes.   *)
LEMMA BookingWritten ==
  ASSUME Sound, NEW p \in Session, NEW kind, Writes(p, kind), NEW b \in Booking,
         NEW row \in BookingRow, booking' = [booking EXCEPT ![b] = row],
         reward' \in [Reward -> RewardRow], log' \subseteq SourceKey, UNCHANGED record
  PROVE  Sound'
<1>1. tx' = [tx EXCEPT ![p] = Idle] /\ UNCHANGED <<settings, changes>>
  BY DEF Writes
<1>2. TablesOK
  BY TypesSplit DEF Sound
<1>3. booking' \in [Booking -> BookingRow]
  BY <1>2 DEF TablesOK
<1>4. TablesOK'
  BY <1>1, <1>2, <1>3 DEF TablesOK
<1> QED  BY <1>1, <1>4, WritesSound

LEMMA BookingOf ==
  ASSUME Sound, NEW p \in Session, NEW kind, Writes(p, kind), kind \notin {"idle", "adjust"}
  PROVE  TablesOK /\ tx[p].booking \in Booking /\ booking[tx[p].booking] \in BookingRow
<1>1. TablesOK /\ TxRow(tx[p])
  BY TypesSplit DEF Sound
<1>2. tx[p].booking \in Booking
  BY <1>1 DEF Writes, TxRow
<1> QED  BY <1>1, <1>2 DEF TablesOK

LEMMA CommitCompleteSound ==
  ASSUME ProgrammeAssumption, Sound, NEW p \in Session, CommitComplete(p)
  PROVE  Sound'
<1> DEFINE t == tx[p]
           b == t.booking
           n == IF EarnsRewards(t) THEN t.due ELSE 0
           r1 == [booking[b] EXCEPT !.status = "completed"]
           row == [r1 EXCEPT !.job = "completed"]
<1>1. /\ Writes(p, "complete") /\ UNCHANGED record
      /\ booking' = [booking EXCEPT ![b] = row]
      /\ reward' = Earn(RedeemedRewards(b), n)
      /\ log' = log \cup {Redeemed(r) : r \in ReservedBy(b)} \cup EarnKeys(n)
  BY DEF CommitComplete
<1> HIDE DEF n
<1>2. TablesOK /\ b \in Booking /\ booking[b] \in BookingRow
  BY <1>1, BookingOf
<1>3. r1 \in BookingRow
  BY <1>2 DEF BookingRow
<1> HIDE DEF r1
<1>4. row \in BookingRow
  BY <1>3 DEF BookingRow
<1> HIDE DEF row
<1>5. reward' \in [Reward -> RewardRow]
  BY <1>1, <1>2, EarnType, RedeemedType
<1>6. EarnKeys(n) \subseteq SourceKey
  BY <1>2, EarnType, RedeemedType
<1>7. log' \subseteq SourceKey
  BY <1>1, <1>2, <1>6, RedeemedType DEF TablesOK
<1> QED  BY <1>1, <1>2, <1>4, <1>5, <1>7, BookingWritten

LEMMA CommitCashSound ==
  ASSUME ProgrammeAssumption, Sound, NEW p \in Session, CommitCash(p)
  PROVE  Sound'
<1> DEFINE t == tx[p]
           b == t.booking
           n == t.due
           row == [booking[b] EXCEPT !.paid = TRUE]
<1>1. /\ Writes(p, "cash") /\ UNCHANGED record
      /\ booking' = [booking EXCEPT ![b] = row]
      /\ reward' = Earn(RedeemedRewards(b), n)
      /\ log' = log \cup {Redeemed(r) : r \in ReservedBy(b)} \cup Credit(b) \cup EarnKeys(n)
  BY DEF CommitCash
<1> HIDE DEF n
<1>2. TablesOK /\ b \in Booking /\ booking[b] \in BookingRow
  BY <1>1, BookingOf
<1>3. row \in BookingRow
  BY <1>2 DEF BookingRow
<1> HIDE DEF row
<1>4. reward' \in [Reward -> RewardRow]
  BY <1>1, <1>2, EarnType, RedeemedType
<1>5. EarnKeys(n) \subseteq SourceKey
  BY <1>2, EarnType, RedeemedType
<1>6. log' \subseteq SourceKey
  BY <1>1, <1>2, <1>5, RedeemedType DEF TablesOK
<1> QED  BY <1>1, <1>2, <1>3, <1>4, <1>6, BookingWritten

LEMMA CommitCancelSound ==
  ASSUME Sound, NEW p \in Session, CommitCancel(p)
  PROVE  Sound'
<1> DEFINE b == tx[p].booking
           r1 == [booking[b] EXCEPT !.status = "cancelled"]
           r2 == [r1 EXCEPT !.job = "cancelled"]
           row == [r2 EXCEPT !.request = "reviewed"]
<1>1. /\ Writes(p, "cancel") /\ UNCHANGED record
      /\ booking' = [booking EXCEPT ![b] = row]
      /\ reward' = [r \in Reward |->
                      IF r \in Releasable(b)
                      THEN [reward[r] EXCEPT !.status = "available", !.booking = None]
                      ELSE reward[r]]
      /\ log' = log \cup {Released(r, b) : r \in Releasable(b)}
  BY DEF CommitCancel
<1>2. TablesOK /\ b \in Booking /\ booking[b] \in BookingRow
  BY <1>1, BookingOf
<1>3. r1 \in BookingRow
  BY <1>2 DEF BookingRow
<1> HIDE DEF r1
<1>4. r2 \in BookingRow
  BY <1>3 DEF BookingRow
<1> HIDE DEF r2
<1>5. row \in BookingRow
  BY <1>4 DEF BookingRow
<1> HIDE DEF row
<1>6. reward' \in [Reward -> RewardRow]
  <2>1. ASSUME NEW r \in Reward
        PROVE  [reward[r] EXCEPT !.status = "available", !.booking = None] \in RewardRow
    <3> DEFINE one == [reward[r] EXCEPT !.status = "available"]
    <3>1. one \in RewardRow
      BY <1>2 DEF TablesOK, RewardRow
    <3> HIDE DEF one
    <3>2. [one EXCEPT !.booking = None] \in RewardRow
      BY <3>1 DEF RewardRow
    <3> QED  BY <3>2 DEF one
  <2>2. \A r \in Reward : reward[r] \in RewardRow
    BY <1>2 DEF TablesOK
  <2> QED  BY <1>1, <2>1, <2>2
<1>7. log' \subseteq SourceKey
  <2>1. \A r \in Releasable(b) : Released(r, b) \in SourceKey
    BY <1>2 DEF Releasable, SourceKey
  <2> QED  BY <1>1, <1>2, <2>1 DEF TablesOK
<1> QED  BY <1>1, <1>2, <1>5, <1>6, <1>7, BookingWritten

LEMMA CommitRefusalSound ==
  ASSUME Sound, NEW p \in Session, CommitRefusal(p)
  PROVE  Sound'
<1> DEFINE b == tx[p].booking
           r1 == [booking[b] EXCEPT !.status = "confirmed"]
           row == [r1 EXCEPT !.request = "none"]
<1>1. /\ Writes(p, "cancel") /\ UNCHANGED <<reward, log, record>>
      /\ booking' = [booking EXCEPT ![b] = row]
  BY DEF CommitRefusal
<1>2. TablesOK /\ b \in Booking /\ booking[b] \in BookingRow
  BY <1>1, BookingOf
<1>3. r1 \in BookingRow
  BY <1>2 DEF BookingRow
<1> HIDE DEF r1
<1>4. row \in BookingRow
  BY <1>3 DEF BookingRow
<1> HIDE DEF row
<1>5. reward' \in [Reward -> RewardRow] /\ log' \subseteq SourceKey
  BY <1>1, <1>2 DEF TablesOK
<1> QED  BY <1>1, <1>2, <1>4, <1>5, BookingWritten

LEMMA CommitReviewSound ==
  ASSUME ProgrammeAssumption, Sound, NEW p \in Session, CommitReview(p)
  PROVE  Sound'
<1> DEFINE b == tx[p].booking
           n == IF Bonus \in log THEN 0 ELSE tx[p].due
           row == [booking[b] EXCEPT !.reviewed = TRUE]
<1>1. /\ Writes(p, "review") /\ UNCHANGED record
      /\ booking' = [booking EXCEPT ![b] = row]
      /\ reward' = Earn(reward, n)
      /\ log' = log \cup {Bonus} \cup EarnKeys(n)
  BY DEF CommitReview
<1> HIDE DEF n
<1>2. TablesOK /\ b \in Booking /\ booking[b] \in BookingRow
  BY <1>1, BookingOf
<1>3. row \in BookingRow
  BY <1>2 DEF BookingRow
<1> HIDE DEF row
<1>4. reward \in [Reward -> RewardRow]
  BY <1>2 DEF TablesOK
<1>5. reward' \in [Reward -> RewardRow] /\ EarnKeys(n) \subseteq SourceKey
  BY <1>1, <1>2, <1>4, EarnType
<1>6. log' \subseteq SourceKey
  <2>1. Bonus \in SourceKey
    BY DEF SourceKey
  <2> QED  BY <1>1, <1>2, <1>5, <2>1 DEF TablesOK
<1> QED  BY <1>1, <1>2, <1>3, <1>5, <1>6, BookingWritten

LEMMA CommitAdjustSound ==
  ASSUME ProgrammeAssumption, Sound, NEW p \in Session, CommitAdjust(p)
  PROVE  Sound'
<1> DEFINE a == tx[p].adjustment
           n == tx[p].due
<1>1. /\ Writes(p, "adjust") /\ UNCHANGED <<booking, record>>
      /\ reward' = Earn(reward, n)
      /\ log' = log \cup {Adjusted(a)} \cup EarnKeys(n)
  BY DEF CommitAdjust
<1> HIDE DEF n
<1>2. /\ tx[p].kind = "adjust" /\ tx' = [tx EXCEPT ![p] = Idle]
      /\ UNCHANGED <<settings, changes>>
  BY <1>1 DEF Writes
<1>3. TablesOK /\ TxRow(tx[p])
  BY TypesSplit DEF Sound
<1>4. reward \in [Reward -> RewardRow] /\ Adjusted(a) \in SourceKey
  BY <1>2, <1>3 DEF TablesOK, TxRow, SourceKey
<1>5. reward' \in [Reward -> RewardRow] /\ EarnKeys(n) \subseteq SourceKey
  BY <1>1, <1>3, <1>4, EarnType
<1>6. log' \subseteq SourceKey
  BY <1>1, <1>3, <1>4, <1>5 DEF TablesOK
<1>7. TablesOK'
  BY <1>1, <1>2, <1>3, <1>5, <1>6 DEF TablesOK
<1> QED  BY <1>1, <1>2, <1>7, WritesSound
-----------------------------------------------------------------------------
(* Steps, and what always holds.                                            *)

LEMMA StepsSound ==
  ASSUME ProgrammeAssumption, Sound, NEW p \in Session, Steps(p)
  PROVE  Sound'
<1>1. CASE Lock(p) \/ Abort(p) \/ FindRecord(p)
  BY <1>1, LockSound, AbortSound, FindRecordSound
<1>2. CASE ReadCreate(p)
  <2>1. Reads(p, "create", 0) /\ tx[p].asked
    BY <1>2 DEF ReadCreate
  <2> QED  BY <2>1, ReadsSound
<1>3. CASE ReadSettlement(p)
  <2>1. Reads(p, "complete", Credits) \/ Reads(p, "cash", CreditsWith(Credit(tx[p].booking)))
    BY <1>3 DEF ReadSettlement
  <2>2. CASE Reads(p, "complete", Credits)
    <3> DEFINE credits == Credits
    <3>1. Reads(p, "complete", credits)
      BY <2>2
    <3> HIDE DEF credits
    <3> QED  BY <3>1, ReadsSound
  <2>3. CASE Reads(p, "cash", CreditsWith(Credit(tx[p].booking)))
    <3> DEFINE credits == CreditsWith(Credit(tx[p].booking))
    <3>1. Reads(p, "cash", credits)
      BY <2>3
    <3> HIDE DEF credits
    <3> QED  BY <3>1, ReadsSound
  <2> QED  BY <2>1, <2>2, <2>3
<1>4. CASE ReadCancel(p)
  <2>1. Reads(p, "cancel", 0)
    BY <1>4 DEF ReadCancel
  <2> QED  BY <2>1, ReadsSound
<1>5. CASE ReadReview(p)
  <2> DEFINE credits == CreditsWith({Bonus})
  <2>1. Reads(p, "review", credits)
    BY <1>5 DEF ReadReview
  <2> HIDE DEF credits
  <2> QED  BY <2>1, ReadsSound
<1>6. CASE ReadAdjust(p)
  <2> DEFINE credits == CreditsWith({Adjusted(tx[p].adjustment)})
  <2>1. Reads(p, "adjust", credits)
    BY <1>6 DEF ReadAdjust
  <2> HIDE DEF credits
  <2> QED  BY <2>1, ReadsSound
<1>7. CASE CommitCreate(p) \/ CommitComplete(p) \/ CommitCash(p)
  BY <1>7, CommitCreateSound, CommitCompleteSound, CommitCashSound
<1>8. CASE CommitCancel(p) \/ CommitRefusal(p) \/ CommitReview(p) \/ CommitAdjust(p)
  BY <1>8, CommitCancelSound, CommitRefusalSound, CommitReviewSound, CommitAdjustSound
<1> QED  BY <1>1, <1>2, <1>3, <1>4, <1>5, <1>6, <1>7, <1>8 DEF Steps

LEMMA BookingStepSound ==
  ASSUME Sound, NEW b \in Booking, RequestCancellation(b) \/ GuestReview(b)
  PROVE  Sound'
<1>1. TablesOK /\ booking[b] \in BookingRow
  BY TypesSplit DEF Sound, TablesOK
<1>2. \/ booking' = [booking EXCEPT ![b].request = "requested"]
      \/ booking' = [booking EXCEPT ![b].reviewed = TRUE]
  BY DEF RequestCancellation, GuestReview
<1>3. booking' \in [Booking -> BookingRow]
  <2> DEFINE asked == [booking[b] EXCEPT !.request = "requested"]
             reviewed == [booking[b] EXCEPT !.reviewed = TRUE]
  <2>1. booking' = [booking EXCEPT ![b] = asked] \/ booking' = [booking EXCEPT ![b] = reviewed]
    BY <1>2
  <2>2. asked \in BookingRow /\ reviewed \in BookingRow
    BY <1>1 DEF BookingRow
  <2> HIDE DEF asked, reviewed
  <2> QED  BY <1>1, <2>1, <2>2 DEF TablesOK
<1>4. UNCHANGED <<settings, changes, reward, log, record, tx>>
  BY DEF RequestCancellation, GuestReview
<1>5. TablesOK'
  BY <1>1, <1>3, <1>4 DEF TablesOK
<1> QED  BY <1>4, <1>5, TablesSound

LEMMA ExpireRecordSound ==
  ASSUME Sound, NEW k \in Key, ExpireRecord(k)
  PROVE  Sound'
<1>1. TablesOK
  BY TypesSplit DEF Sound
<1>2. /\ record' = [record EXCEPT ![k].status = "expired"]
      /\ UNCHANGED <<settings, changes, booking, reward, log, tx>>
  BY DEF ExpireRecord
<1>3. TablesOK' /\ \A j \in Key : record'[j].status = "live" => record[j].status = "live"
  BY <1>1, <1>2 DEF TablesOK
<1> QED  BY <1>2, <1>3, TablesSound

LEMMA UpdateSettingsSound ==
  ASSUME ProgrammeAssumption, Sound,
         NEW enabled \in BOOLEAN, NEW required \in Required, UpdateSettings(enabled, required)
  PROVE  Sound'
<1>1. TablesOK
  BY TypesSplit DEF Sound
<1>2. /\ changes < MaxChanges /\ changes' = changes + 1
      /\ settings' = [enabled |-> enabled, required |-> required]
      /\ UNCHANGED <<tables, tx>>
  BY DEF UpdateSettings
<1>3. changes' \in 0 .. MaxChanges
  BY <1>1, <1>2 DEF TablesOK, ProgrammeAssumption
<1>4. TablesOK' /\ UNCHANGED record
  BY <1>1, <1>2, <1>3 DEF TablesOK, tables
<1> QED  BY <1>2, <1>4, TablesSound

LEMMA NextSound ==
  ASSUME ProgrammeAssumption, Sound, [Next]_vars
  PROVE  Sound'
<1>1. CASE \E p \in Session : Begins(p) \/ Steps(p)
  BY <1>1, BeginsSound, StepsSound
<1>2. CASE \E b \in Booking : RequestCancellation(b) \/ GuestReview(b)
  BY <1>2, BookingStepSound
<1>3. CASE \E k \in Key : ExpireRecord(k)
  BY <1>3, ExpireRecordSound
<1>4. CASE \E enabled \in BOOLEAN, required \in Required : UpdateSettings(enabled, required)
  BY <1>4, UpdateSettingsSound
<1>5. CASE UNCHANGED vars
  <2>1. UNCHANGED <<settings, changes, tables>> /\ UNCHANGED tx
    BY <1>5 DEF vars
  <2> QED  BY <2>1, TablesKept, TablesSound
<1> QED  BY <1>1, <1>2, <1>3, <1>4, <1>5 DEF Next

(* ... so it holds always.                                                  *)
THEOREM AlwaysSound == Spec => []Sound
<1>1. Init => Sound
  BY InitSound, ProgrammeAssumption
<1>2. Sound /\ [Next]_vars => Sound'
  BY NextSound, ProgrammeAssumption
<1> QED  BY <1>1, <1>2, PTL DEF Spec

(* The tables and the requests have their types.                            *)
THEOREM RewardsTypes == Spec => []TypeOK
<1>1. Sound => TypeOK
  BY DEF Sound, Types
<1> QED  BY <1>1, AlwaysSound, PTL

(* A repeated request is answered with what the first one made: whoever     *)
(* comes to write under a key has found no live record, and none came since,*)
(* for the lock of the key is held from the lookup to the end.              *)
THEOREM RepetitionsAnswered == Spec => []RepetitionIsAnswered
<1>1. Sound => RepetitionIsAnswered
  BY DEF Sound, Locking, CreateLocks, LookedUp, RepetitionIsAnswered
<1> QED  BY <1>1, AlwaysSound, PTL

(* What blocks a request of the customer in another is a lock both want.    *)
LEMMA BlockingIsSharing ==
  ASSUME Sound, NEW q \in Session, OfCustomer(q), NEW l, l # Reference, Blocks(q, l)
  PROVE  l \in tx[q].held
<1>1. Reference \notin tx[q].held
  BY DEF Sound, Locking, CreateLocks, OtherLocks, OfCustomer
<1> QED  BY <1>1 DEF Blocks, Conflict, Profile, Reference

(* Who holds something and waits for another request of the customer waits  *)
(* for the row of the customer.                                             *)
LEMMA WaitsForProfile ==
  ASSUME Sound, NEW p \in Session, NEW q \in Session, OfCustomer(p), OfCustomer(q),
         tx[p].held # {}, NEW l \in Wanted(p), Blocks(q, l)
  PROVE  Profile \in tx[q].held
<1> SUFFICES ASSUME Profile \notin tx[q].held
             PROVE  FALSE
  OBVIOUS
<1>1. l # Reference /\ l \notin tx[p].held
  BY WantedCreate, WantedOther DEF Sound, OfCustomer
<1>2. l \in tx[q].held
  BY <1>1, BlockingIsSharing
<1>3. l = KeyLock(tx[q].key)
  BY <1>2 DEF Sound, Locking, CreateLocks, OtherLocks, OfCustomer
<1>4. CASE tx[p].kind = "create"
  <2>1. KeyLock(tx[p].key) \in tx[p].held
    BY <1>4 DEF Sound, Locking, CreateLocks
  <2>2. l = Profile \/ \E r \in Reward : l = RewardLock(r)
    BY <1>1, <1>4, <2>1, WantedCreate DEF Sound
  <2> QED  BY <1>3, <2>2 DEF KeyLock, Profile, RewardLock
<1>5. CASE tx[p].kind \in {"review", "adjust"}
  BY <1>3, <1>5, WantedOther DEF Sound
<1> QED  BY <1>4, <1>5 DEF OfCustomer

(* Bookings, reviews and adjustments never wait for each other in a circle: *)
(* both would wait for the row of the customer and hold it.                 *)
THEOREM CustomersNeverDeadlock == Spec => []CustomerNeverDeadlocks
<1>1. ASSUME Sound
      PROVE  CustomerNeverDeadlocks
  <2> SUFFICES ASSUME NEW p \in Session, NEW q \in Session, OfCustomer(p), OfCustomer(q),
                      Waits(p, q), Waits(q, p)
               PROVE  FALSE
    BY DEF CustomerNeverDeadlocks
  <2>1. p # q /\ tx[p].held # {} /\ tx[q].held # {}
    BY DEF Waits, Blocks
  <2>2. PICK l \in Wanted(p) : Blocks(q, l)
    BY DEF Waits
  <2>3. PICK m \in Wanted(q) : Blocks(p, m)
    BY DEF Waits
  <2>4. Profile \in tx[q].held
    BY <1>1, <2>1, <2>2, WaitsForProfile
  <2>5. Profile \in tx[p].held
    BY <1>1, <2>1, <2>3, WaitsForProfile
  <2> QED  BY <1>1, <2>1, <2>4, <2>5 DEF Sound, Locking, Exclusive, Profile, Reference
<1> QED  BY <1>1, AlwaysSound, PTL
-----------------------------------------------------------------------------
(* The ledger.                                                              *)

(* The bookings that hold a reward, as the ledger tells.                    *)
Holders(r) == {b \in Booking : Reserved(r, b) \in log /\ Released(r, b) \notin log}

(* LedgerExplainsRewards for one reward.                                    *)
RewardSound(r) ==
  /\ reward[r].status # "none" <=> Earned(r) \in log
  /\ reward[r].status = "redeemed" <=> Redeemed(r) \in log
  /\ reward[r].status \in {"none", "available"} => Holders(r) = {} /\ reward[r].booking = None
  /\ reward[r].status \in {"reserved", "redeemed"} => Holders(r) = {reward[r].booking}
  /\ reward[r].status = "reserved" =>
       booking[reward[r].booking].job = "open" /\ r \in booking[reward[r].booking].rewards

(* A booking whose work is open has its rewards, and one whose work is done *)
(* has used them.  What is paid before the work has no lines that count.    *)
BookingSound(b) ==
  /\ booking[b].status = "none" =>
       /\ booking[b].job = "open" /\ booking[b].request = "none"
       /\ ~booking[b].paid /\ booking[b].rewards = {}
       /\ \A r \in Reward : Reserved(r, b) \notin log /\ Released(r, b) \notin log
  /\ Qualifying(b) \in log <=>
       booking[b].paid /\ booking[b].job # "open" /\ QualifyingLines(b) > 0
  /\ booking[b].paid /\ booking[b].job = "open" => ~(QualifyingLines(b) > 0)
  /\ \A r \in booking[b].rewards :
       /\ booking[b].job = "open" => reward[r].status = "reserved" /\ reward[r].booking = b
       /\ booking[b].job = "completed" => reward[r].status = "redeemed"

(* What a request was told is still so when it writes.                      *)
Informed(t) ==
  /\ t.kind \in {"complete", "cash", "cancel"} =>
       booking[t.booking].status # "none" /\ (t.read => JobLock(t.booking) \in t.held)
  /\ t.kind = "complete" /\ t.read => booking[t.booking].job = "open"
  /\ t.kind = "cash" /\ t.read => booking[t.booking].job = "completed"
  /\ t.kind = "create" /\ t.read =>
       Profile \in t.held /\ \A r \in t.rewards : reward[r].status = "available"

Ledger ==
  /\ \A b \in Booking : BookingSound(b)
  /\ \A r \in Reward : RewardSound(r)
  /\ \A p \in Session : Informed(tx[p])

(* The keys of the ledger differ.                                           *)
LEMMA Tags ==
  /\ \A b : Qualifying(b)[1] = "qualifying" /\ Qualifying(b)[2] = b
  /\ Bonus[1] = "first-review-bonus"
  /\ \A a : Adjusted(a)[1] = "manual" /\ Adjusted(a)[2] = a
  /\ \A r : Earned(r)[1] = "reward-earned" /\ Earned(r)[2] = r
  /\ \A r : Redeemed(r)[1] = "reward-redeemed" /\ Redeemed(r)[2] = r
  /\ \A r, b : /\ Reserved(r, b)[1] = "reward-reserved"
               /\ Reserved(r, b)[2] = r /\ Reserved(r, b)[3] = b
  /\ \A r, b : /\ Released(r, b)[1] = "reward-released"
               /\ Released(r, b)[2] = r /\ Released(r, b)[3] = b
BY DEF Qualifying, Bonus, Adjusted, Earned, Redeemed, Reserved, Released

LEMMA FreshAreNew ==
  ASSUME NEW n
  PROVE  Fresh(n) \subseteq {r \in Reward : reward[r].status = "none"}
BY DEF Fresh, Rewarded

LEMMA EarnTakes ==
  ASSUME NEW rewards, NEW n, NEW r \in Reward
  PROVE  /\ r \in Fresh(n) => Earn(rewards, n)[r].status = "available" /\ Earn(rewards, n)[r].booking = None
         /\ r \notin Fresh(n) => Earn(rewards, n)[r] = rewards[r]
BY DEF Earn

LEMMA RedeemTakes ==
  ASSUME TablesOK, NEW b, NEW r \in Reward
  PROVE  /\ r \in ReservedBy(b) =>
              /\ RedeemedRewards(b)[r].status = "redeemed"
              /\ RedeemedRewards(b)[r].booking = reward[r].booking
         /\ r \notin ReservedBy(b) => RedeemedRewards(b)[r] = reward[r]
<1>1. reward[r] \in RewardRow
  BY DEF TablesOK
<1> QED  BY <1>1 DEF RedeemedRewards, RewardRow

LEMMA LinesKept ==
  ASSUME NEW b, booking'[b].rewards = booking[b].rewards, booking'[b].percent = booking[b].percent
  PROVE  QualifyingLines(b)' = QualifyingLines(b)
BY DEF QualifyingLines

LEMMA ReadsTakes ==
  ASSUME Sound, NEW p \in Session, NEW kind, NEW credits, Reads(p, kind, credits)
  PROVE  /\ tx'[p].kind = kind /\ tx[p].kind = kind /\ Wanted(p) = {}
         /\ tx'[p].booking = tx[p].booking /\ tx'[p].rewards = tx[p].rewards
         /\ tx'[p].held = tx[p].held /\ tx'[p].read /\ tx'[p].due = Due(credits)
         /\ tx'[p].adjustment = tx[p].adjustment
         /\ \A q \in Session \ {p} : tx'[q] = tx[q]
         /\ UNCHANGED <<settings, changes, tables>>
<1> DEFINE due == Due(credits)
           r == [tx[p] EXCEPT !.read = TRUE]
           t == [r EXCEPT !.due = due]
<1>1. /\ tx[p].kind = kind /\ Wanted(p) = {} /\ UNCHANGED <<settings, changes, tables>>
      /\ tx' = [tx EXCEPT ![p] = t]
  BY DEF Reads
<1>2. TxRow(tx[p]) /\ DOMAIN tx = Session
  BY DEF Sound, Types
<1>3. tx'[p] = t /\ \A q \in Session \ {p} : tx'[q] = tx[q]
  BY <1>1, <1>2, TxChanged
<1>4. /\ DOMAIN r = Fields /\ r.kind = tx[p].kind /\ r.booking = tx[p].booking
      /\ r.rewards = tx[p].rewards /\ r.held = tx[p].held /\ r.read
      /\ r.adjustment = tx[p].adjustment
  BY <1>2 DEF TxRow, Fields
<1> HIDE DEF r, due
<1>5. /\ t.kind = tx[p].kind /\ t.booking = tx[p].booking
      /\ t.rewards = tx[p].rewards /\ t.held = tx[p].held /\ t.read /\ t.due = due
      /\ t.adjustment = tx[p].adjustment
  BY <1>4 DEF Fields
<1> HIDE DEF t
<1> QED  BY <1>1, <1>3, <1>5 DEF due

(* A step of one session that leaves the tables alone.                      *)
LEMMA SessionLedger ==
  ASSUME Ledger, NEW p \in Session, UNCHANGED <<booking, reward, log>>,
         \A q \in Session \ {p} : tx'[q] = tx[q], Informed(tx[p])'
  PROVE  Ledger'
<1>1. ASSUME NEW b \in Booking
      PROVE  BookingSound(b)'
  <2>1. QualifyingLines(b)' = QualifyingLines(b) /\ BookingSound(b)
    BY LinesKept DEF Ledger
  <2> QED  BY <2>1 DEF BookingSound
<1>2. ASSUME NEW r \in Reward
      PROVE  RewardSound(r)'
  <2>1. Holders(r)' = Holders(r) /\ RewardSound(r)
    BY DEF Holders, Ledger
  <2> QED  BY <2>1 DEF RewardSound
<1>3. ASSUME NEW q \in Session
      PROVE  Informed(tx[q])'
  <2>1. CASE q = p
    BY <2>1
  <2>2. CASE q # p
    <3>1. tx'[q] = tx[q] /\ Informed(tx[q])
      BY <2>2 DEF Ledger
    <3> QED  BY <3>1 DEF Informed
  <2> QED  BY <2>1, <2>2
<1> QED  BY <1>1, <1>2, <1>3 DEF Ledger

LEMMA InitLedger == ProgrammeAssumption /\ Init => Ledger
<1> SUFFICES ASSUME ProgrammeAssumption, Init
             PROVE  Ledger
  OBVIOUS
<1>1. \A b \in Booking : BookingSound(b)
  BY DEF Init, NotBooked, BookingSound
<1>2. \A r \in Reward : RewardSound(r)
  BY DEF Init, NoReward, RewardSound, Holders
<1>3. \A p \in Session : Informed(tx[p])
  BY IdleRow DEF Init, Informed
<1> QED  BY <1>1, <1>2, <1>3 DEF Ledger

LEMMA BeginTakes ==
  ASSUME Sound, NEW p \in Session, NEW t, Begin(p, t)
  PROVE  /\ tx'[p] = t /\ \A q \in Session \ {p} : tx'[q] = tx[q]
         /\ UNCHANGED <<settings, changes, tables>>
<1>1. DOMAIN tx = Session
  BY DEF Sound, Types
<1> QED  BY <1>1, TxChanged DEF Begin

LEMMA BeginsLedger ==
  ASSUME Sound, Ledger, NEW p \in Session, Begins(p)
  PROVE  Ledger'
<1>1. CASE \E b \in Booking, k \in Key, rewards \in SUBSET Rewarded, percent \in Percent \cup {0} :
             BeginCreate(p, k, b, rewards, percent)
  <2>1. PICK b \in Booking, k \in Key, rewards \in SUBSET Rewarded, percent \in Percent \cup {0} :
               BeginCreate(p, k, b, rewards, percent)
    BY <1>1
  <2> DEFINE t == [Request("create", b) EXCEPT !.key = k, !.rewards = rewards, !.percent = percent]
  <2>2. Begin(p, t)
    BY <2>1 DEF BeginCreate
  <2>3. t.kind = "create" /\ ~t.read
    BY DEF Request
  <2> HIDE DEF t
  <2>4. tx'[p].kind = "create" /\ ~tx'[p].read
    BY <2>2, <2>3, BeginTakes
  <2>5. Informed(tx[p])'
    BY <2>4 DEF Informed
  <2> QED  BY <2>2, <2>5, BeginTakes, SessionLedger DEF tables
<1>2. CASE \E b \in Booking :
             BeginComplete(p, b) \/ BeginCash(p, b) \/ BeginCancel(p, b) \/ BeginReview(p, b)
  <2>1. PICK b \in Booking, kind \in {"complete", "cash", "cancel", "review"} :
          Begin(p, Request(kind, b)) /\ (kind # "review" => booking[b].status # "none")
    <3>1. PICK b \in Booking :
            BeginComplete(p, b) \/ BeginCash(p, b) \/ BeginCancel(p, b) \/ BeginReview(p, b)
      BY <1>2
    <3>2. BookingSound(b)
      BY DEF Ledger
    <3> QED  BY <3>1, <3>2 DEF BeginComplete, BeginCash, BeginCancel, BeginReview, BookingSound
  <2> DEFINE t == Request(kind, b)
  <2>2. t.kind = kind /\ ~t.read /\ t.booking = b
    BY DEF Request
  <2> HIDE DEF t
  <2>3. /\ tx'[p].kind = kind /\ ~tx'[p].read /\ tx'[p].booking = b
        /\ UNCHANGED <<booking, reward, log>>
    BY <2>1, <2>2, BeginTakes DEF t, tables
  <2>4. Informed(tx[p])'
    BY <2>1, <2>3 DEF Informed
  <2> QED  BY <2>1, <2>3, <2>4, BeginTakes, SessionLedger
<1>3. CASE \E a \in Adjustment : BeginAdjust(p, a)
  <2>1. PICK a \in Adjustment : BeginAdjust(p, a)
    BY <1>3
  <2> DEFINE t == [Request("adjust", None) EXCEPT !.adjustment = a]
  <2>2. Begin(p, t)
    BY <2>1 DEF BeginAdjust
  <2>3. t.kind = "adjust"
    BY DEF Request
  <2> HIDE DEF t
  <2>4. tx'[p].kind = "adjust"
    BY <2>2, <2>3, BeginTakes
  <2>5. Informed(tx[p])'
    BY <2>4 DEF Informed
  <2> QED  BY <2>2, <2>5, BeginTakes, SessionLedger DEF tables
<1> QED  BY <1>1, <1>2, <1>3 DEF Begins

LEMMA LockLedger ==
  ASSUME Sound, Ledger, NEW p \in Session, Lock(p) \/ Abort(p) \/ FindRecord(p)
  PROVE  Ledger'
<1>1. /\ TxRow(tx[p]) /\ CreateLocks(tx[p]) /\ DOMAIN tx = Session /\ Informed(tx[p])
  BY DEF Sound, Types, Locking, Ledger
<1>2. PICK t : /\ tx' = [tx EXCEPT ![p] = t]
               /\ t.kind # "idle" => /\ t.kind = tx[p].kind /\ t.booking = tx[p].booking
                                     /\ t.rewards = tx[p].rewards /\ tx[p].held \subseteq t.held
                                     /\ t.read => tx[p].read
  <2>1. CASE Lock(p)
    <3>1. PICK l : tx' = [tx EXCEPT ![p].held = @ \cup {l}]
      BY <2>1 DEF Lock
    <3> DEFINE t == [tx[p] EXCEPT !.held = @ \cup {l}]
    <3>2. tx' = [tx EXCEPT ![p] = t]
      BY <3>1
    <3>3. /\ t.kind = tx[p].kind /\ t.booking = tx[p].booking /\ t.rewards = tx[p].rewards
          /\ tx[p].held \subseteq t.held /\ t.read = tx[p].read
      BY <1>1 DEF TxRow, Fields
    <3> HIDE DEF t
    <3> QED  BY <3>2, <3>3
  <2>2. CASE Abort(p)
    BY <2>2, IdleRow DEF Abort
  <2>3. CASE FindRecord(p)
    <3> DEFINE t == [tx[p] EXCEPT !.asked = TRUE]
    <3>1. tx' = [tx EXCEPT ![p] = t]
      BY <2>3 DEF FindRecord
    <3>2. /\ t.kind = tx[p].kind /\ t.booking = tx[p].booking /\ t.rewards = tx[p].rewards
          /\ t.held = tx[p].held /\ t.read = tx[p].read
      BY <1>1 DEF TxRow, Fields
    <3> HIDE DEF t
    <3> QED  BY <3>1, <3>2
  <2> QED  BY <2>1, <2>2, <2>3
<1>3. tx'[p] = t /\ \A q \in Session \ {p} : tx'[q] = tx[q]
  BY <1>1, <1>2, TxChanged
<1>4. UNCHANGED <<booking, reward, log>>
  BY DEF Lock, Abort, FindRecord, tables
<1>5. Informed(tx[p])'
  BY <1>1, <1>2, <1>3, <1>4 DEF Informed
<1> QED  BY <1>3, <1>4, <1>5, SessionLedger

LEMMA ReadsLedger ==
  ASSUME Sound, Ledger, NEW p \in Session,
         ReadCreate(p) \/ ReadSettlement(p) \/ ReadCancel(p) \/ ReadReview(p) \/ ReadAdjust(p)
  PROVE  Ledger'
<1>1. Informed(tx[p])
  BY DEF Ledger
<1>2. PICK kind, credits :
        /\ Reads(p, kind, credits)
        /\ kind = "create" => /\ tx[p].asked
                              /\ \A r \in tx[p].rewards : reward[r].status = "available"
        /\ kind = "complete" => booking[tx[p].booking].job = "open"
        /\ kind = "cash" => booking[tx[p].booking].job = "completed"
        /\ kind \in {"create", "complete", "cash", "cancel", "review", "adjust"}
  <2>1. CASE ReadCreate(p)
    BY <2>1 DEF ReadCreate
  <2>2. CASE ReadSettlement(p)
    BY <2>2 DEF ReadSettlement
  <2>3. CASE ReadCancel(p)
    BY <2>3 DEF ReadCancel
  <2>4. CASE ReadReview(p)
    BY <2>4 DEF ReadReview
  <2>5. CASE ReadAdjust(p)
    BY <2>5 DEF ReadAdjust
  <2> QED  BY <2>1, <2>2, <2>3, <2>4, <2>5
<1>3. /\ tx'[p].kind = kind /\ tx[p].kind = kind /\ Wanted(p) = {}
      /\ tx'[p].booking = tx[p].booking /\ tx'[p].rewards = tx[p].rewards
      /\ tx'[p].held = tx[p].held
      /\ \A q \in Session \ {p} : tx'[q] = tx[q]
      /\ UNCHANGED <<booking, reward, log>>
  BY <1>2, ReadsTakes DEF tables
<1>4. CASE kind \in {"complete", "cash", "cancel"}
  <2>1. JobLock(tx[p].booking) \in tx[p].held
    BY <1>3, <1>4, WorkLocks
  <2>2. Informed(tx[p])'
    BY <1>1, <1>2, <1>3, <1>4, <2>1 DEF Informed
  <2> QED  BY <1>3, <2>2, SessionLedger
<1>5. CASE kind = "create"
  <2>1. Profile \in tx[p].held
    BY <1>2, <1>3, <1>5, CustomerLocks
  <2>2. Informed(tx[p])'
    BY <1>2, <1>3, <1>5, <2>1 DEF Informed
  <2> QED  BY <1>3, <2>2, SessionLedger
<1>6. CASE kind \in {"review", "adjust"}
  <2>1. Informed(tx[p])'
    BY <1>3, <1>6 DEF Informed
  <2> QED  BY <1>3, <2>1, SessionLedger
<1> QED  BY <1>2, <1>4, <1>5, <1>6

(* What a write leaves to the other requests.                               *)
LEMMA OthersInformed ==
  ASSUME Sound, Ledger, NEW p \in Session, NEW q \in Session \ {p}, tx'[q] = tx[q],
         \A c \in Booking : /\ booking'[c].status = "none" => booking[c].status = "none"
                            /\ booking'[c].job # booking[c].job => JobLock(c) \in tx[p].held,
         \A r \in Reward : reward[r].status = "available" =>
                             reward'[r].status = "available" \/ Profile \in tx[p].held
  PROVE  Informed(tx[q])'
<1> DEFINE t == tx[q]
<1>1. Informed(t) /\ TxRow(t)
  BY DEF Ledger, Sound, Types
<1>2. \A l : l \in tx[p].held /\ l \in t.held => l = Reference
  BY DEF Sound, Locking, Exclusive
<1>3. CASE t.kind \in {"complete", "cash", "cancel"}
  <2>1. t.booking \in Booking
    BY <1>1, <1>3 DEF TxRow
  <2>2. JobLock(t.booking) # Reference
    BY DEF JobLock, Reference
  <2>3. t.read => booking'[t.booking].job = booking[t.booking].job
    BY <1>1, <1>2, <1>3, <2>1, <2>2 DEF Informed
  <2> QED  BY <1>1, <1>3, <2>1, <2>3 DEF Informed
<1>4. CASE t.kind = "create"
  <2>1. t.rewards \subseteq Reward /\ Profile # Reference
    BY <1>1 DEF TxRow, Profile, Reference
  <2> QED  BY <1>1, <1>2, <1>4, <2>1 DEF Informed
<1>5. CASE t.kind \notin {"complete", "cash", "cancel", "create"}
  BY <1>5 DEF Informed
<1> QED  BY <1>3, <1>4, <1>5

LEMMA WriteLedger ==
  ASSUME Sound, NEW p \in Session, tx' = [tx EXCEPT ![p] = Idle],
         \A b \in Booking : BookingSound(b)', \A r \in Reward : RewardSound(r)',
         \A q \in Session \ {p} : tx'[q] = tx[q] => Informed(tx[q])'
  PROVE  Ledger'
<1>1. tx'[p] = Idle /\ \A q \in Session \ {p} : tx'[q] = tx[q]
  <2>1. DOMAIN tx = Session
    BY DEF Sound, Types
  <2> QED  BY <2>1, TxChanged
<1>2. Informed(tx[p])'
  BY <1>1, IdleRow DEF Informed
<1>3. \A q \in Session : Informed(tx[q])'
  BY <1>1, <1>2
<1> QED  BY <1>3 DEF Ledger

(* What costs nothing has no line that counts.                              *)
LEMMA FreeHasNoLines ==
  ASSUME ProgrammeAssumption, NEW b \in Booking, NEW rewards \in SUBSET Reward,
         NEW percent \in Percent \cup {0}, Total(b, rewards, percent) = 0
  PROVE  ~(Lines[b] - Cardinality(rewards) - (IF percent > 0 THEN 1 ELSE 0) > 0)
<1> DEFINE n == Lines[b] - Cardinality(rewards)
           d == (Price * percent + 50) \div 100
           discount == Min({Price, d})
<1>1. n \in Int /\ Price \in Nat \ {0} /\ percent \in 0 .. 100
  <2>1. Cardinality(rewards) \in Nat
    BY FS_Subset, FS_CardinalityType DEF ProgrammeAssumption
  <2> QED  BY <2>1 DEF ProgrammeAssumption
<1>2. d \in Int /\ (percent = 0 => d = 0)
  <2>1. Price * percent \in Nat
    BY <1>1
  <2>2. percent = 0 => Price * percent = 0
    BY <1>1
  <2> QED  BY <2>1, <2>2
<1>3. Price * n = discount
  <2>1. Price * n \in Int
    BY <1>1
  <2>2. Price * n - discount = 0
    BY DEF Total, PercentageDiscount
  <2>3. discount \in Int
    <3> HIDE DEF d
    <3>1. \E x \in {Price, d} : \A y \in {Price, d} : x <= y
      BY <1>1, <1>2
    <3> QED  BY <1>1, <1>2, <3>1 DEF Min
  <2> HIDE DEF n, discount
  <2> QED  BY <2>1, <2>2, <2>3
<1>4. discount <= Price /\ discount <= d /\ discount \in {Price, d}
  <2> HIDE DEF d
  <2>1. \E x \in {Price, d} : \A y \in {Price, d} : x <= y
    BY <1>1, <1>2
  <2> QED  BY <2>1 DEF Min
<1> HIDE DEF discount, d, n
<1>5. ASSUME n >= 2
      PROVE  FALSE
  <2>1. Price * n = Price * (n - 1) + Price
    BY <1>1
  <2>2. Price * (n - 1) > 0
    BY <1>1, <1>5
  <2> QED  BY <1>1, <1>2, <1>3, <1>4, <2>1, <2>2
<1>6. ASSUME n >= 1, percent = 0
      PROVE  FALSE
  <2>1. Price * n > 0
    BY <1>1, <1>6
  <2> QED  BY <1>1, <1>2, <1>3, <1>4, <1>6, <2>1
<1> QED  BY <1>1, <1>5, <1>6 DEF n

LEMMA CommitCreateLedger ==
  ASSUME ProgrammeAssumption, Sound, Ledger, NEW p \in Session, CommitCreate(p)
  PROVE  Ledger'
<1>0. PICK t : t = tx[p]
  OBVIOUS
<1> DEFINE b == t.booking
<1>1. /\ t.kind = "create" /\ t.read /\ tx' = [tx EXCEPT ![p] = Idle]
      /\ booking[b].status = "none"
  BY <1>0 DEF CommitCreate, Writes
<1>2. /\ TablesOK /\ b \in Booking /\ t.rewards \in SUBSET Reward /\ t.percent \in Percent \cup {0}
  BY <1>0, <1>1, TypesSplit DEF Sound, TxRow
<1>3. /\ Profile \in t.held /\ \A r \in t.rewards : reward[r].status = "available"
      /\ BookingSound(b)
  BY <1>0, <1>1, <1>2 DEF Ledger, Informed
<1>4. /\ booking'[b].status = "confirmed" /\ booking'[b].job = "open"
      /\ booking'[b].request = "none" /\ booking'[b].rewards = t.rewards
      /\ booking'[b].percent = t.percent
      /\ booking'[b].paid <=> Total(b, t.rewards, t.percent) = 0
      /\ \A c \in Booking \ {b} : booking'[c] = booking[c]
  BY <1>0, <1>2 DEF CommitCreate, TablesOK
<1>5. ASSUME NEW r \in Reward
      PROVE  /\ r \in t.rewards => reward'[r].status = "reserved" /\ reward'[r].booking = b
             /\ r \notin t.rewards => reward'[r] = reward[r]
  <2>1. reward[r] \in RewardRow
    BY <1>2 DEF TablesOK
  <2> QED  BY <1>0, <2>1 DEF CommitCreate, RewardRow
<1>6. log' = log \cup {Reserved(r, b) : r \in t.rewards}
  BY <1>0 DEF CommitCreate
<1>7. /\ \A r, c : Reserved(r, c) \in log' <=> Reserved(r, c) \in log \/ (c = b /\ r \in t.rewards)
      /\ \A r, c : Released(r, c) \in log' <=> Released(r, c) \in log
      /\ \A c : Qualifying(c) \in log' <=> Qualifying(c) \in log
      /\ \A r : Earned(r) \in log' <=> Earned(r) \in log
      /\ \A r : Redeemed(r) \in log' <=> Redeemed(r) \in log
  BY <1>6, Tags
<1> HIDE DEF b
<1>8. ASSUME NEW c \in Booking
      PROVE  BookingSound(c)'
  <2>1. BookingSound(c)
    BY DEF Ledger
  <2>2. CASE c = b
    <3>1. booking'[b].paid => ~(QualifyingLines(b)' > 0)
      BY <1>2, <1>4, FreeHasNoLines DEF QualifyingLines
    <3>2. Qualifying(b) \notin log'
      BY <1>1, <1>3, <1>7 DEF BookingSound
    <3>3. BookingSound(b)'
      BY <1>2, <1>4, <1>5, <3>1, <3>2 DEF BookingSound
    <3> QED  BY <2>2, <3>3
  <2>3. CASE c # b
    <3>1. booking'[c] = booking[c] /\ QualifyingLines(c)' = QualifyingLines(c)
      BY <1>4, <2>3, LinesKept
    <3>2. booking[c].rewards \subseteq Reward
      BY <1>2 DEF TablesOK, BookingRow
    <3>3. \A r \in booking[c].rewards : booking[c].job \in {"open", "completed"} => reward'[r] = reward[r]
      BY <1>3, <1>5, <2>1, <3>2 DEF BookingSound
    <3> QED  BY <1>7, <2>1, <2>3, <3>1, <3>3 DEF BookingSound
  <2> QED  BY <2>2, <2>3
<1>9. ASSUME NEW r \in Reward
      PROVE  RewardSound(r)'
  <2>1. RewardSound(r)
    BY DEF Ledger
  <2>2. CASE r \in t.rewards
    <3>1. Holders(r) = {}
      BY <1>3, <2>1, <2>2 DEF RewardSound
    <3>2. Released(r, b) \notin log
      BY <1>1, <1>3 DEF BookingSound
    <3>3. Holders(r)' = {b}
      BY <1>2, <1>7, <2>2, <3>1, <3>2 DEF Holders
    <3> QED  BY <1>3, <1>4, <1>5, <1>7, <2>1, <2>2, <3>3 DEF RewardSound
  <2>3. CASE r \notin t.rewards
    <3>1. Holders(r)' = Holders(r) /\ reward'[r] = reward[r]
      BY <1>5, <1>7, <2>3 DEF Holders
    <3>2. ASSUME reward[r].status = "reserved"
          PROVE  booking'[reward[r].booking] = booking[reward[r].booking]
      <4>1. reward[r].booking \in Booking /\ r \in booking[reward[r].booking].rewards
        BY <2>1, <3>2 DEF RewardSound, Holders
      <4>2. reward[r].booking # b
        BY <1>1, <1>3, <4>1 DEF BookingSound
      <4> QED  BY <1>4, <4>1, <4>2
    <3> QED  BY <1>7, <2>1, <3>1, <3>2 DEF RewardSound
  <2> QED  BY <2>2, <2>3
<1>10. ASSUME NEW q \in Session \ {p}, tx'[q] = tx[q]
       PROVE  Informed(tx[q])'
  <2>1. \A c \in Booking : /\ booking'[c].status = "none" => booking[c].status = "none"
                           /\ booking'[c].job = booking[c].job
    BY <1>1, <1>3, <1>4 DEF BookingSound
  <2> QED  BY <1>0, <1>3, <1>10, <2>1, OthersInformed
<1> QED  BY <1>1, <1>8, <1>9, <1>10, WriteLedger

(* A reward when those of F are new and those of D are redeemed.            *)
LEMMA RewardAfter ==
  ASSUME NEW r \in Reward, RewardSound(r), NEW F, NEW D,
         r \in F => /\ reward[r].status = "none"
                    /\ reward'[r].status = "available" /\ reward'[r].booking = None,
         r \in D => /\ reward[r].status = "reserved"
                    /\ reward'[r].status = "redeemed" /\ reward'[r].booking = reward[r].booking,
         r \notin F \cup D => reward'[r] = reward[r],
         \A c : Reserved(r, c) \in log' <=> Reserved(r, c) \in log,
         \A c : Released(r, c) \in log' <=> Released(r, c) \in log,
         Earned(r) \in log' <=> Earned(r) \in log \/ r \in F,
         Redeemed(r) \in log' <=> Redeemed(r) \in log \/ r \in D,
         \A c \in Booking : reward[r].status = "reserved" /\ reward[r].booking = c /\ r \notin D =>
           booking'[c].job = booking[c].job /\ booking'[c].rewards = booking[c].rewards
  PROVE  RewardSound(r)'
<1>1. Holders(r)' = Holders(r)
  BY DEF Holders
<1>2. CASE r \in F
  BY <1>1, <1>2 DEF RewardSound
<1>3. CASE r \in D
  BY <1>1, <1>3 DEF RewardSound
<1>4. CASE r \notin F \cup D
  <2>1. reward[r].status = "reserved" => reward[r].booking \in Booking
    BY DEF RewardSound, Holders
  <2> QED  BY <1>1, <1>4, <2>1 DEF RewardSound
<1> QED  BY <1>2, <1>3, <1>4

LEMMA CommitCompleteTakes ==
  ASSUME TablesOK, NEW p \in Session, CommitComplete(p), NEW b \in Booking, b = tx[p].booking
  PROVE  /\ booking'[b].status = "completed" /\ booking'[b].job = "completed"
         /\ booking'[b].request = booking[b].request /\ booking'[b].rewards = booking[b].rewards
         /\ booking'[b].percent = booking[b].percent /\ booking'[b].paid = booking[b].paid
         /\ \A c \in Booking \ {b} : booking'[c] = booking[c]
<1>1. booking[b] \in BookingRow
  BY DEF TablesOK
<1> DEFINE r1 == [booking[b] EXCEPT !.status = "completed"]
           row == [r1 EXCEPT !.job = "completed"]
<1>2. booking' = [booking EXCEPT ![b] = row]
  BY DEF CommitComplete
<1>3. /\ r1 \in BookingRow /\ r1.status = "completed" /\ r1.request = booking[b].request
      /\ r1.rewards = booking[b].rewards /\ r1.percent = booking[b].percent
      /\ r1.paid = booking[b].paid
  BY <1>1 DEF BookingRow
<1> HIDE DEF r1
<1>4. /\ row.status = "completed" /\ row.job = "completed" /\ row.request = booking[b].request
      /\ row.rewards = booking[b].rewards /\ row.percent = booking[b].percent
      /\ row.paid = booking[b].paid
  BY <1>3 DEF BookingRow
<1> HIDE DEF row
<1> QED  BY <1>2, <1>4 DEF TablesOK

LEMMA CommitCompleteLedger ==
  ASSUME Sound, Ledger, NEW p \in Session, CommitComplete(p)
  PROVE  Ledger'
<1>0. PICK b : b = tx[p].booking
  OBVIOUS
<1>1. PICK n : /\ reward' = Earn(RedeemedRewards(b), n)
               /\ log' = log \cup {Redeemed(r) : r \in ReservedBy(b)} \cup EarnKeys(n)
  BY <1>0 DEF CommitComplete
<1>2. /\ tx[p].kind = "complete" /\ tx[p].read /\ tx' = [tx EXCEPT ![p] = Idle]
      /\ Writes(p, "complete")
  BY DEF CommitComplete, Writes
<1>3. TablesOK /\ b \in Booking
  BY <1>0, <1>2, BookingOf
<1>4. /\ booking[b].status # "none" /\ booking[b].job = "open" /\ JobLock(b) \in tx[p].held
      /\ BookingSound(b)
  BY <1>0, <1>2, <1>3 DEF Ledger, Informed
<1>5. /\ booking'[b].status = "completed" /\ booking'[b].job = "completed"
      /\ booking'[b].request = booking[b].request /\ booking'[b].rewards = booking[b].rewards
      /\ booking'[b].percent = booking[b].percent /\ booking'[b].paid = booking[b].paid
      /\ \A c \in Booking \ {b} : booking'[c] = booking[c]
  BY <1>0, <1>3, CommitCompleteTakes
<1> DEFINE F == Fresh(n)
           D == ReservedBy(b)
<1>6. /\ F \subseteq {r \in Reward : reward[r].status = "none"}
      /\ D = {r \in booking[b].rewards : reward[r].status = "reserved"}
      /\ booking[b].rewards \subseteq Reward
  BY <1>3, FreshAreNew DEF ReservedBy, TablesOK, BookingRow
<1>7. ASSUME NEW r \in Reward
      PROVE  /\ r \in F => reward'[r].status = "available" /\ reward'[r].booking = None
             /\ r \in D => reward'[r].status = "redeemed" /\ reward'[r].booking = reward[r].booking
             /\ r \notin F \cup D => reward'[r] = reward[r]
  BY <1>1, <1>3, <1>6, EarnTakes, RedeemTakes
<1>8. /\ \A r, c : Reserved(r, c) \in log' <=> Reserved(r, c) \in log
      /\ \A r, c : Released(r, c) \in log' <=> Released(r, c) \in log
      /\ \A c : Qualifying(c) \in log' <=> Qualifying(c) \in log
      /\ \A r : Earned(r) \in log' <=> Earned(r) \in log \/ r \in F
      /\ \A r : Redeemed(r) \in log' <=> Redeemed(r) \in log \/ r \in D
  BY <1>1, Tags DEF EarnKeys
<1>9. \A c \in Booking : QualifyingLines(c)' = QualifyingLines(c)
  BY <1>5, LinesKept
<1> HIDE DEF F, D
<1>10. ASSUME NEW c \in Booking
       PROVE  BookingSound(c)'
  <2>1. BookingSound(c) /\ booking[c].rewards \subseteq Reward
    BY <1>3 DEF Ledger, TablesOK, BookingRow
  <2>2. CASE c = b
    <3>1. \A r \in booking[b].rewards : reward'[r].status = "redeemed"
      BY <1>4, <1>6, <1>7 DEF BookingSound
    <3>2. BookingSound(b)'
      BY <1>4, <1>5, <1>8, <1>9, <3>1, <1>3 DEF BookingSound
    <3> QED  BY <2>2, <3>2
  <2>3. CASE c # b
    <3>1. \A r \in booking[c].rewards :
            booking[c].job \in {"open", "completed"} => r \notin F \cup D
      BY <1>4, <1>6, <2>1, <2>3 DEF BookingSound
    <3>2. \A r \in booking[c].rewards :
            booking[c].job \in {"open", "completed"} => reward'[r] = reward[r]
      BY <1>7, <2>1, <3>1
    <3>3. booking'[c] = booking[c]
      BY <1>5, <2>3
    <3> QED  BY <1>8, <1>9, <2>1, <3>2, <3>3 DEF BookingSound
  <2> QED  BY <2>2, <2>3
<1>11. ASSUME NEW r \in Reward
       PROVE  RewardSound(r)'
  <2>1. RewardSound(r)
    BY DEF Ledger
  <2>2. reward[r].status = "reserved" /\ r \notin D => reward[r].booking # b
    BY <1>4, <1>6, <2>1 DEF RewardSound
  <2>3. r \in D => reward[r].status = "reserved"
    BY <1>6
  <2>4. r \in F => reward[r].status = "none"
    BY <1>6
  <2> QED  BY <1>5, <1>7, <1>8, <2>1, <2>2, <2>3, <2>4, RewardAfter
<1>12. ASSUME NEW q \in Session \ {p}, tx'[q] = tx[q]
       PROVE  Informed(tx[q])'
  <2>1. \A c \in Booking : /\ booking'[c].status = "none" => booking[c].status = "none"
                           /\ booking'[c].job # booking[c].job => JobLock(c) \in tx[p].held
    BY <1>4, <1>5
  <2>2. \A r \in Reward : reward[r].status = "available" => reward'[r].status = "available"
    BY <1>6, <1>7
  <2> QED  BY <1>12, <2>1, <2>2, OthersInformed
<1> QED  BY <1>2, <1>10, <1>11, <1>12, WriteLedger

LEMMA CommitCashTakes ==
  ASSUME TablesOK, NEW p \in Session, CommitCash(p), NEW b \in Booking, b = tx[p].booking
  PROVE  /\ booking'[b].status = booking[b].status /\ booking'[b].job = booking[b].job
         /\ booking'[b].request = booking[b].request /\ booking'[b].rewards = booking[b].rewards
         /\ booking'[b].percent = booking[b].percent /\ booking'[b].paid
         /\ \A c \in Booking \ {b} : booking'[c] = booking[c]
<1>1. booking[b] \in BookingRow
  BY DEF TablesOK
<1>2. booking' = [booking EXCEPT ![b].paid = TRUE]
  BY DEF CommitCash
<1> QED  BY <1>1, <1>2 DEF TablesOK, BookingRow

LEMMA CommitCashLedger ==
  ASSUME Sound, Ledger, NEW p \in Session, CommitCash(p)
  PROVE  Ledger'
<1>0. PICK b : b = tx[p].booking
  OBVIOUS
<1>1. PICK n : /\ reward' = Earn(RedeemedRewards(b), n)
               /\ log' = log \cup {Redeemed(r) : r \in ReservedBy(b)} \cup Credit(b) \cup EarnKeys(n)
  BY <1>0 DEF CommitCash
<1>2. /\ tx[p].kind = "cash" /\ tx[p].read /\ tx' = [tx EXCEPT ![p] = Idle]
      /\ Writes(p, "cash")
  BY DEF CommitCash, Writes
<1>3. TablesOK /\ b \in Booking
  BY <1>0, <1>2, BookingOf
<1>4. booking[b].status # "none" /\ booking[b].job = "completed" /\ BookingSound(b)
  BY <1>0, <1>2, <1>3 DEF Ledger, Informed
<1>5. /\ booking'[b].status = booking[b].status /\ booking'[b].job = booking[b].job
      /\ booking'[b].request = booking[b].request /\ booking'[b].rewards = booking[b].rewards
      /\ booking'[b].percent = booking[b].percent /\ booking'[b].paid
      /\ \A c \in Booking \ {b} : booking'[c] = booking[c]
  BY <1>0, <1>3, CommitCashTakes
<1>6. ReservedBy(b) = {}
  BY <1>4 DEF ReservedBy, BookingSound
<1> DEFINE F == Fresh(n)
<1>7. F \subseteq {r \in Reward : reward[r].status = "none"}
  BY FreshAreNew
<1>8. ASSUME NEW r \in Reward
      PROVE  /\ r \in F => reward'[r].status = "available" /\ reward'[r].booking = None
             /\ r \notin F => reward'[r] = reward[r]
  BY <1>1, <1>3, <1>6, EarnTakes, RedeemTakes
<1>9. /\ \A r, c : Reserved(r, c) \in log' <=> Reserved(r, c) \in log
      /\ \A r, c : Released(r, c) \in log' <=> Released(r, c) \in log
      /\ \A c : Qualifying(c) \in log' <=>
                  Qualifying(c) \in log \/ (c = b /\ QualifyingLines(b) > 0)
      /\ \A r : Earned(r) \in log' <=> Earned(r) \in log \/ r \in F
      /\ \A r : Redeemed(r) \in log' <=> Redeemed(r) \in log
  BY <1>1, <1>6, Tags DEF EarnKeys, Credit
<1>10. \A c \in Booking : QualifyingLines(c)' = QualifyingLines(c)
  BY <1>5, LinesKept
<1> HIDE DEF F
<1>11. ASSUME NEW c \in Booking
       PROVE  BookingSound(c)'
  <2>1. BookingSound(c) /\ booking[c].rewards \subseteq Reward
    BY <1>3 DEF Ledger, TablesOK, BookingRow
  <2>2. \A r \in booking[c].rewards :
          booking[c].job \in {"open", "completed"} => reward'[r] = reward[r]
    BY <1>7, <1>8, <2>1 DEF BookingSound
  <2>3. CASE c = b
    <3>1. BookingSound(b)'
      BY <1>3, <1>4, <1>5, <1>9, <1>10, <2>2, <2>3 DEF BookingSound
    <3> QED  BY <2>3, <3>1
  <2>4. CASE c # b
    <3>1. booking'[c] = booking[c]
      BY <1>5, <2>4
    <3> QED  BY <1>9, <1>10, <2>1, <2>2, <2>4, <3>1 DEF BookingSound
  <2> QED  BY <2>3, <2>4
<1>12. ASSUME NEW r \in Reward
       PROVE  RewardSound(r)'
  <2>1. RewardSound(r)
    BY DEF Ledger
  <2>2. r \in F => reward[r].status = "none"
    BY <1>7
  <2>3. \A c \in Booking : booking'[c].job = booking[c].job /\ booking'[c].rewards = booking[c].rewards
    BY <1>5
  <2>4. PICK D : D = {}
    OBVIOUS
  <2> QED  BY <1>8, <1>9, <2>1, <2>2, <2>3, <2>4, RewardAfter
<1>13. ASSUME NEW q \in Session \ {p}, tx'[q] = tx[q]
       PROVE  Informed(tx[q])'
  <2>1. \A c \in Booking : /\ booking'[c].status = "none" => booking[c].status = "none"
                           /\ booking'[c].job = booking[c].job
    BY <1>5
  <2>2. \A r \in Reward : reward[r].status = "available" => reward'[r].status = "available"
    BY <1>7, <1>8
  <2> QED  BY <1>13, <2>1, <2>2, OthersInformed
<1> QED  BY <1>2, <1>11, <1>12, <1>13, WriteLedger

LEMMA CommitCancelTakes ==
  ASSUME TablesOK, NEW p \in Session, CommitCancel(p), NEW b \in Booking, b = tx[p].booking
  PROVE  /\ booking'[b].status = "cancelled" /\ booking'[b].job = "cancelled"
         /\ booking'[b].request = "reviewed" /\ booking'[b].rewards = booking[b].rewards
         /\ booking'[b].percent = booking[b].percent /\ booking'[b].paid = booking[b].paid
         /\ \A c \in Booking \ {b} : booking'[c] = booking[c]
<1>1. booking[b] \in BookingRow
  BY DEF TablesOK
<1> DEFINE r1 == [booking[b] EXCEPT !.status = "cancelled"]
           r2 == [r1 EXCEPT !.job = "cancelled"]
           row == [r2 EXCEPT !.request = "reviewed"]
<1>2. booking' = [booking EXCEPT ![b] = row]
  BY DEF CommitCancel
<1>3. /\ r1 \in BookingRow /\ r1.status = "cancelled"
      /\ r1.rewards = booking[b].rewards /\ r1.percent = booking[b].percent
      /\ r1.paid = booking[b].paid
  BY <1>1 DEF BookingRow
<1> HIDE DEF r1
<1>4. /\ r2 \in BookingRow /\ r2.status = "cancelled" /\ r2.job = "cancelled"
      /\ r2.rewards = booking[b].rewards /\ r2.percent = booking[b].percent
      /\ r2.paid = booking[b].paid
  BY <1>3 DEF BookingRow
<1> HIDE DEF r2
<1>5. /\ row.status = "cancelled" /\ row.job = "cancelled" /\ row.request = "reviewed"
      /\ row.rewards = booking[b].rewards /\ row.percent = booking[b].percent
      /\ row.paid = booking[b].paid
  BY <1>4 DEF BookingRow
<1> HIDE DEF row
<1> QED  BY <1>2, <1>5 DEF TablesOK

LEMMA CommitCancelLedger ==
  ASSUME Sound, Ledger, NEW p \in Session, CommitCancel(p)
  PROVE  Ledger'
<1>0. PICK b : b = tx[p].booking
  OBVIOUS
<1>1. /\ tx[p].kind = "cancel" /\ tx[p].read /\ tx' = [tx EXCEPT ![p] = Idle]
      /\ Writes(p, "cancel")
  BY DEF CommitCancel, Writes
<1>2. TablesOK /\ b \in Booking
  BY <1>0, <1>1, BookingOf
<1>3. booking[b].status # "none" /\ JobLock(b) \in tx[p].held /\ BookingSound(b)
  BY <1>0, <1>1, <1>2 DEF Ledger, Informed
<1>4. /\ booking'[b].status = "cancelled" /\ booking'[b].job = "cancelled"
      /\ booking'[b].request = "reviewed" /\ booking'[b].rewards = booking[b].rewards
      /\ booking'[b].percent = booking[b].percent /\ booking'[b].paid = booking[b].paid
      /\ \A c \in Booking \ {b} : booking'[c] = booking[c]
  BY <1>0, <1>2, CommitCancelTakes
<1>5. PICK E : E = Releasable(b)
  OBVIOUS
<1>6. E = {r \in Reward : reward[r].status = "reserved" /\ reward[r].booking = b}
  BY <1>5 DEF Releasable
<1>7. ASSUME NEW r \in Reward
      PROVE  /\ r \in E => reward'[r].status = "available" /\ reward'[r].booking = None
             /\ r \notin E => reward'[r] = reward[r]
  <2>1. reward[r] \in RewardRow
    BY <1>2 DEF TablesOK
  <2> QED  BY <1>0, <1>5, <2>1 DEF CommitCancel, RewardRow
<1>8. log' = log \cup {Released(r, b) : r \in E}
  BY <1>0, <1>5 DEF CommitCancel
<1>9. /\ \A r, c : Reserved(r, c) \in log' <=> Reserved(r, c) \in log
      /\ \A r, c : Released(r, c) \in log' <=> Released(r, c) \in log \/ (c = b /\ r \in E)
      /\ \A c : Qualifying(c) \in log' <=> Qualifying(c) \in log
      /\ \A r : Earned(r) \in log' <=> Earned(r) \in log
      /\ \A r : Redeemed(r) \in log' <=> Redeemed(r) \in log
  BY <1>8, Tags
<1>10. \A c \in Booking : QualifyingLines(c)' = QualifyingLines(c)
  BY <1>4, LinesKept
<1>11. ASSUME NEW c \in Booking
       PROVE  BookingSound(c)'
  <2>1. BookingSound(c) /\ booking[c].rewards \subseteq Reward
    BY <1>2 DEF Ledger, TablesOK, BookingRow
  <2>2. CASE c = b
    <3>1. Qualifying(b) \in log <=> booking[b].paid /\ QualifyingLines(b) > 0
      BY <1>3 DEF BookingSound
    <3>2. BookingSound(b)'
      BY <1>2, <1>4, <1>9, <1>10, <3>1 DEF BookingSound
    <3> QED  BY <2>2, <3>2
  <2>3. CASE c # b
    <3>1. \A r \in booking[c].rewards :
            booking[c].job \in {"open", "completed"} => reward'[r] = reward[r]
      BY <1>6, <1>7, <2>1, <2>3 DEF BookingSound
    <3>2. booking'[c] = booking[c]
      BY <1>4, <2>3
    <3> QED  BY <1>9, <1>10, <2>1, <2>3, <3>1, <3>2 DEF BookingSound
  <2> QED  BY <2>2, <2>3
<1>12. ASSUME NEW r \in Reward
       PROVE  RewardSound(r)'
  <2>1. RewardSound(r)
    BY DEF Ledger
  <2>2. CASE r \in E
    <3>1. Holders(r) = {b} /\ Holders(r)' = {}
      BY <1>6, <1>9, <2>1, <2>2 DEF RewardSound, Holders
    <3> QED  BY <1>6, <1>7, <1>9, <2>1, <2>2, <3>1 DEF RewardSound
  <2>3. CASE r \notin E
    <3>1. Holders(r)' = Holders(r) /\ reward'[r] = reward[r]
      BY <1>7, <1>9, <2>3 DEF Holders
    <3>2. reward[r].status = "reserved" =>
            reward[r].booking \in Booking /\ booking'[reward[r].booking] = booking[reward[r].booking]
      BY <1>4, <1>6, <2>1, <2>3 DEF RewardSound, Holders
    <3> QED  BY <1>9, <2>1, <3>1, <3>2 DEF RewardSound
  <2> QED  BY <2>2, <2>3
<1>13. ASSUME NEW q \in Session \ {p}, tx'[q] = tx[q]
       PROVE  Informed(tx[q])'
  <2>1. \A c \in Booking : /\ booking'[c].status = "none" => booking[c].status = "none"
                           /\ booking'[c].job # booking[c].job => JobLock(c) \in tx[p].held
    BY <1>3, <1>4
  <2>2. \A r \in Reward : reward[r].status = "available" => reward'[r].status = "available"
    BY <1>6, <1>7
  <2> QED  BY <1>13, <2>1, <2>2, OthersInformed
<1> QED  BY <1>1, <1>11, <1>12, <1>13, WriteLedger

(* Rows of bookings that keep their job, payment, rewards and coupon; the   *)
(* rewards of F are new, and nothing else is in the ledger.                 *)
RowsAlike ==
  \A c \in Booking :
    /\ booking'[c].job = booking[c].job /\ booking'[c].paid = booking[c].paid
    /\ booking'[c].rewards = booking[c].rewards /\ booking'[c].percent = booking[c].percent
    /\ booking'[c].status = "none" =>
         booking[c].status = "none" /\ booking'[c].request = booking[c].request

LEMMA AlikeLedger ==
  ASSUME Sound, Ledger, RowsAlike, NEW F \in SUBSET {r \in Reward : reward[r].status = "none"},
         \A r \in Reward :
           /\ r \in F => reward'[r].status = "available" /\ reward'[r].booking = None
           /\ r \notin F => reward'[r] = reward[r],
         \A r, c : Reserved(r, c) \in log' <=> Reserved(r, c) \in log,
         \A r, c : Released(r, c) \in log' <=> Released(r, c) \in log,
         \A c : Qualifying(c) \in log' <=> Qualifying(c) \in log,
         \A r : Earned(r) \in log' <=> Earned(r) \in log \/ r \in F,
         \A r : Redeemed(r) \in log' <=> Redeemed(r) \in log
  PROVE  /\ \A b \in Booking : BookingSound(b)'
         /\ \A r \in Reward : RewardSound(r)'
         /\ \A p \in Session : \A q \in Session \ {p} : tx'[q] = tx[q] => Informed(tx[q])'
<1>1. ASSUME NEW c \in Booking
      PROVE  BookingSound(c)'
  <2>1. BookingSound(c) /\ booking[c].rewards \subseteq Reward
    BY TypesSplit DEF Sound, Ledger, TablesOK, BookingRow
  <2>2. QualifyingLines(c)' = QualifyingLines(c)
    BY LinesKept DEF RowsAlike
  <2>3. \A r \in booking[c].rewards :
          booking[c].job \in {"open", "completed"} => reward'[r] = reward[r]
    BY <2>1 DEF BookingSound
  <2> QED  BY <2>1, <2>2, <2>3 DEF BookingSound, RowsAlike
<1>2. ASSUME NEW r \in Reward
      PROVE  RewardSound(r)'
  <2>1. RewardSound(r)
    BY DEF Ledger
  <2>2. \A c \in Booking : booking'[c].job = booking[c].job /\ booking'[c].rewards = booking[c].rewards
    BY DEF RowsAlike
  <2>3. PICK D : D = {}
    OBVIOUS
  <2> QED  BY <2>1, <2>2, <2>3, RewardAfter
<1>3. ASSUME NEW p \in Session, NEW q \in Session \ {p}, tx'[q] = tx[q]
      PROVE  Informed(tx[q])'
  <2>1. \A c \in Booking : /\ booking'[c].status = "none" => booking[c].status = "none"
                           /\ booking'[c].job = booking[c].job
    BY DEF RowsAlike
  <2>2. \A r \in Reward : reward[r].status = "available" => reward'[r].status = "available"
    OBVIOUS
  <2> QED  BY <1>3, <2>1, <2>2, OthersInformed
<1> QED  BY <1>1, <1>2, <1>3

LEMMA CommitRefusalAlike ==
  ASSUME TablesOK, NEW p \in Session, CommitRefusal(p), NEW b \in Booking, b = tx[p].booking
  PROVE  RowsAlike
<1>1. booking[b] \in BookingRow
  BY DEF TablesOK
<1> DEFINE r1 == [booking[b] EXCEPT !.status = "confirmed"]
           row == [r1 EXCEPT !.request = "none"]
<1>2. booking' = [booking EXCEPT ![b] = row]
  BY DEF CommitRefusal
<1>3. /\ r1 \in BookingRow /\ r1.status = "confirmed" /\ r1.job = booking[b].job
      /\ r1.rewards = booking[b].rewards /\ r1.percent = booking[b].percent
      /\ r1.paid = booking[b].paid
  BY <1>1 DEF BookingRow
<1> HIDE DEF r1
<1>4. /\ row.status = "confirmed" /\ row.job = booking[b].job
      /\ row.rewards = booking[b].rewards /\ row.percent = booking[b].percent
      /\ row.paid = booking[b].paid
  BY <1>3 DEF BookingRow
<1> HIDE DEF row
<1> QED  BY <1>2, <1>4 DEF TablesOK, RowsAlike

LEMMA CommitRefusalLedger ==
  ASSUME Sound, Ledger, NEW p \in Session, CommitRefusal(p)
  PROVE  Ledger'
<1>0. PICK b : b = tx[p].booking
  OBVIOUS
<1>1. /\ tx' = [tx EXCEPT ![p] = Idle] /\ Writes(p, "cancel")
      /\ UNCHANGED <<reward, log>>
  BY DEF CommitRefusal, Writes
<1>2. TablesOK /\ b \in Booking
  BY <1>0, <1>1, BookingOf
<1>3. RowsAlike
  BY <1>0, <1>2, CommitRefusalAlike
<1>4. PICK F \in SUBSET {r \in Reward : reward[r].status = "none"} : F = {}
  OBVIOUS
<1> QED  BY <1>1, <1>3, <1>4, AlikeLedger, WriteLedger

LEMMA CommitReviewAlike ==
  ASSUME TablesOK, NEW p \in Session, CommitReview(p), NEW b \in Booking, b = tx[p].booking
  PROVE  RowsAlike
<1>1. booking[b] \in BookingRow
  BY DEF TablesOK
<1>2. booking' = [booking EXCEPT ![b].reviewed = TRUE]
  BY DEF CommitReview
<1> QED  BY <1>1, <1>2 DEF TablesOK, RowsAlike, BookingRow

LEMMA CommitReviewLedger ==
  ASSUME Sound, Ledger, NEW p \in Session, CommitReview(p)
  PROVE  Ledger'
<1>0. PICK b : b = tx[p].booking
  OBVIOUS
<1>1. PICK n : reward' = Earn(reward, n) /\ log' = log \cup {Bonus} \cup EarnKeys(n)
  BY DEF CommitReview
<1>2. tx' = [tx EXCEPT ![p] = Idle] /\ Writes(p, "review")
  BY DEF CommitReview, Writes
<1>3. TablesOK /\ b \in Booking
  BY <1>0, <1>2, BookingOf
<1>4. RowsAlike
  BY <1>0, <1>3, CommitReviewAlike
<1>5. PICK F : F = Fresh(n)
  OBVIOUS
<1>6. F \in SUBSET {r \in Reward : reward[r].status = "none"}
  BY <1>5, FreshAreNew
<1>7. \A r \in Reward : /\ r \in F => reward'[r].status = "available" /\ reward'[r].booking = None
                        /\ r \notin F => reward'[r] = reward[r]
  BY <1>1, <1>5, EarnTakes
<1>8. /\ \A r, c : Reserved(r, c) \in log' <=> Reserved(r, c) \in log
      /\ \A r, c : Released(r, c) \in log' <=> Released(r, c) \in log
      /\ \A c : Qualifying(c) \in log' <=> Qualifying(c) \in log
      /\ \A r : Earned(r) \in log' <=> Earned(r) \in log \/ r \in F
      /\ \A r : Redeemed(r) \in log' <=> Redeemed(r) \in log
  BY <1>1, <1>5, Tags DEF EarnKeys
<1> QED  BY <1>2, <1>4, <1>6, <1>7, <1>8, AlikeLedger, WriteLedger

LEMMA CommitAdjustLedger ==
  ASSUME Sound, Ledger, NEW p \in Session, CommitAdjust(p)
  PROVE  Ledger'
<1>1. PICK n : reward' = Earn(reward, n) /\ log' = log \cup {Adjusted(tx[p].adjustment)} \cup EarnKeys(n)
  BY DEF CommitAdjust
<1>2. tx' = [tx EXCEPT ![p] = Idle] /\ RowsAlike
  BY DEF CommitAdjust, Writes, RowsAlike
<1>3. PICK F : F = Fresh(n)
  OBVIOUS
<1>4. F \in SUBSET {r \in Reward : reward[r].status = "none"}
  BY <1>3, FreshAreNew
<1>5. \A r \in Reward : /\ r \in F => reward'[r].status = "available" /\ reward'[r].booking = None
                        /\ r \notin F => reward'[r] = reward[r]
  BY <1>1, <1>3, EarnTakes
<1>6. /\ \A r, c : Reserved(r, c) \in log' <=> Reserved(r, c) \in log
      /\ \A r, c : Released(r, c) \in log' <=> Released(r, c) \in log
      /\ \A c : Qualifying(c) \in log' <=> Qualifying(c) \in log
      /\ \A r : Earned(r) \in log' <=> Earned(r) \in log \/ r \in F
      /\ \A r : Redeemed(r) \in log' <=> Redeemed(r) \in log
  BY <1>1, <1>3, Tags DEF EarnKeys
<1> QED  BY <1>2, <1>4, <1>5, <1>6, AlikeLedger, WriteLedger

LEMMA QuietLedger ==
  ASSUME Sound, Ledger, RowsAlike, UNCHANGED <<reward, log, tx>>
  PROVE  Ledger'
<1>1. PICK F \in SUBSET {r \in Reward : reward[r].status = "none"} : F = {}
  OBVIOUS
<1>2. /\ \A b \in Booking : BookingSound(b)'
      /\ \A r \in Reward : RewardSound(r)'
  BY <1>1, AlikeLedger
<1>3. ASSUME NEW p \in Session
      PROVE  Informed(tx[p])'
  <2>1. Informed(tx[p]) /\ TxRow(tx[p]) /\ tx'[p] = tx[p]
    BY DEF Ledger, Sound, Types
  <2> QED  BY <2>1 DEF Informed, TxRow, RowsAlike
<1> QED  BY <1>2, <1>3 DEF Ledger

LEMMA BookingStepAlike ==
  ASSUME Sound, NEW b \in Booking, RequestCancellation(b) \/ GuestReview(b)
  PROVE  RowsAlike /\ UNCHANGED <<settings, changes, reward, log, record, tx>>
<1>1. TablesOK /\ booking[b] \in BookingRow
  BY TypesSplit DEF Sound, TablesOK
<1>2. CASE RequestCancellation(b)
  <2> DEFINE row == [booking[b] EXCEPT !.request = "requested"]
  <2>1. booking' = [booking EXCEPT ![b] = row] /\ booking[b].status = "confirmed"
    BY <1>2 DEF RequestCancellation
  <2>2. /\ row.status = booking[b].status /\ row.job = booking[b].job /\ row.paid = booking[b].paid
        /\ row.rewards = booking[b].rewards /\ row.percent = booking[b].percent
    BY <1>1 DEF BookingRow
  <2> HIDE DEF row
  <2>3. RowsAlike
    BY <1>1, <2>1, <2>2 DEF RowsAlike, TablesOK
  <2> QED  BY <1>2, <2>3 DEF RequestCancellation
<1>3. CASE GuestReview(b)
  <2> DEFINE row == [booking[b] EXCEPT !.reviewed = TRUE]
  <2>1. booking' = [booking EXCEPT ![b] = row]
    BY <1>3 DEF GuestReview
  <2>2. /\ row.status = booking[b].status /\ row.job = booking[b].job /\ row.paid = booking[b].paid
        /\ row.rewards = booking[b].rewards /\ row.percent = booking[b].percent
        /\ row.request = booking[b].request
    BY <1>1 DEF BookingRow
  <2> HIDE DEF row
  <2>3. RowsAlike
    BY <1>1, <2>1, <2>2 DEF RowsAlike, TablesOK
  <2> QED  BY <1>3, <2>3 DEF GuestReview
<1> QED  BY <1>2, <1>3

LEMMA NextLedger ==
  ASSUME ProgrammeAssumption, Sound, Ledger, [Next]_vars
  PROVE  Ledger'
<1>1. CASE \E p \in Session : Begins(p) \/ Steps(p)
  BY <1>1, BeginsLedger, LockLedger, ReadsLedger, CommitCreateLedger, CommitCompleteLedger,
     CommitCashLedger, CommitCancelLedger, CommitRefusalLedger, CommitReviewLedger,
     CommitAdjustLedger DEF Steps
<1>2. CASE \E b \in Booking : RequestCancellation(b) \/ GuestReview(b)
  BY <1>2, BookingStepAlike, QuietLedger
<1>3. CASE \/ \E k \in Key : ExpireRecord(k)
           \/ \E enabled \in BOOLEAN, required \in Required : UpdateSettings(enabled, required)
           \/ UNCHANGED vars
  <2>1. UNCHANGED <<booking, reward, log, tx>>
    BY <1>3 DEF ExpireRecord, UpdateSettings, vars, tables
  <2>2. RowsAlike
    BY <2>1 DEF RowsAlike
  <2> QED  BY <2>1, <2>2, QuietLedger
<1> QED  BY <1>1, <1>2, <1>3 DEF Next

LEMMA LedgerAlways == Spec => [](Sound /\ Ledger)
<1>1. Init => Sound /\ Ledger
  BY InitSound, InitLedger, ProgrammeAssumption
<1>2. Sound /\ Ledger /\ [Next]_vars => (Sound /\ Ledger)'
  BY NextSound, NextLedger, ProgrammeAssumption
<1> QED  BY <1>1, <1>2, PTL DEF Spec

(* A booking is credited exactly when it is completed, paid, and has lines  *)
(* that count, whatever order its requests come in.                         *)
THEOREM WashesAlwaysCredited == Spec => []WashesAreCredited
<1>1. Ledger => WashesAreCredited
  BY DEF Ledger, BookingSound, WashesAreCredited
<1> QED  BY <1>1, LedgerAlways, PTL

(* The events of the ledger explain every reward.                           *)
THEOREM LedgerAlwaysExplains == Spec => []LedgerExplainsRewards
<1>1. Ledger => LedgerExplainsRewards
  BY DEF Ledger, RewardSound, Holders, LedgerExplainsRewards
<1> QED  BY <1>1, LedgerAlways, PTL

-----------------------------------------------------------------------------
(* The accounts.                                                            *)

(* Requests that may earn rewards, and what they add to the ledger.         *)
Earning(t) == t.kind \in {"review", "adjust"} \/ EarnsRewards(t)

KeysOf(t) ==
  CASE t.kind = "cash"   -> Credit(t.booking)
    [] t.kind = "review" -> {Bonus}
    [] t.kind = "adjust" -> {Adjusted(t.adjustment)}
    [] OTHER             -> {}

(* What a request has reckoned to be due is so until it writes.             *)
Reckoned(t) ==
  t.read /\ Earning(t) =>
    /\ {Profile, Settings} \subseteq t.held
    /\ CreditsWith(KeysOf(t)) >= Consumed
    /\ t.due = Due(CreditsWith(KeysOf(t)))

(* No reward comes too late as long as there are rows for new ones.         *)
Accounts ==
  /\ IsFiniteSet(log)
  /\ NeverOverdrawn
  /\ Rewarded # Reward => RewardsComeWhenDue
  /\ \A p \in Session : Reckoned(tx[p])

(* The rank of a free reward by its age.                                    *)
LEMMA FreshCount ==
  ASSUME ProgrammeAssumption, NEW n \in Nat
  PROVE  /\ IsFiniteSet(Fresh(n)) /\ Cardinality(Fresh(n)) \in Nat
         /\ Cardinality(Fresh(n)) <= n
         /\ Fresh(n) # Reward \ Rewarded => Cardinality(Fresh(n)) = n
<1> DEFINE free == Reward \ Rewarded
           below(r) == {q \in free : q < r}
           rank == [r \in free |-> Cardinality(below(r))]
<1>1. IsFiniteSet(free) /\ Cardinality(free) \in Nat /\ free \subseteq Nat
  BY FS_Subset, FS_CardinalityType DEF ProgrammeAssumption
<1>2. Fresh(n) = {r \in free : rank[r] < n}
  BY DEF Fresh
<1> HIDE DEF free
<1>3. \A r \in free : rank[r] \in 0 .. Cardinality(free) - 1
  <2> TAKE r \in free
  <2>1. below(r) \subseteq free /\ r \notin below(r)
    BY <1>1
  <2>2. IsFiniteSet(below(r)) /\ Cardinality(below(r)) \in Nat
        /\ Cardinality(below(r)) < Cardinality(free)
    <3> DEFINE b == below(r)
    <3> HIDE DEF below, b
    <3>1. IsFiniteSet(b) /\ b \subseteq free /\ b # free
      BY <1>1, <2>1, FS_Subset DEF b
    <3> QED  BY <1>1, <3>1, FS_Subset, FS_CardinalityType DEF b
  <2>3. rank[r] = Cardinality(below(r))
    OBVIOUS
  <2> HIDE DEF rank, below
  <2> QED  BY <1>1, <2>2, <2>3
<1>4. \A r, q \in free : q < r => rank[q] < rank[r]
  <2> SUFFICES ASSUME NEW r \in free, NEW q \in free, q < r
               PROVE  rank[q] < rank[r]
    OBVIOUS
  <2>1. below(q) \subseteq below(r) /\ q \in below(r) /\ q \notin below(q) /\ below(r) \subseteq free
    <3>1. \A x \in free : x < q => x < r
      BY <1>1
    <3>2. ~(q < q)
      BY <1>1
    <3> QED  BY <3>1, <3>2
  <2>2. Cardinality(below(q)) < Cardinality(below(r))
    <3> DEFINE b == below(r)
               a == below(q)
    <3> HIDE DEF below, a, b
    <3>1. IsFiniteSet(b) /\ a \subseteq b /\ a # b
      BY <1>1, <2>1, FS_Subset DEF a, b
    <3>2. Cardinality(a) < Cardinality(b)
      BY <3>1, FS_Subset, FS_CardinalityType
    <3> QED  BY <3>2 DEF a, b
  <2> QED  BY <2>2
<1>5. \A r, q \in free : rank[q] = rank[r] => q = r
  <2>1. \A r, q \in free : q < r \/ r < q \/ q = r
    BY <1>1
  <2>2. \A r \in free : rank[r] \in Int
    BY <1>3
  <2> HIDE DEF rank
  <2> QED  BY <1>4, <2>1, <2>2
<1>6. rank = [r \in free |-> rank[r]]
  OBVIOUS
<1> HIDE DEF rank
<1> DEFINE chosen == [r \in Fresh(n) |-> rank[r]]
<1>7. chosen \in Injection(Fresh(n), 0 .. n - 1)
  <2>1. \A r \in Fresh(n) : r \in free /\ rank[r] \in 0 .. n - 1
    <3> TAKE r \in Fresh(n)
    <3>1. r \in free /\ rank[r] < n
      BY <1>2
    <3>2. rank[r] \in Nat
      BY <1>1, <1>3, <3>1
    <3> QED  BY <3>1, <3>2
  <2>2. chosen \in [Fresh(n) -> 0 .. n - 1]
    BY <2>1
  <2> QED  BY <1>5, <2>1, <2>2 DEF Injection, IsInjective
<1>8. IsFiniteSet(0 .. n - 1) /\ Cardinality(0 .. n - 1) = n
  <2>1. 0 \in Int /\ n - 1 \in Int
    OBVIOUS
  <2>2. IsFiniteSet(0 .. n - 1) /\ Cardinality(0 .. n - 1) = IF 0 > n - 1 THEN 0 ELSE n - 1 - 0 + 1
    BY <2>1, FS_Interval
  <2> QED  BY <2>2
<1>9. IsFiniteSet(Fresh(n)) /\ Cardinality(Fresh(n)) <= n
  BY <1>7, <1>8, FS_Injection
<1>10. ASSUME NEW r \in free, r \notin Fresh(n)
       PROVE  Cardinality(Fresh(n)) = n
  <2> DEFINE m == Cardinality(free)
  <2>1. m \in Nat /\ n <= m - 1
    BY <1>1, <1>2, <1>3, <1>10
  <2>2. IsFiniteSet(0 .. m - 1) /\ Cardinality(0 .. m - 1) = m
    <3> HIDE DEF m
    <3>1. 0 \in Int /\ m - 1 \in Int
      BY <2>1
    <3>2. IsFiniteSet(0 .. m - 1) /\ Cardinality(0 .. m - 1) = IF 0 > m - 1 THEN 0 ELSE m - 1 - 0 + 1
      BY <3>1, FS_Interval
    <3> QED  BY <2>1, <3>2
  <2>3. rank \in Injection(free, 0 .. m - 1)
    <3>1. rank \in [free -> 0 .. m - 1]
      BY <1>3, <1>6
    <3> QED  BY <1>5, <3>1 DEF Injection, IsInjective
  <2>4. rank \in Surjection(free, 0 .. m - 1)
    BY <2>2, <2>3, FS_Injection
  <2> HIDE DEF m
  <2>5. \A k \in 0 .. n - 1 : \E q \in free : rank[q] = k
    <3>1. \A k \in 0 .. n - 1 : k \in 0 .. m - 1
      BY <2>1
    <3> QED  BY <2>4, <3>1 DEF Surjection
  <2>6. \A k \in 0 .. n - 1 : \E q \in Fresh(n) : chosen[q] = k
    BY <1>2, <2>5
  <2>7. chosen \in Surjection(Fresh(n), 0 .. n - 1)
    BY <1>7, <2>6 DEF Surjection, Injection
  <2> QED  BY <1>7, <1>8, <2>7, FS_Injection
<1>11. Fresh(n) \subseteq free
  BY <1>2
<1> QED  BY <1>9, <1>10, <1>11, FS_CardinalityType DEF free

LEMMA NoneFresh == ASSUME ProgrammeAssumption PROVE Fresh(0) = {}
<1>1. 0 \in Nat /\ IsFiniteSet(Fresh(0)) /\ Cardinality(Fresh(0)) = 0
  BY FreshCount
<1> QED  BY <1>1, FS_EmptySet

LEMMA QuantityOf ==
  /\ \A b : Quantity(Qualifying(b)) = QualifyingLines(b)
  /\ Quantity(Bonus) = 1
  /\ \A a : Quantity(Adjusted(a)) = Manual[a]
  /\ \A k : k[1] \notin {"qualifying", "first-review-bonus", "manual"} => Quantity(k) = 0
BY Tags DEF Quantity

LEMMA QuantityType ==
  ASSUME ProgrammeAssumption, TablesOK, NEW k \in SourceKey
  PROVE  Quantity(k) \in Int
<1>1. \A b \in Booking : QualifyingLines(b) \in Int
  <2> TAKE b \in Booking
  <2>1. booking[b].rewards \subseteq Reward
    BY DEF TablesOK, BookingRow
  <2>2. Cardinality(booking[b].rewards) \in Nat
    BY <2>1, FS_Subset, FS_CardinalityType DEF ProgrammeAssumption
  <2> QED  BY <2>2 DEF QualifyingLines, ProgrammeAssumption
<1>2. \A a \in Adjustment : Manual[a] \in Int
  BY DEF ProgrammeAssumption
<1>3. \/ \E b \in Booking : k = Qualifying(b)
      \/ k = Bonus
      \/ \E a \in Adjustment : k = Adjusted(a)
      \/ k[1] \notin {"qualifying", "first-review-bonus", "manual"}
  BY Tags DEF SourceKey
<1> QED  BY <1>1, <1>2, <1>3, QuantityOf

LEMMA CreditsType ==
  ASSUME ProgrammeAssumption, TablesOK, IsFiniteSet(log), NEW keys \in SUBSET SourceKey, IsFiniteSet(keys)
  PROVE  CreditsWith(keys) \in Int
<1> DEFINE S == log \cup keys
           f == [key \in S |-> Quantity(key)]
<1>1. IsFiniteSet(S) /\ S \subseteq SourceKey
  BY FS_Union DEF TablesOK
<1>2. \A k \in S : f[k] \in Int
  BY <1>1, QuantityType
<1>3. CreditsWith(keys) = SumFunctionOnSet(f, S)
  BY DEF CreditsWith, SumFunction
<1> HIDE DEF f, S
<1> QED  BY <1>1, <1>2, <1>3, SumType

(* Another entry counts for what it is worth.                               *)
LEMMA CreditsWithOne ==
  ASSUME ProgrammeAssumption, TablesOK, IsFiniteSet(log), NEW k \in SourceKey
  PROVE  /\ Credits \in Int
         /\ k \notin log => CreditsWith({k}) = Credits + Quantity(k)
         /\ k \in log => CreditsWith({k}) = Credits
<1> DEFINE S == log \cup {k}
           f == [key \in log |-> Quantity(key)]
           g == [key \in S |-> Quantity(key)]
<1>1. IsFiniteSet(S) /\ S \subseteq SourceKey /\ log \subseteq S
  BY FS_AddElement DEF TablesOK
<1>2. \A x \in S : g[x] \in Int /\ g[x] = Quantity(x)
  BY <1>1, QuantityType
<1>3. \A x \in log : f[x] \in Int /\ f[x] = g[x]
  BY <1>1, <1>2
<1>4. CreditsWith({k}) = SumFunctionOnSet(g, S)
  BY DEF CreditsWith, SumFunction
<1>5. Credits = SumFunctionOnSet(f, log)
  <2>1. log \cup {} = log
    OBVIOUS
  <2> QED  BY <2>1 DEF Credits, CreditsWith, SumFunction
<1>6. k \in S
  OBVIOUS
<1> HIDE DEF f, g
<1>7. SumFunctionOnSet(f, log) = SumFunctionOnSet(g, log) /\ SumFunctionOnSet(f, log) \in Int
  BY <1>3, SumSame, SumType
<1>8. ASSUME k \notin log
      PROVE  SumFunctionOnSet(g, S) = g[k] + SumFunctionOnSet(g, log)
  BY <1>1, <1>2, <1>8, SumAdd
<1>9. k \in log => S = log
  OBVIOUS
<1>10. g[k] = Quantity(k) /\ g[k] \in Int
  BY <1>2, <1>6
<1> HIDE DEF S
<1> QED  BY <1>4, <1>5, <1>7, <1>8, <1>9, <1>10

LEMMA ConsumedType ==
  ASSUME ProgrammeAssumption, TablesOK
  PROVE  Consumed \in Int
<1> DEFINE f == [r \in Rewarded |-> reward[r].required]
<1>1. IsFiniteSet(Rewarded) /\ \A r \in Rewarded : f[r] \in Int
  <2>1. Rewarded \subseteq Reward
    BY DEF Rewarded
  <2>2. \A r \in Reward : reward[r].required \in Nat
    BY DEF TablesOK, RewardRow
  <2>3. IsFiniteSet(Rewarded)
    BY <2>1, FS_Subset DEF ProgrammeAssumption
  <2>4. ASSUME NEW r \in Rewarded
        PROVE  f[r] \in Int
    <3>1. f[r] = reward[r].required /\ reward[r].required \in Nat
      BY <2>1, <2>2
    <3> QED  BY <3>1
  <2> HIDE DEF f
  <2> QED  BY <2>3, <2>4
<1>2. Consumed = SumFunctionOnSet(f, Rewarded)
  BY DEF Consumed, SumFunction
<1> HIDE DEF f
<1> QED  BY <1>1, <1>2, SumType

LEMMA ProgressOf ==
  ASSUME ProgrammeAssumption, TablesOK, NEW credits \in Int
  PROVE  Progress(credits) = IF credits > Consumed THEN credits - Consumed ELSE 0
<1> DEFINE n == credits - Consumed
<1>1. Consumed \in Int /\ n \in Int
  BY ConsumedType
<1>2. Progress(credits) = Max({0, n})
  BY DEF Progress
<1>3. \E x \in {0, n} : \A y \in {0, n} : x >= y
  BY <1>1
<1>4. Max({0, n}) \in {0, n} /\ Max({0, n}) >= 0 /\ Max({0, n}) >= n
  <2> HIDE DEF n
  <2> QED  BY <1>3 DEF Max
<1> QED  BY <1>1, <1>2, <1>4

LEMMA DueOf ==
  ASSUME ProgrammeAssumption, TablesOK, NEW credits \in Int, credits >= Consumed
  PROVE  /\ settings.required \in Nat \ {0} /\ Due(credits) \in Nat
         /\ settings.required * Due(credits) <= credits - Consumed
         /\ settings.enabled =>
              credits - Consumed < settings.required * Due(credits) + settings.required
<1>1. PICK n \in Nat : n = credits - Consumed /\ Progress(credits) = n
  BY ConsumedType, ProgressOf
<1>2. PICK c \in Nat \ {0} : c = settings.required
  BY DEF TablesOK, ProgrammeAssumption
<1>3. n \div c \in Nat /\ c * (n \div c) <= n /\ n < c * (n \div c) + c
  OBVIOUS
<1>4. Due(credits) = IF settings.enabled THEN n \div c ELSE 0
  BY <1>1, <1>2 DEF Due
<1> QED  BY <1>1, <1>2, <1>3, <1>4

LEMMA NothingDue ==
  ASSUME ProgrammeAssumption, TablesOK, NEW credits \in Int, credits >= Consumed,
         credits - Consumed < settings.required
  PROVE  Due(credits) = 0
<1>1. PICK n \in Nat : n = credits - Consumed /\ Progress(credits) = n
  BY ConsumedType, ProgressOf
<1>2. PICK c \in Nat \ {0} : c = settings.required
  BY DEF TablesOK, ProgrammeAssumption
<1>3. n \div c = 0
  BY <1>1, <1>2
<1> QED  BY <1>1, <1>2, <1>3 DEF Due

(* Entries that are worth nothing leave the credits as they are, and it     *)
(* does not matter who counts an entry: the ledger or the one who reads it. *)
LEMMA CreditsAfter ==
  ASSUME ProgrammeAssumption, TablesOK, TablesOK', IsFiniteSet(log),
         NEW keys \in SUBSET SourceKey, IsFiniteSet(keys),
         NEW more \in SUBSET SourceKey, IsFiniteSet(log' \cup more),
         log \cup keys \subseteq log' \cup more,
         \A k \in log \cup keys : Quantity(k)' = Quantity(k),
         \A k \in (log' \cup more) \ (log \cup keys) : Quantity(k)' = 0
  PROVE  CreditsWith(more)' = CreditsWith(keys)
<1>1. PICK S : S = log \cup keys
  OBVIOUS
<1>2. PICK T : T = log' \cup more
  OBVIOUS
<1>3. PICK f : f = [k \in S |-> Quantity(k)]
  OBVIOUS
<1>4. PICK g : g = [k \in T |-> Quantity(k)']
  OBVIOUS
<1>5. CreditsWith(keys) = SumFunctionOnSet(f, S)
  BY <1>1, <1>3 DEF CreditsWith, SumFunction
<1>6. CreditsWith(more)' = SumFunctionOnSet(g, T)
  BY <1>2, <1>4 DEF CreditsWith, SumFunction
<1>7. IsFiniteSet(T) /\ S \in SUBSET T /\ S \subseteq SourceKey
  BY <1>1, <1>2 DEF TablesOK
<1>8. \A k \in S : f[k] \in Int /\ f[k] = g[k]
  BY <1>1, <1>3, <1>4, <1>7, QuantityType
<1>9. \A k \in T \ S : g[k] = 0
  BY <1>1, <1>2, <1>4
<1> QED  BY <1>5, <1>6, <1>7, <1>8, <1>9, SumExtend

(* Keys of the ledger that are no washes.                                   *)
Plain(k) == k[1] \notin {"qualifying", "first-review-bonus", "manual"}

(* Nothing happens to the lines, the payments and the rewards there are.    *)
Steady ==
  /\ UNCHANGED <<settings, changes>>
  /\ \A b \in Booking : /\ booking'[b].rewards = booking[b].rewards
                        /\ booking'[b].percent = booking[b].percent
                        /\ booking'[b].paid = booking[b].paid
  /\ log \subseteq log' /\ IsFiniteSet(log')
  /\ \A k \in log' \ log : Plain(k)
  /\ \A r \in Reward : /\ reward'[r].required = reward[r].required
                       /\ reward'[r].status = "none" <=> reward[r].status = "none"

LEMMA QuantitySteady ==
  ASSUME NEW k \in SourceKey,
         \A b \in Booking : k = Qualifying(b) => QualifyingLines(b)' = QualifyingLines(b)
  PROVE  Quantity(k)' = Quantity(k)
<1>1. CASE \E b \in Booking : k = Qualifying(b)
  <2>1. PICK b \in Booking : k = Qualifying(b)
    BY <1>1
  <2>2. Quantity(Qualifying(b)) = QualifyingLines(b)
    BY QuantityOf
  <2>3. Quantity(Qualifying(b))' = QualifyingLines(b)'
    BY Tags DEF Quantity
  <2> QED  BY <2>1, <2>2, <2>3
<1>2. CASE ~ \E b \in Booking : k = Qualifying(b)
  <2>1. k[1] # "qualifying"
    BY <1>2, Tags DEF SourceKey
  <2> QED  BY <2>1 DEF Quantity
<1> QED  BY <1>1, <1>2

LEMMA PlainIsNothing ==
  ASSUME NEW k, Plain(k)
  PROVE  Quantity(k) = 0 /\ Quantity(k)' = 0
BY DEF Plain, Quantity

LEMMA SteadyCredits ==
  ASSUME ProgrammeAssumption, TablesOK, TablesOK', IsFiniteSet(log), Steady,
         NEW keys \in SUBSET SourceKey, IsFiniteSet(keys)
  PROVE  CreditsWith(keys)' = CreditsWith(keys)
<1>1. IsFiniteSet(log' \cup keys) /\ log \cup keys \subseteq log' \cup keys
  BY FS_Union DEF Steady
<1>2. ASSUME NEW k \in log \cup keys
      PROVE  Quantity(k)' = Quantity(k)
  <2>1. \A b \in Booking : QualifyingLines(b)' = QualifyingLines(b)
    BY LinesKept DEF Steady
  <2>2. k \in SourceKey
    BY DEF TablesOK
  <2> QED  BY <2>1, <2>2, QuantitySteady
<1>3. ASSUME NEW k \in (log' \cup keys) \ (log \cup keys)
      PROVE  Quantity(k)' = 0
  <2>1. Plain(k)
    BY DEF Steady
  <2> QED  BY <2>1, PlainIsNothing
<1> QED  BY <1>1, <1>2, <1>3, CreditsAfter

LEMMA RequiredType ==
  ASSUME TablesOK
  PROVE  \A r \in Reward : reward[r].required \in Int
BY DEF TablesOK, RewardRow

(* What the rewards of F cost, that a step adds.                            *)
LEMMA ConsumedAfter ==
  ASSUME ProgrammeAssumption, TablesOK, TablesOK', NEW F \in SUBSET (Reward \ Rewarded),
         NEW c \in Int, Rewarded' = Rewarded \cup F,
         \A r \in Rewarded : reward'[r].required = reward[r].required,
         \A r \in F : reward'[r].required = c
  PROVE  Consumed' = Consumed + c * Cardinality(F)
<1>1. PICK S : S = Rewarded
  OBVIOUS
<1>2. PICK T : T = Rewarded'
  OBVIOUS
<1>3. PICK f : f = [r \in S |-> reward[r].required]
  OBVIOUS
<1>4. PICK g : g = [r \in T |-> reward'[r].required]
  OBVIOUS
<1>5. Consumed = SumFunctionOnSet(f, S)
  BY <1>1, <1>3 DEF Consumed, SumFunction
<1>6. Consumed' = SumFunctionOnSet(g, T)
  BY <1>2, <1>4 DEF Consumed, SumFunction
<1>7. T = S \cup F /\ S \cap F = {} /\ S \subseteq Reward /\ IsFiniteSet(S) /\ IsFiniteSet(F)
  BY <1>1, <1>2, FS_Subset DEF Rewarded, ProgrammeAssumption
<1>8. \A r \in S : f[r] \in Int /\ f[r] = g[r]
  BY <1>1, <1>3, <1>4, <1>7, RequiredType
<1>9. \A r \in F : g[r] = c
  BY <1>4, <1>7
<1>10. SumFunctionOnSet(f, S) = SumFunctionOnSet(g, S)
  BY <1>7, <1>8, SumSame
<1>11. \A r \in S \cup F : g[r] \in Int
  BY <1>8, <1>9
<1>12. SumFunctionOnSet(g, T) = SumFunctionOnSet(g, S) + SumFunctionOnSet(g, F)
  BY <1>7, <1>11, SumUnion
<1>13. SumFunctionOnSet(g, F) = c * Cardinality(F)
  BY <1>7, <1>9, SumConstant
<1> QED  BY <1>5, <1>6, <1>10, <1>12, <1>13

LEMMA ConsumedSame ==
  ASSUME ProgrammeAssumption, TablesOK, TablesOK', Rewarded' = Rewarded,
         \A r \in Rewarded : reward'[r].required = reward[r].required
  PROVE  Consumed' = Consumed
<1>1. PICK F \in SUBSET (Reward \ Rewarded) : F = {}
  OBVIOUS
<1>2. PICK c \in Int : c = 0
  OBVIOUS
<1>3. Rewarded' = Rewarded \cup F
  BY <1>1
<1>4. Consumed' = Consumed + c * Cardinality(F)
  BY <1>1, <1>3, ConsumedAfter
<1>5. Cardinality(F) = 0 /\ Consumed \in Int
  BY <1>1, FS_EmptySet, ConsumedType
<1> QED  BY <1>2, <1>4, <1>5

LEMMA SteadyConsumed ==
  ASSUME ProgrammeAssumption, TablesOK, TablesOK', Steady
  PROVE  Consumed' = Consumed /\ Rewarded' = Rewarded
<1>1. Rewarded' = Rewarded
  BY DEF Rewarded, Steady
<1>2. \A r \in Rewarded : reward'[r].required = reward[r].required
  BY DEF Rewarded, Steady
<1> QED  BY <1>1, <1>2, ConsumedSame

(* Credits, what they have bought and the settings say what is due.         *)
LEMMA DueSame ==
  ASSUME UNCHANGED settings, Consumed' = Consumed, NEW credits
  PROVE  Due(credits)' = Due(credits)
BY DEF Due, Progress

LEMMA CreditsAreWith ==
  ASSUME NEW keys, keys = {}
  PROVE  Credits = CreditsWith(keys) /\ Credits' = CreditsWith(keys)'
BY DEF Credits

LEMMA SoundTables == (Sound => TablesOK) /\ (Sound' => TablesOK')
BY DEF Sound, Types, TypeOK, TablesOK

LEMMA KeysType ==
  ASSUME NEW t, TxRow(t)
  PROVE  KeysOf(t) \in SUBSET SourceKey /\ IsFiniteSet(KeysOf(t))
<1>1. CASE t.kind = "cash"
  <2>1. t.booking \in Booking
    BY <1>1 DEF TxRow
  <2>2. \/ KeysOf(t) = {}
        \/ KeysOf(t) = {Qualifying(t.booking)}
    BY <1>1 DEF KeysOf, Credit
  <2>3. Qualifying(t.booking) \in SourceKey
    BY <2>1 DEF SourceKey
  <2>4. IsFiniteSet({Qualifying(t.booking)}) /\ IsFiniteSet({})
    BY FS_Singleton, FS_EmptySet
  <2> QED  BY <2>2, <2>3, <2>4
<1>2. CASE t.kind = "review"
  <2>1. KeysOf(t) = {Bonus} /\ Bonus \in SourceKey
    BY <1>2 DEF KeysOf, SourceKey
  <2> QED  BY <2>1, FS_Singleton
<1>3. CASE t.kind = "adjust"
  <2>1. t.adjustment \in Adjustment
    BY <1>3 DEF TxRow
  <2>2. KeysOf(t) = {Adjusted(t.adjustment)} /\ Adjusted(t.adjustment) \in SourceKey
    BY <1>3, <2>1 DEF KeysOf, SourceKey
  <2> QED  BY <2>2, FS_Singleton
<1>4. CASE t.kind \notin {"cash", "review", "adjust"}
  <2>1. KeysOf(t) = {}
    BY <1>4 DEF KeysOf
  <2> QED  BY <2>1, FS_EmptySet
<1> QED  BY <1>1, <1>2, <1>3, <1>4

(* What was due for a request is due still.                                 *)
LEMMA ReckonedKept ==
  ASSUME ProgrammeAssumption, TablesOK, TablesOK', IsFiniteSet(log), Steady,
         NEW t, TxRow(t), Reckoned(t)
  PROVE  Reckoned(t)'
<1> SUFFICES ASSUME t.read, Earning(t)'
             PROVE  /\ {Profile, Settings} \subseteq t.held
                    /\ CreditsWith(KeysOf(t))' >= Consumed'
                    /\ t.due = Due(CreditsWith(KeysOf(t)))'
  BY DEF Reckoned
<1>1. t.kind \notin {"idle", "adjust"} => t.booking \in Booking
  BY DEF TxRow
<1>2. Earning(t)
  BY <1>1 DEF Earning, EarnsRewards, Steady
<1>3. PICK keys : keys = KeysOf(t)
  OBVIOUS
<1>4. KeysOf(t)' = keys
  <2>1. t.kind = "cash" => QualifyingLines(t.booking)' = QualifyingLines(t.booking)
    BY <1>1, LinesKept DEF Steady
  <2> QED  BY <1>3, <2>1 DEF KeysOf, Credit
<1>5. PICK c : c = CreditsWith(keys)
  OBVIOUS
<1>6. keys \in SUBSET SourceKey /\ IsFiniteSet(keys)
  BY <1>3, KeysType
<1>7. CreditsWith(keys)' = c
  BY <1>5, <1>6, SteadyCredits
<1>8. /\ {Profile, Settings} \subseteq t.held /\ c >= Consumed /\ t.due = Due(c)
  BY <1>2, <1>3, <1>5 DEF Reckoned
<1>9. Consumed' = Consumed /\ Due(c)' = Due(c)
  BY SteadyConsumed, DueSame DEF Steady
<1> QED  BY <1>4, <1>7, <1>8, <1>9

(* Washes and rewards in balance, for the ledger as it is.                  *)
Balanced ==
  /\ IsFiniteSet(log)
  /\ NeverOverdrawn
  /\ Rewarded # Reward => RewardsComeWhenDue

LEMMA SteadyBalanced ==
  ASSUME ProgrammeAssumption, TablesOK, TablesOK', Balanced, Steady
  PROVE  Balanced'
<1>1. PICK keys \in SUBSET SourceKey : keys = {}
  OBVIOUS
<1>2. PICK c : c = Credits
  OBVIOUS
<1>3. Credits' = c
  BY <1>1, <1>2, FS_EmptySet, CreditsAreWith, SteadyCredits DEF Balanced
<1>4. Consumed' = Consumed /\ Rewarded' = Rewarded
  BY SteadyConsumed
<1>5. Due(c)' = Due(c)
  BY <1>4, DueSame DEF Steady
<1> QED  BY <1>2, <1>3, <1>4, <1>5 DEF Balanced, NeverOverdrawn, RewardsComeWhenDue, Steady

(* A step that leaves washes and rewards alone.                             *)
LEMMA SteadyAccounts ==
  ASSUME ProgrammeAssumption, Sound, Sound', Accounts, Steady, NEW p \in Session,
         \A q \in Session \ {p} : tx'[q] = tx[q],
         \A t : t = tx'[p] => Reckoned(t)
  PROVE  Accounts'
<1>1. TablesOK /\ TablesOK'
  BY SoundTables
<1>2. Balanced'
  BY <1>1, SteadyBalanced DEF Balanced, Accounts
<1>3. ASSUME NEW q \in Session
      PROVE  Reckoned(tx[q])'
  <2>1. PICK t : t = tx'[q]
    OBVIOUS
  <2>2. TxRow(t)
    BY <2>1 DEF Sound, Types, TxRow
  <2>3. Reckoned(t)
    BY <2>1 DEF Accounts
  <2>4. Reckoned(t)'
    BY <1>1, <2>2, <2>3, ReckonedKept DEF Accounts
  <2> QED  BY <2>1, <2>4 DEF Reckoned
<1> QED  BY <1>2, <1>3 DEF Balanced, Accounts

LEMMA SteadyTables ==
  ASSUME IsFiniteSet(log), UNCHANGED <<settings, changes, tables>>
  PROVE  Steady
BY DEF Steady, tables

LEMMA BeginsAccounts ==
  ASSUME ProgrammeAssumption, Sound, Sound', Accounts, NEW p \in Session, Begins(p)
  PROVE  Accounts'
<1>1. PICK t : Begin(p, t) /\ ~t.read
  <2>1. CASE \E b \in Booking, k \in Key, rewards \in SUBSET Rewarded, percent \in Percent \cup {0} :
               BeginCreate(p, k, b, rewards, percent)
    <3>1. PICK b \in Booking, k \in Key, rewards \in SUBSET Rewarded, percent \in Percent \cup {0} :
                 BeginCreate(p, k, b, rewards, percent)
      BY <2>1
    <3> DEFINE t == [Request("create", b) EXCEPT !.key = k, !.rewards = rewards, !.percent = percent]
    <3>2. Begin(p, t)
      BY <3>1 DEF BeginCreate
    <3>3. ~t.read
      BY DEF Request
    <3> HIDE DEF t
    <3> QED  BY <3>2, <3>3
  <2>2. CASE \E b \in Booking :
               BeginComplete(p, b) \/ BeginCash(p, b) \/ BeginCancel(p, b) \/ BeginReview(p, b)
    <3>1. PICK b \in Booking, kind \in {"complete", "cash", "cancel", "review"} :
            Begin(p, Request(kind, b))
      BY <2>2 DEF BeginComplete, BeginCash, BeginCancel, BeginReview
    <3>2. ~Request(kind, b).read
      BY DEF Request
    <3> QED  BY <3>1, <3>2
  <2>3. CASE \E a \in Adjustment : BeginAdjust(p, a)
    <3>1. PICK a \in Adjustment : BeginAdjust(p, a)
      BY <2>3
    <3> DEFINE t == [Request("adjust", None) EXCEPT !.adjustment = a]
    <3>2. Begin(p, t)
      BY <3>1 DEF BeginAdjust
    <3>3. ~t.read
      BY DEF Request
    <3> HIDE DEF t
    <3> QED  BY <3>2, <3>3
  <2> QED  BY <2>1, <2>2, <2>3 DEF Begins
<1>2. /\ tx'[p] = t /\ \A q \in Session \ {p} : tx'[q] = tx[q]
      /\ UNCHANGED <<settings, changes, tables>>
  BY <1>1, BeginTakes
<1>3. Reckoned(t)
  BY <1>1 DEF Reckoned
<1>4. Steady
  BY <1>2, SteadyTables DEF Accounts
<1> QED  BY <1>2, <1>3, <1>4, SteadyAccounts

LEMMA LockAccounts ==
  ASSUME ProgrammeAssumption, Sound, Sound', Accounts, NEW p \in Session,
         Lock(p) \/ Abort(p) \/ FindRecord(p)
  PROVE  Accounts'
<1>1. TxRow(tx[p]) /\ DOMAIN tx = Session /\ Reckoned(tx[p])
  BY DEF Sound, Types, Accounts
<1>2. PICK t : tx' = [tx EXCEPT ![p] = t] /\ Reckoned(t)
  <2>1. CASE Lock(p)
    <3>1. PICK l : tx' = [tx EXCEPT ![p].held = @ \cup {l}]
      BY <2>1 DEF Lock
    <3> DEFINE t == [tx[p] EXCEPT !.held = @ \cup {l}]
    <3>2. tx' = [tx EXCEPT ![p] = t]
      BY <3>1
    <3>3. /\ t.kind = tx[p].kind /\ t.booking = tx[p].booking /\ t.adjustment = tx[p].adjustment
          /\ tx[p].held \subseteq t.held /\ t.read = tx[p].read /\ t.due = tx[p].due
      BY <1>1 DEF TxRow, Fields
    <3> HIDE DEF t
    <3>4. Reckoned(t)
      <4>1. Earning(t) = Earning(tx[p]) /\ KeysOf(t) = KeysOf(tx[p])
        BY <3>3 DEF Earning, EarnsRewards, KeysOf
      <4> QED  BY <1>1, <3>3, <4>1 DEF Reckoned
    <3> QED  BY <3>2, <3>4
  <2>2. CASE Abort(p)
    BY <2>2, IdleRow DEF Abort, Reckoned, Earning, EarnsRewards
  <2>3. CASE FindRecord(p)
    <3> DEFINE t == [tx[p] EXCEPT !.asked = TRUE]
    <3>1. tx' = [tx EXCEPT ![p] = t]
      BY <2>3 DEF FindRecord
    <3>2. t.kind = "create"
      BY <1>1, <2>3 DEF TxRow, Fields, FindRecord
    <3> HIDE DEF t
    <3> QED  BY <3>1, <3>2 DEF Reckoned, Earning, EarnsRewards
  <2> QED  BY <2>1, <2>2, <2>3
<1>3. tx'[p] = t /\ \A q \in Session \ {p} : tx'[q] = tx[q]
  BY <1>1, <1>2, TxChanged
<1>4. UNCHANGED <<settings, changes, tables>>
  BY DEF Lock, Abort, FindRecord
<1>5. Steady
  BY <1>4, SteadyTables DEF Accounts
<1> QED  BY <1>2, <1>3, <1>5, SteadyAccounts

(* What a request reckons with the locks that it has.                       *)
LEMMA ReadsAccounts ==
  ASSUME ProgrammeAssumption, Sound, Sound', Accounts, NEW p \in Session, NEW kind, NEW credits,
         Reads(p, kind, credits), kind \in Kind \ {"idle"},
         Earning(tx[p]) => credits = CreditsWith(KeysOf(tx[p])) /\ credits >= Consumed
  PROVE  Accounts'
<1>1. /\ tx'[p].kind = kind /\ tx[p].kind = kind /\ Wanted(p) = {}
      /\ tx'[p].booking = tx[p].booking /\ tx'[p].held = tx[p].held
      /\ tx'[p].due = Due(credits) /\ tx'[p].adjustment = tx[p].adjustment
      /\ \A q \in Session \ {p} : tx'[q] = tx[q]
      /\ UNCHANGED <<settings, changes, tables>>
  BY ReadsTakes
<1>2. PICK t : t = tx'[p]
  OBVIOUS
<1>3. Earning(t) = Earning(tx[p]) /\ KeysOf(t) = KeysOf(tx[p])
  BY <1>1, <1>2 DEF Earning, EarnsRewards, KeysOf
<1>4. Earning(tx[p]) => {Profile, Settings} \subseteq tx[p].held
  BY <1>1, WorkLocks, CustomerLocks DEF Earning, EarnsRewards
<1>5. Reckoned(t)
  BY <1>1, <1>2, <1>3, <1>4 DEF Reckoned
<1>6. Steady
  BY <1>1, SteadyTables DEF Accounts
<1> QED  BY <1>1, <1>2, <1>5, <1>6, SteadyAccounts

(* The ledger and one more key, whether it is there or not.                 *)
LEMMA WashesAdd ==
  ASSUME ProgrammeAssumption, TablesOK, IsFiniteSet(log), NeverOverdrawn, NEW k \in SourceKey,
         k \in log \/ Quantity(k) >= 0
  PROVE  CreditsWith({k}) >= Consumed
<1>1. Quantity(k) \in Int /\ Consumed \in Int /\ Credits \in Int
  BY QuantityType, ConsumedType, CreditsWithOne
<1>2. Credits >= Consumed
  BY DEF NeverOverdrawn
<1> QED  BY <1>1, <1>2, CreditsWithOne

LEMMA SessionReadsAccounts ==
  ASSUME ProgrammeAssumption, Sound, Sound', Accounts, NEW p \in Session,
         ReadCreate(p) \/ ReadSettlement(p) \/ ReadCancel(p) \/ ReadReview(p) \/ ReadAdjust(p)
  PROVE  Accounts'
<1>1. TablesOK /\ TxRow(tx[p]) /\ IsFiniteSet(log) /\ NeverOverdrawn
  BY SoundTables DEF Sound, Types, Accounts
<1>2. PICK keys : keys = {}
  OBVIOUS
<1>3. CASE ReadCreate(p)
  <2>1. Reads(p, "create", 0) /\ tx[p].kind = "create"
    BY <1>3 DEF ReadCreate, Reads
  <2>2. ~Earning(tx[p])
    BY <2>1 DEF Earning, EarnsRewards
  <2> QED  BY <2>1, <2>2, ReadsAccounts DEF Kind
<1>4. CASE Reads(p, "complete", Credits)
  <2>1. KeysOf(tx[p]) = keys
    BY <1>2, <1>4 DEF Reads, KeysOf
  <2>2. Credits = CreditsWith(keys) /\ Credits >= Consumed
    BY <1>1, <1>2, CreditsAreWith DEF NeverOverdrawn
  <2>3. PICK c : c = Credits
    OBVIOUS
  <2>4. Reads(p, "complete", c) /\ c = CreditsWith(KeysOf(tx[p])) /\ c >= Consumed
    BY <1>4, <2>1, <2>2, <2>3
  <2> QED  BY <2>4, ReadsAccounts DEF Kind
<1>5. CASE Reads(p, "cash", CreditsWith(Credit(tx[p].booking)))
  <2>1. PICK b : b = tx[p].booking
    OBVIOUS
  <2>2. PICK c : c = CreditsWith(Credit(b))
    OBVIOUS
  <2>3. Reads(p, "cash", c) /\ tx[p].kind = "cash" /\ b \in Booking
    BY <1>1, <1>5, <2>1, <2>2 DEF Reads, TxRow
  <2>4. KeysOf(tx[p]) = Credit(b)
    BY <2>1, <2>3 DEF KeysOf
  <2>5. c >= Consumed
    <3>1. CASE QualifyingLines(b) > 0
      <4>1. Credit(b) = {Qualifying(b)} /\ Qualifying(b) \in SourceKey
        BY <2>3, <3>1 DEF Credit, SourceKey
      <4>2. Quantity(Qualifying(b)) \in Int /\ Quantity(Qualifying(b)) > 0
        BY <1>1, <3>1, <4>1, QuantityOf, QuantityType
      <4>3. Quantity(Qualifying(b)) >= 0
        BY <4>2
      <4> QED  BY <1>1, <2>2, <4>1, <4>3, WashesAdd
    <3>2. CASE ~(QualifyingLines(b) > 0)
      <4>1. Credit(b) = keys
        BY <1>2, <3>2 DEF Credit
      <4> QED  BY <1>1, <1>2, <2>2, <4>1, CreditsAreWith DEF NeverOverdrawn
    <3> QED  BY <3>1, <3>2
  <2> QED  BY <2>2, <2>3, <2>4, <2>5, ReadsAccounts DEF Kind
<1>6. CASE ReadCancel(p)
  <2>1. Reads(p, "cancel", 0) /\ tx[p].kind = "cancel"
    BY <1>6 DEF ReadCancel, Reads
  <2>2. ~Earning(tx[p])
    BY <2>1 DEF Earning, EarnsRewards
  <2> QED  BY <2>1, <2>2, ReadsAccounts DEF Kind
<1>7. CASE ReadReview(p)
  <2>1. PICK c : c = CreditsWith({Bonus})
    OBVIOUS
  <2>2. Reads(p, "review", c) /\ KeysOf(tx[p]) = {Bonus}
    BY <1>7, <2>1 DEF ReadReview, Reads, KeysOf
  <2>3. Bonus \in SourceKey /\ Quantity(Bonus) >= 0
    BY QuantityOf DEF SourceKey
  <2>4. c >= Consumed
    BY <1>1, <2>1, <2>3, WashesAdd
  <2> QED  BY <2>1, <2>2, <2>4, ReadsAccounts DEF Kind
<1>8. CASE ReadAdjust(p)
  <2>1. PICK a : a = tx[p].adjustment
    OBVIOUS
  <2>2. PICK c : c = CreditsWith({Adjusted(a)})
    OBVIOUS
  <2>3. /\ Reads(p, "adjust", c) /\ tx[p].kind = "adjust" /\ Adjusted(a) \notin log
        /\ -Manual[a] <= Progress(Credits)
    BY <1>8, <2>1, <2>2 DEF ReadAdjust, Reads, Debitable
  <2>4. KeysOf(tx[p]) = {Adjusted(a)} /\ a \in Adjustment
    BY <1>1, <2>1, <2>3 DEF KeysOf, TxRow
  <2>5. Adjusted(a) \in SourceKey /\ Manual[a] \in Int
    BY <2>4 DEF SourceKey, ProgrammeAssumption
  <2>6. c = Credits + Manual[a] /\ Credits \in Int /\ Consumed \in Int
    BY <1>1, <2>2, <2>3, <2>5, QuantityOf, CreditsWithOne, ConsumedType
  <2>7. Progress(Credits) = (IF Credits > Consumed THEN Credits - Consumed ELSE 0)
    <3>1. PICK d \in Int : d = Credits
      BY <2>6
    <3>2. Progress(d) = (IF d > Consumed THEN d - Consumed ELSE 0)
      BY <1>1, ProgressOf
    <3> QED  BY <3>1, <3>2
  <2>8. c >= Consumed
    BY <1>1, <2>3, <2>5, <2>6, <2>7 DEF NeverOverdrawn
  <2> QED  BY <2>2, <2>3, <2>4, <2>8, ReadsAccounts DEF Kind
<1> QED  BY <1>3, <1>4, <1>5, <1>6, <1>7, <1>8 DEF ReadSettlement

(* Who has the customer is the only one who reckons.                        *)
LEMMA OthersReckoned ==
  ASSUME Sound, Ledger, Accounts, NEW p \in Session, NEW q \in Session \ {p}, tx'[q] = tx[q],
         Profile \in tx[p].held,
         \A b \in Booking : booking'[b].paid # booking[b].paid =>
                              JobLock(b) \in tx[p].held \/ booking[b].status = "none"
  PROVE  Reckoned(tx[q])'
<1>1. PICK t : t = tx[q]
  OBVIOUS
<1>2. TxRow(t) /\ Informed(t) /\ Reckoned(t)
  BY <1>1 DEF Sound, Types, Ledger, Accounts
<1>3. \A l : l \in tx[p].held /\ l \in t.held => l = Reference
  BY <1>1 DEF Sound, Locking, Exclusive
<1>4. ~(t.read /\ Earning(t))
  BY <1>2, <1>3 DEF Reckoned, Profile, Reference
<1>5. ASSUME t.read
      PROVE  Earning(t)' <=> Earning(t)
  <2>1. CASE t.kind = "complete"
    <3>1. t.booking \in Booking /\ booking[t.booking].status # "none" /\ JobLock(t.booking) \in t.held
      BY <1>2, <1>5, <2>1 DEF TxRow, Informed
    <3>2. JobLock(t.booking) \notin tx[p].held
      BY <1>3, <3>1 DEF JobLock, Reference
    <3> QED  BY <2>1, <3>1, <3>2 DEF Earning, EarnsRewards
  <2>2. CASE t.kind # "complete"
    BY <2>2 DEF Earning, EarnsRewards
  <2> QED  BY <2>1, <2>2
<1>6. ~(t.read /\ Earning(t)')
  BY <1>4, <1>5
<1> QED  BY <1>1, <1>6 DEF Reckoned

LEMMA WriteAccounts ==
  ASSUME Sound, NEW p \in Session, tx' = [tx EXCEPT ![p] = Idle], Balanced',
         \A q \in Session \ {p} : tx'[q] = tx[q] => Reckoned(tx[q])'
  PROVE  Accounts'
<1>1. tx'[p] = Idle /\ \A q \in Session \ {p} : tx'[q] = tx[q]
  BY TxChanged DEF Sound, Types
<1>2. Reckoned(tx[p])'
  BY <1>1 DEF Reckoned, Idle, Request
<1>3. \A q \in Session : Reckoned(tx[q])'
  BY <1>1, <1>2
<1> QED  BY <1>3 DEF Accounts, Balanced

(* A write that leaves washes and rewards alone.                            *)
LEMMA SteadyWriteAccounts ==
  ASSUME ProgrammeAssumption, Sound, Sound', Accounts, NEW p \in Session,
         tx' = [tx EXCEPT ![p] = Idle], Steady
  PROVE  Accounts'
<1>1. tx'[p] = Idle /\ \A q \in Session \ {p} : tx'[q] = tx[q]
  BY TxChanged DEF Sound, Types
<1>2. ~Idle.read
  BY DEF Idle, Request
<1>3. \A t : t = tx'[p] => Reckoned(t)
  BY <1>1, <1>2 DEF Reckoned
<1> QED  BY <1>1, <1>3, SteadyAccounts

(* The same of the state after a step.                                      *)
LEMMA NothingDueNext ==
  ASSUME NEW c \in Int
  PROVE  (/\ ProgrammeAssumption /\ TablesOK
          /\ c >= Consumed /\ c - Consumed < settings.required)' => Due(c)' = 0
<1>1. (/\ ProgrammeAssumption /\ TablesOK
       /\ c >= Consumed /\ c - Consumed < settings.required) => Due(c) = 0
  BY NothingDue
<1>2. ((/\ ProgrammeAssumption /\ TablesOK
        /\ c >= Consumed /\ c - Consumed < settings.required) => Due(c) = 0)'
  BY <1>1, PTL
<1> QED  BY <1>2

(* A request that earns writes what it reckoned: washes and rewards stay in *)
(* balance, and nothing that is due is left while there are rows.           *)
LEMMA EarnBalanced ==
  ASSUME ProgrammeAssumption, TablesOK, TablesOK', IsFiniteSet(log), IsFiniteSet(log'),
         NEW keys \in SUBSET SourceKey, IsFiniteSet(keys), NEW n,
         CreditsWith(keys) >= Consumed, n = Due(CreditsWith(keys)),
         UNCHANGED settings,
         \A b \in Booking : booking'[b].rewards = booking[b].rewards
                            /\ booking'[b].percent = booking[b].percent,
         log \cup keys \subseteq log', \A k \in log' \ (log \cup keys) : Plain(k),
         \A r \in Fresh(n) : reward'[r].status # "none"
                             /\ reward'[r].required = settings.required,
         \A r \in Reward \ Fresh(n) :
           /\ reward'[r].required = reward[r].required
           /\ reward'[r].status = "none" <=> reward[r].status = "none"
  PROVE  Balanced'
<1>1. PICK c \in Int : c = CreditsWith(keys)
  BY CreditsType
<1>2. PICK s \in Nat \ {0} : s = settings.required /\ s = settings'.required
  BY DEF TablesOK, ProgrammeAssumption
<1>3. /\ n \in Nat /\ s * n <= c - Consumed
      /\ settings.enabled => c - Consumed < s * n + s
  BY <1>1, <1>2, DueOf
<1>4. PICK F : F = Fresh(n)
  OBVIOUS
<1>5. /\ F \in SUBSET (Reward \ Rewarded) /\ Cardinality(F) \in Nat /\ Cardinality(F) <= n
      /\ F # Reward \ Rewarded => Cardinality(F) = n
  <2>1. F \subseteq Reward \ Rewarded
    BY <1>4, FreshAreNew DEF Rewarded
  <2> QED  BY <1>3, <1>4, <2>1, FreshCount
<1>6. Rewarded' = Rewarded \cup F
  BY <1>4, <1>5 DEF Rewarded
<1>7. Consumed' = Consumed + s * Cardinality(F)
  <2>1. \A r \in Rewarded : reward'[r].required = reward[r].required
    BY <1>4, <1>5 DEF Rewarded
  <2>2. \A r \in F : reward'[r].required = s
    BY <1>2, <1>4
  <2>3. s \in Int
    BY <1>2
  <2> QED  BY <1>5, <1>6, <2>1, <2>2, <2>3, ConsumedAfter
<1>8. Credits' = c
  <2>1. PICK more \in SUBSET SourceKey : more = {}
    OBVIOUS
  <2>2. IsFiniteSet(log' \cup more) /\ log \cup keys \subseteq log' \cup more
    BY <2>1
  <2>3. ASSUME NEW k \in log \cup keys
        PROVE  Quantity(k)' = Quantity(k)
    <3>1. \A b \in Booking : QualifyingLines(b)' = QualifyingLines(b)
      BY LinesKept
    <3>2. k \in SourceKey
      BY DEF TablesOK
    <3> QED  BY <3>1, <3>2, QuantitySteady
  <2>4. ASSUME NEW k \in (log' \cup more) \ (log \cup keys)
        PROVE  Quantity(k)' = 0
    <3>1. Plain(k)
      BY <2>1
    <3> QED  BY <3>1, PlainIsNothing
  <2>5. CreditsWith(more)' = CreditsWith(keys)
    BY <2>2, <2>3, <2>4, CreditsAfter
  <2> QED  BY <1>1, <2>1, <2>5, CreditsAreWith
<1>9. Consumed \in Int /\ Consumed' \in Int
  <2>1. Consumed \in Int
    BY ConsumedType
  <2> QED  BY <1>2, <1>5, <1>7, <2>1
<1>10. PICK m \in Nat : m = Cardinality(F)
  BY <1>5
<1>11. s * m <= s * n
  BY <1>2, <1>3, <1>5, <1>10
<1>12. NeverOverdrawn'
  <2>1. c >= Consumed'
    BY <1>1, <1>2, <1>3, <1>7, <1>9, <1>10, <1>11
  <2> QED  BY <1>8, <2>1 DEF NeverOverdrawn
<1>13. ASSUME Rewarded' # Reward
       PROVE  Due(c)' = 0
  <2>1. F # Reward \ Rewarded
    BY <1>6, <1>13 DEF Rewarded
  <2>2. m = n
    BY <1>5, <1>10, <2>1
  <2>3. CASE settings.enabled
    <3>1. c - Consumed' < s /\ c >= Consumed'
      <4>1. s * n \in Nat /\ c - Consumed < s * n + s
        BY <1>2, <1>3, <2>3
      <4>2. Consumed' = Consumed + s * n
        BY <1>7, <1>10, <2>2
      <4> HIDE DEF Consumed
      <4> QED  BY <1>1, <1>2, <1>3, <1>9, <4>1, <4>2
    <3> QED  BY <1>1, <1>2, <3>1, NothingDueNext
  <2>4. CASE ~settings.enabled
    BY <2>4 DEF Due
  <2> QED  BY <2>3, <2>4
<1>14. (Rewarded # Reward => RewardsComeWhenDue)'
  BY <1>8, <1>13 DEF RewardsComeWhenDue
<1> QED  BY <1>12, <1>14 DEF Balanced

LEMMA SetsAreFinite ==
  ASSUME ProgrammeAssumption, TablesOK, NEW b \in Booking, NEW n
  PROVE  /\ IsFiniteSet({Reserved(r, b) : r \in ReservedBy(b)})
         /\ IsFiniteSet({Redeemed(r) : r \in ReservedBy(b)})
         /\ IsFiniteSet({Released(r, b) : r \in Releasable(b)})
         /\ IsFiniteSet(EarnKeys(n)) /\ IsFiniteSet(Credit(b))
<1>1. /\ IsFiniteSet(ReservedBy(b)) /\ IsFiniteSet(Releasable(b)) /\ IsFiniteSet(Fresh(n))
  <2>1. booking[b].rewards \subseteq Reward
    BY DEF TablesOK, BookingRow
  <2> QED  BY <2>1, FS_Subset DEF ReservedBy, Releasable, Fresh, ProgrammeAssumption
<1>2. ASSUME NEW S, IsFiniteSet(S)
      PROVE  /\ IsFiniteSet({Reserved(r, b) : r \in S}) /\ IsFiniteSet({Redeemed(r) : r \in S})
             /\ IsFiniteSet({Released(r, b) : r \in S}) /\ IsFiniteSet({Earned(r) : r \in S})
  <2> DEFINE f1 == [r \in S |-> Reserved(r, b)]
             f2 == [r \in S |-> Redeemed(r)]
             f3 == [r \in S |-> Released(r, b)]
             f4 == [r \in S |-> Earned(r)]
  <2>1. /\ {f1[r] : r \in S} = {Reserved(r, b) : r \in S}
        /\ {f2[r] : r \in S} = {Redeemed(r) : r \in S}
        /\ {f3[r] : r \in S} = {Released(r, b) : r \in S}
        /\ {f4[r] : r \in S} = {Earned(r) : r \in S}
    OBVIOUS
  <2> HIDE DEF f1, f2, f3, f4
  <2>2. /\ IsFiniteSet({f1[r] : r \in S}) /\ IsFiniteSet({f2[r] : r \in S})
        /\ IsFiniteSet({f3[r] : r \in S}) /\ IsFiniteSet({f4[r] : r \in S})
    BY <1>2, FiniteImage
  <2> QED  BY <2>1, <2>2
<1>3. IsFiniteSet(Credit(b))
  BY FS_Singleton, FS_EmptySet DEF Credit
<1> QED  BY <1>1, <1>2, <1>3 DEF EarnKeys

LEMMA PlainKeys ==
  \A r, b : Plain(Reserved(r, b)) /\ Plain(Released(r, b)) /\ Plain(Redeemed(r)) /\ Plain(Earned(r))
BY Tags DEF Plain

(* Rewards before and after the step of a request that redeems and earns.   *)
LEMMA RewardsEarned ==
  ASSUME TablesOK, NEW b, NEW n, NEW r \in Reward,
         reward' = Earn(RedeemedRewards(b), n) \/ reward' = Earn(reward, n)
  PROVE  /\ r \in Fresh(n) => reward'[r].status # "none"
                              /\ reward'[r].required = settings.required
         /\ r \notin Fresh(n) => /\ reward'[r].required = reward[r].required
                                 /\ reward'[r].status = "none" <=> reward[r].status = "none"
<1>1. reward[r] \in RewardRow
  BY DEF TablesOK
<1>2. /\ RedeemedRewards(b)[r].required = reward[r].required
      /\ RedeemedRewards(b)[r].status = "none" <=> reward[r].status = "none"
  BY <1>1 DEF RedeemedRewards, RewardRow, ReservedBy
<1> QED  BY <1>2 DEF Earn

(* A request that earns has the customer to itself.                         *)
LEMMA EarnAccounts ==
  ASSUME ProgrammeAssumption, Sound, Sound', Ledger, Accounts, NEW p \in Session,
         tx' = [tx EXCEPT ![p] = Idle], tx[p].read, Earning(tx[p]),
         UNCHANGED <<settings, changes>>, IsFiniteSet(log'), NEW n, n = tx[p].due, NEW b,
         reward' = Earn(RedeemedRewards(b), n) \/ reward' = Earn(reward, n),
         \A c \in Booking : booking'[c].rewards = booking[c].rewards
                            /\ booking'[c].percent = booking[c].percent,
         \A c \in Booking : booking'[c].paid # booking[c].paid => JobLock(c) \in tx[p].held,
         log \cup KeysOf(tx[p]) \subseteq log',
         \A k \in log' \ (log \cup KeysOf(tx[p])) : Plain(k)
  PROVE  Accounts'
<1>1. TablesOK /\ TablesOK' /\ TxRow(tx[p]) /\ IsFiniteSet(log)
  BY SoundTables DEF Sound, Types, Accounts
<1>2. PICK keys : keys = KeysOf(tx[p])
  OBVIOUS
<1>3. /\ Profile \in tx[p].held /\ CreditsWith(keys) >= Consumed
      /\ n = Due(CreditsWith(keys))
  BY <1>2 DEF Accounts, Reckoned
<1>4. keys \in SUBSET SourceKey /\ IsFiniteSet(keys)
  BY <1>1, <1>2, KeysType
<1>5. \A r \in Fresh(n) : reward'[r].status # "none" /\ reward'[r].required = settings.required
  <2>1. Fresh(n) \subseteq Reward
    BY FreshAreNew
  <2> QED  BY <1>1, <2>1, RewardsEarned
<1>6. \A r \in Reward \ Fresh(n) :
           /\ reward'[r].required = reward[r].required
           /\ reward'[r].status = "none" <=> reward[r].status = "none"
  BY ZenonT(40), <1>1, RewardsEarned
<1>7. Balanced'
  <2>1. log \cup keys \subseteq log' /\ \A k \in log' \ (log \cup keys) : Plain(k)
    BY <1>2
  <2> QED  BY <1>1, <1>3, <1>4, <1>5, <1>6, <2>1, EarnBalanced
<1>8. \A q \in Session \ {p} : tx'[q] = tx[q] => Reckoned(tx[q])'
  BY <1>3, OthersReckoned
<1> QED  BY <1>7, <1>8, WriteAccounts

LEMMA CommitCompleteAccounts ==
  ASSUME ProgrammeAssumption, Sound, Sound', Ledger, Accounts, NEW p \in Session, CommitComplete(p)
  PROVE  Accounts'
<1>0. PICK b : b = tx[p].booking
  OBVIOUS
<1>1. PICK n : n = IF EarnsRewards(tx[p]) THEN tx[p].due ELSE 0
  OBVIOUS
<1>2. /\ tx[p].kind = "complete" /\ tx[p].read /\ tx' = [tx EXCEPT ![p] = Idle]
      /\ Writes(p, "complete") /\ UNCHANGED <<settings, changes>>
  BY DEF CommitComplete, Writes
<1>3. TablesOK /\ b \in Booking
  BY <1>0, <1>2, BookingOf
<1>4. /\ reward' = Earn(RedeemedRewards(b), n)
      /\ log' = log \cup {Redeemed(r) : r \in ReservedBy(b)} \cup EarnKeys(n)
  BY <1>0, <1>1 DEF CommitComplete
<1>5. \A c \in Booking : /\ booking'[c].rewards = booking[c].rewards
                         /\ booking'[c].percent = booking[c].percent
                         /\ booking'[c].paid = booking[c].paid
  BY <1>0, <1>3, CommitCompleteTakes
<1>6. log \subseteq log' /\ IsFiniteSet(log') /\ \A k \in log' \ log : Plain(k)
  <2>1. IsFiniteSet(log')
    BY <1>3, <1>4, SetsAreFinite, FS_Union DEF Accounts
  <2> QED  BY <1>4, <2>1, PlainKeys DEF EarnKeys
<1>7. CASE EarnsRewards(tx[p])
  <2>1. Earning(tx[p]) /\ KeysOf(tx[p]) = {} /\ n = tx[p].due
    BY <1>1, <1>2, <1>7 DEF Earning, KeysOf
  <2> QED  BY <1>2, <1>4, <1>5, <1>6, <2>1, EarnAccounts
<1>8. CASE ~EarnsRewards(tx[p])
  <2>1. n = 0 /\ Fresh(n) = {}
    BY <1>1, <1>8, NoneFresh
  <2>2. Steady
    BY ZenonT(40), <1>2, <1>3, <1>4, <1>5, <1>6, <2>1, RewardsEarned DEF Steady
  <2> QED  BY <1>2, <2>2, SteadyWriteAccounts
<1> QED  BY <1>7, <1>8

LEMMA CommitCashAccounts ==
  ASSUME ProgrammeAssumption, Sound, Sound', Ledger, Accounts, NEW p \in Session, CommitCash(p)
  PROVE  Accounts'
<1>0. PICK b : b = tx[p].booking
  OBVIOUS
<1>1. PICK n : n = tx[p].due
  OBVIOUS
<1>2. /\ tx[p].kind = "cash" /\ tx[p].read /\ tx' = [tx EXCEPT ![p] = Idle]
      /\ Writes(p, "cash") /\ UNCHANGED <<settings, changes>>
  BY DEF CommitCash, Writes
<1>3. TablesOK /\ b \in Booking
  BY <1>0, <1>2, BookingOf
<1>4. /\ reward' = Earn(RedeemedRewards(b), n)
      /\ log' = log \cup {Redeemed(r) : r \in ReservedBy(b)} \cup Credit(b) \cup EarnKeys(n)
  BY <1>0, <1>1 DEF CommitCash
<1>5. \A c \in Booking : /\ booking'[c].rewards = booking[c].rewards
                         /\ booking'[c].percent = booking[c].percent
                         /\ c # b => booking'[c] = booking[c]
  BY <1>0, <1>3, CommitCashTakes
<1>6. JobLock(b) \in tx[p].held
  BY <1>0, <1>2 DEF Ledger, Informed
<1>7. Earning(tx[p]) /\ KeysOf(tx[p]) = Credit(b)
  BY <1>0, <1>2 DEF Earning, KeysOf, EarnsRewards
<1>8. /\ log \cup Credit(b) \subseteq log' /\ IsFiniteSet(log')
      /\ \A k \in log' \ (log \cup Credit(b)) : Plain(k)
  <2>1. IsFiniteSet(log')
    BY <1>3, <1>4, SetsAreFinite, FS_Union DEF Accounts
  <2> QED  BY ZenonT(40), <1>4, <2>1, PlainKeys DEF EarnKeys
<1> QED  BY <1>1, <1>2, <1>4, <1>5, <1>6, <1>7, <1>8, EarnAccounts

LEMMA CommitAdjustAccounts ==
  ASSUME ProgrammeAssumption, Sound, Sound', Ledger, Accounts, NEW p \in Session, CommitAdjust(p)
  PROVE  Accounts'
<1>0. PICK a : a = tx[p].adjustment
  OBVIOUS
<1>1. PICK n : n = tx[p].due
  OBVIOUS
<1>2. /\ tx[p].kind = "adjust" /\ tx[p].read /\ tx' = [tx EXCEPT ![p] = Idle]
      /\ UNCHANGED <<settings, changes, booking>>
  BY DEF CommitAdjust, Writes
<1>3. /\ reward' = Earn(reward, n)
      /\ log' = log \cup {Adjusted(a)} \cup EarnKeys(n)
  BY <1>0, <1>1 DEF CommitAdjust
<1>4. Earning(tx[p]) /\ KeysOf(tx[p]) = {Adjusted(a)}
  BY <1>0, <1>2 DEF Earning, KeysOf
<1>5. /\ log \cup {Adjusted(a)} \subseteq log' /\ IsFiniteSet(log')
      /\ \A k \in log' \ (log \cup {Adjusted(a)}) : Plain(k)
  <2>1. IsFiniteSet(EarnKeys(n))
    <3> DEFINE f == [r \in Fresh(n) |-> Earned(r)]
    <3>1. IsFiniteSet(Fresh(n))
      BY FS_Subset DEF Fresh, ProgrammeAssumption
    <3>2. EarnKeys(n) = {f[r] : r \in Fresh(n)}
      BY DEF EarnKeys
    <3> HIDE DEF f
    <3> QED  BY <3>1, <3>2, FiniteImage
  <2>2. IsFiniteSet(log')
    BY <1>3, <2>1, FS_Union, FS_Singleton DEF Accounts
  <2> QED  BY <1>3, <2>2, PlainKeys DEF EarnKeys
<1> QED  BY <1>1, <1>2, <1>3, <1>4, <1>5, EarnAccounts

LEMMA CommitReviewAccounts ==
  ASSUME ProgrammeAssumption, Sound, Sound', Ledger, Accounts, NEW p \in Session, CommitReview(p)
  PROVE  Accounts'
<1>0. PICK b : b = tx[p].booking
  OBVIOUS
<1>1. PICK n : n = IF Bonus \in log THEN 0 ELSE tx[p].due
  OBVIOUS
<1>2. /\ tx[p].kind = "review" /\ tx[p].read /\ tx' = [tx EXCEPT ![p] = Idle]
      /\ Writes(p, "review") /\ UNCHANGED <<settings, changes>>
  BY DEF CommitReview, Writes
<1>3. TablesOK /\ b \in Booking
  BY <1>0, <1>2, BookingOf
<1>4. reward' = Earn(reward, n) /\ log' = log \cup {Bonus} \cup EarnKeys(n)
  BY <1>1 DEF CommitReview
<1>5. RowsAlike
  BY <1>0, <1>3, CommitReviewAlike
<1>6. /\ log \cup {Bonus} \subseteq log' /\ IsFiniteSet(log')
      /\ \A k \in log' \ (log \cup {Bonus}) : Plain(k)
  <2>1. IsFiniteSet(log')
    BY <1>3, <1>4, SetsAreFinite, FS_Union, FS_Singleton DEF Accounts
  <2> QED  BY <1>4, <2>1, PlainKeys DEF EarnKeys
<1>7. CASE Bonus \notin log
  <2>1. Earning(tx[p]) /\ KeysOf(tx[p]) = {Bonus} /\ n = tx[p].due
    BY <1>1, <1>2, <1>7 DEF Earning, KeysOf
  <2> QED  BY <1>2, <1>4, <1>5, <1>6, <2>1, EarnAccounts DEF RowsAlike
<1>8. CASE Bonus \in log
  <2>1. n = 0 /\ Fresh(n) = {} /\ log \cup {Bonus} = log
    BY <1>1, <1>8, NoneFresh
  <2>2. Steady
    BY <1>2, <1>3, <1>4, <1>5, <1>6, <2>1, RewardsEarned DEF Steady, RowsAlike
  <2> QED  BY <1>2, <2>2, SteadyWriteAccounts
<1> QED  BY <1>7, <1>8

LEMMA CommitCancelAccounts ==
  ASSUME ProgrammeAssumption, Sound, Sound', Accounts, NEW p \in Session, CommitCancel(p)
  PROVE  Accounts'
<1>0. PICK b : b = tx[p].booking
  OBVIOUS
<1>1. /\ tx' = [tx EXCEPT ![p] = Idle] /\ Writes(p, "cancel") /\ UNCHANGED <<settings, changes>>
  BY DEF CommitCancel, Writes
<1>2. TablesOK /\ b \in Booking
  BY <1>0, <1>1, BookingOf
<1>3. \A c \in Booking : /\ booking'[c].rewards = booking[c].rewards
                         /\ booking'[c].percent = booking[c].percent
                         /\ booking'[c].paid = booking[c].paid
  BY <1>0, <1>2, CommitCancelTakes
<1>4. log' = log \cup {Released(r, b) : r \in Releasable(b)}
  BY <1>0 DEF CommitCancel
<1>5. log \subseteq log' /\ IsFiniteSet(log') /\ \A k \in log' \ log : Plain(k)
  <2>1. IsFiniteSet(log')
    BY <1>2, <1>4, SetsAreFinite, FS_Union DEF Accounts
  <2> QED  BY <1>4, <2>1, PlainKeys
<1>6. ASSUME NEW r \in Reward
      PROVE  /\ reward'[r].required = reward[r].required
             /\ reward'[r].status = "none" <=> reward[r].status = "none"
  <2>1. reward[r] \in RewardRow
    BY <1>2 DEF TablesOK
  <2> DEFINE r1 == [reward[r] EXCEPT !.status = "available"]
             row == [r1 EXCEPT !.booking = None]
  <2>2. reward'[r] = IF r \in Releasable(b) THEN row ELSE reward[r]
    BY <1>0 DEF CommitCancel
  <2>3. r1.status = "available" /\ r1.required = reward[r].required /\ r1 \in RewardRow
    BY <2>1 DEF RewardRow
  <2> HIDE DEF r1
  <2>4. row.status = "available" /\ row.required = reward[r].required
    BY <2>3 DEF RewardRow
  <2> HIDE DEF row
  <2> QED  BY <2>2, <2>4 DEF Releasable
<1>7. Steady
  BY <1>1, <1>3, <1>5, <1>6 DEF Steady
<1> QED  BY <1>1, <1>7, SteadyWriteAccounts

LEMMA CommitRefusalAccounts ==
  ASSUME ProgrammeAssumption, Sound, Sound', Accounts, NEW p \in Session, CommitRefusal(p)
  PROVE  Accounts'
<1>0. PICK b : b = tx[p].booking
  OBVIOUS
<1>1. /\ tx' = [tx EXCEPT ![p] = Idle] /\ Writes(p, "cancel")
      /\ UNCHANGED <<settings, changes, reward, log>>
  BY DEF CommitRefusal, Writes
<1>2. TablesOK /\ b \in Booking
  BY <1>0, <1>1, BookingOf
<1>3. RowsAlike
  BY <1>0, <1>2, CommitRefusalAlike
<1>4. Steady
  BY <1>1, <1>3 DEF Steady, RowsAlike, Accounts
<1> QED  BY <1>1, <1>4, SteadyWriteAccounts

(* A new booking was not credited, and its rewards are used and not new.    *)
LEMMA CommitCreateAccounts ==
  ASSUME ProgrammeAssumption, Sound, Sound', Ledger, Accounts, NEW p \in Session, CommitCreate(p)
  PROVE  Accounts'
<1>0. PICK t : t = tx[p]
  OBVIOUS
<1>1. PICK b : b = t.booking
  OBVIOUS
<1>2. /\ t.kind = "create" /\ t.read /\ tx' = [tx EXCEPT ![p] = Idle]
      /\ booking[b].status = "none" /\ UNCHANGED <<settings, changes>>
      /\ log' = log \cup {Reserved(r, b) : r \in t.rewards}
      /\ \A r \in Reward : reward'[r] = IF r \in t.rewards
           THEN [reward[r] EXCEPT !.status = "reserved", !.booking = b] ELSE reward[r]
  BY <1>0, <1>1 DEF CommitCreate, Writes
<1>3. /\ TablesOK /\ TablesOK' /\ b \in Booking /\ t.rewards \subseteq Reward
  BY <1>0, <1>1, <1>2, SoundTables DEF Sound, Types, TxRow
<1>4. /\ Profile \in tx[p].held /\ \A r \in t.rewards : reward[r].status = "available"
      /\ BookingSound(b)
  BY <1>0, <1>2, <1>3 DEF Ledger, Informed
<1>5. \A c \in Booking : c # b => booking'[c] = booking[c]
  BY <1>0, <1>1, <1>3 DEF CommitCreate, TablesOK
<1>6. IsFiniteSet(log') /\ IsFiniteSet(log)
  <2> DEFINE f == [r \in t.rewards |-> Reserved(r, b)]
  <2>1. IsFiniteSet(t.rewards)
    BY <1>3, FS_Subset DEF ProgrammeAssumption
  <2>2. log' = log \cup {f[r] : r \in t.rewards}
    BY <1>2
  <2> HIDE DEF f
  <2>3. IsFiniteSet({f[r] : r \in t.rewards})
    BY <2>1, FiniteImage
  <2>4. IsFiniteSet(log)
    BY DEF Accounts
  <2> QED  BY <2>2, <2>3, <2>4, FS_Union
<1>7. ASSUME NEW r \in Reward
      PROVE  /\ reward'[r].required = reward[r].required
             /\ reward'[r].status = "none" <=> reward[r].status = "none"
  <2>1. reward[r] \in RewardRow
    BY <1>3 DEF TablesOK
  <2> DEFINE r1 == [reward[r] EXCEPT !.status = "reserved"]
             row == [r1 EXCEPT !.booking = b]
  <2>2. reward'[r] = IF r \in t.rewards THEN row ELSE reward[r]
    BY <1>2
  <2>3. r1.status = "reserved" /\ r1.required = reward[r].required /\ r1 \in RewardRow
    BY <2>1 DEF RewardRow
  <2> HIDE DEF r1
  <2>4. row.status = "reserved" /\ row.required = reward[r].required
    BY <2>3 DEF RewardRow
  <2> HIDE DEF row
  <2> QED  BY <1>4, <2>2, <2>4
<1>8. Rewarded' = Rewarded /\ Consumed' = Consumed
  <2>1. Rewarded' = Rewarded
    BY <1>7 DEF Rewarded
  <2>2. \A r \in Rewarded : reward'[r].required = reward[r].required
    BY <1>7 DEF Rewarded
  <2> QED  BY <1>3, <2>1, <2>2, ConsumedSame
<1>9. PICK c : c = Credits
  OBVIOUS
<1>10. Credits' = c
  <2>1. PICK keys \in SUBSET SourceKey : keys = {}
    OBVIOUS
  <2>2. /\ IsFiniteSet(keys) /\ IsFiniteSet(log' \cup keys)
        /\ log \cup keys \subseteq log' \cup keys
    BY <1>2, <1>6, <2>1, FS_EmptySet
  <2>3. ASSUME NEW k \in log \cup keys
        PROVE  Quantity(k)' = Quantity(k)
    <3>1. k \in log /\ k \in SourceKey
      BY <1>3, <2>1 DEF TablesOK
    <3>2. k # Qualifying(b)
      BY <1>2, <1>4, <3>1 DEF BookingSound
    <3>3. \A d \in Booking : k = Qualifying(d) => QualifyingLines(d)' = QualifyingLines(d)
      BY <1>5, <3>2, LinesKept
    <3> QED  BY <3>1, <3>3, QuantitySteady
  <2>4. ASSUME NEW k \in (log' \cup keys) \ (log \cup keys)
        PROVE  Quantity(k)' = 0
    <3>1. \E r \in t.rewards : k = Reserved(r, b)
      BY <1>2, <2>1
    <3>2. Plain(k)
      BY <3>1, PlainKeys
    <3> QED  BY <3>2, PlainIsNothing
  <2>5. CreditsWith(keys)' = CreditsWith(keys)
    BY <1>3, <1>6, <2>2, <2>3, <2>4, CreditsAfter
  <2> QED  BY <1>9, <2>1, <2>5, CreditsAreWith
<1>11. Balanced'
  <2>1. Due(c)' = Due(c)
    BY <1>2, <1>8, DueSame
  <2> QED  BY <1>2, <1>6, <1>8, <1>9, <1>10, <2>1
       DEF Balanced, Accounts, NeverOverdrawn, RewardsComeWhenDue
<1>12. \A q \in Session \ {p} : tx'[q] = tx[q] => Reckoned(tx[q])'
  <2>1. \A d \in Booking : booking'[d].paid # booking[d].paid =>
                             JobLock(d) \in tx[p].held \/ booking[d].status = "none"
    BY <1>2, <1>5
  <2> QED  BY <1>4, <2>1, OthersReckoned
<1> QED  BY <1>2, <1>11, <1>12, WriteAccounts

(* Steps that no request takes.                                             *)
LEMMA QuietAccounts ==
  ASSUME ProgrammeAssumption, Sound, Sound', Accounts, Steady, UNCHANGED tx
  PROVE  Accounts'
<1>1. TablesOK /\ TablesOK'
  BY SoundTables
<1>2. Balanced'
  BY <1>1, SteadyBalanced DEF Balanced, Accounts
<1>3. ASSUME NEW q \in Session
      PROVE  Reckoned(tx[q])'
  <2>1. PICK t : t = tx[q]
    OBVIOUS
  <2>2. TxRow(t) /\ Reckoned(t)
    BY <2>1 DEF Sound, Types, TxRow, Accounts
  <2>3. Reckoned(t)'
    BY <1>1, <2>2, ReckonedKept DEF Accounts
  <2> QED  BY <2>1, <2>3 DEF Reckoned
<1> QED  BY <1>2, <1>3 DEF Balanced, Accounts

(* The settings change while nobody reckons with them.                      *)
LEMMA UpdateSettingsAccounts ==
  ASSUME ProgrammeAssumption, Sound, Sound', Accounts, NEW enabled, NEW required,
         UpdateSettings(enabled, required)
  PROVE  Accounts'
<1>1. TablesOK /\ TablesOK' /\ UNCHANGED <<booking, reward, log, tx>> /\ IsFiniteSet(log)
  BY SoundTables DEF UpdateSettings, tables, Accounts
<1>2. changes' # 0
  BY <1>1 DEF UpdateSettings, TablesOK, ProgrammeAssumption
<1>3. Consumed' = Consumed
  BY <1>1 DEF Consumed, Rewarded
<1>4. Credits' = Credits
  BY <1>1 DEF Credits, CreditsWith, Quantity, QualifyingLines
<1>5. ASSUME NEW q \in Session
      PROVE  Reckoned(tx[q])'
  <2>1. Settings \notin tx[q].held
    BY DEF UpdateSettings, Blocks, Conflict, Settings, Reference
  <2>2. ~(tx[q].read /\ Earning(tx[q]))
    BY <2>1 DEF Accounts, Reckoned
  <2>3. ~(tx[q].read /\ Earning(tx[q])')
    BY <1>1, <2>2 DEF Earning, EarnsRewards
  <2> QED  BY <1>1, <2>3 DEF Reckoned
<1> QED  BY <1>1, <1>2, <1>3, <1>4, <1>5 DEF Accounts, NeverOverdrawn, RewardsComeWhenDue

LEMMA InitAccounts == ProgrammeAssumption /\ Init => Accounts
<1> SUFFICES ASSUME ProgrammeAssumption, Init
             PROVE  Accounts
  OBVIOUS
<1>1. TablesOK /\ log = {} /\ IsFiniteSet(log)
  BY InitSound, SoundTables, FS_EmptySet DEF Init
<1>2. Rewarded = {}
  BY DEF Init, NoReward, Rewarded
<1>3. Credits = 0
  <2>1. PICK f : f = [key \in log \cup {} |-> Quantity(key)]
    OBVIOUS
  <2>2. Credits = SumFunctionOnSet(f, {})
    BY <1>1, <2>1 DEF Credits, CreditsWith, SumFunction
  <2> QED  BY <2>2, SumEmpty
<1>4. Consumed = 0
  <2>1. PICK f : f = [r \in Rewarded |-> reward[r].required]
    OBVIOUS
  <2>2. Consumed = SumFunctionOnSet(f, {})
    BY <1>2, <2>1 DEF Consumed, SumFunction
  <2> QED  BY <2>2, SumEmpty
<1>5. Due(Credits) = 0
  <2>1. PICK c \in Int : c = 0
    OBVIOUS
  <2>2. settings.required \in Nat \ {0}
    BY <1>1 DEF TablesOK, ProgrammeAssumption
  <2>3. Due(c) = 0
    BY <1>1, <1>4, <2>1, <2>2, NothingDue
  <2> QED  BY <1>3, <2>1, <2>3
<1>6. \A p \in Session : ~tx[p].read
  BY DEF Init, Idle, Request
<1> QED  BY <1>1, <1>3, <1>4, <1>5, <1>6 DEF Accounts, NeverOverdrawn, RewardsComeWhenDue, Reckoned

LEMMA NextAccounts ==
  ASSUME ProgrammeAssumption, Sound, Sound', Ledger, Accounts, [Next]_vars
  PROVE  Accounts'
<1>1. CASE \E p \in Session : Begins(p) \/ Steps(p)
  BY <1>1, BeginsAccounts, LockAccounts, SessionReadsAccounts, CommitCreateAccounts,
     CommitCompleteAccounts, CommitCashAccounts, CommitCancelAccounts, CommitRefusalAccounts,
     CommitReviewAccounts, CommitAdjustAccounts DEF Steps
<1>2. CASE \E b \in Booking : RequestCancellation(b) \/ GuestReview(b)
  <2>1. RowsAlike /\ UNCHANGED <<settings, changes, reward, log, record, tx>>
    BY <1>2, BookingStepAlike
  <2>2. Steady
    BY <2>1 DEF Steady, RowsAlike, Accounts
  <2> QED  BY <2>1, <2>2, QuietAccounts
<1>3. CASE (\E k \in Key : ExpireRecord(k)) \/ UNCHANGED vars
  <2>1. UNCHANGED <<settings, changes, booking, reward, log, tx>>
    BY <1>3 DEF ExpireRecord, vars, tables
  <2>2. Steady
    BY <2>1 DEF Steady, Accounts
  <2> QED  BY <2>1, <2>2, QuietAccounts
<1>4. CASE \E enabled \in BOOLEAN, required \in Required : UpdateSettings(enabled, required)
  BY <1>4, UpdateSettingsAccounts
<1> QED  BY <1>1, <1>2, <1>3, <1>4 DEF Next

LEMMA AccountsAlways == Spec => []Accounts
<1>1. Init => Sound /\ Ledger /\ Accounts
  BY InitSound, InitLedger, InitAccounts, ProgrammeAssumption
<1>2. Sound /\ Ledger /\ Accounts /\ [Next]_vars => (Sound /\ Ledger /\ Accounts)'
  BY NextSound, NextLedger, NextAccounts, ProgrammeAssumption
<1> QED  BY <1>1, <1>2, PTL DEF Spec

(* Rewards never cost more washes than the ledger has, whoever cancels,     *)
(* reviews, pays or adjusts at the same time.                               *)
THEOREM RewardsNeverOverdrawn == Spec => []NeverOverdrawn
<1>1. Accounts => NeverOverdrawn
  BY DEF Accounts
<1> QED  BY <1>1, AccountsAlways, PTL

(* While the settings stay and the model has rows left for new rewards, no  *)
(* reward is due that was not given.                                        *)
THEOREM RewardsAlwaysCome == Spec => [](Rewarded # Reward => RewardsComeWhenDue)
<1>1. Accounts => (Rewarded # Reward => RewardsComeWhenDue)
  BY DEF Accounts
<1> QED  BY <1>1, AccountsAlways, PTL

=============================================================================
