------------------------------ MODULE Rewards ------------------------------
(* The loyalty ledger and rewards of one customer (services/loyalty.py) and *)
(* the requests that move them: bookings with their rewards, coupon and     *)
(* idempotency key, completions, cash, cancellations, reviews and manual    *)
(* adjustments.  Each is a transaction of PostgreSQL that takes its locks   *)
(* one after the other, reads, and writes.                                  *)
EXTENDS Integers, Sequences, FiniteSets, FiniteSetsExt

CONSTANTS
  Booking,     \* bookings, each made of one hold
  Lines,       \* how many vehicles each is for
  Price,       \* of the one service, in minor units
  Reward,      \* loyalty rewards, by their age
  Manual,      \* the wash credits (or debits) of each manual adjustment
  Required,    \* how many washes a reward may cost
  Percent,     \* discounts of coupons
  Key,         \* Idempotency-Key of create_booking
  MaxChanges,  \* bound of the changes of the settings
  Session, None

Adjustment == DOMAIN Manual

ASSUME ProgrammeAssumption ==
  /\ Lines \in [Booking -> Nat \ {0}]
  /\ Price \in Nat \ {0}
  /\ Manual \in [Adjustment -> Int \ {0}]
  /\ Required \subseteq Nat \ {0}
  /\ Percent \subseteq 1 .. 100
  /\ Reward \subseteq Nat /\ IsFiniteSet(Reward)
  /\ None \notin Booking
  /\ MaxChanges \in Nat

VARIABLES
  settings,  \* loyalty_enabled and loyalty_required_washes
  changes,   \* how often they were changed
  booking,   \* bookings with their lines, job, payment and review
  reward,    \* loyalty_rewards
  log,       \* loyalty_events, by source_key
  record,    \* idempotency_records
  tx         \* the open transaction of each session

tables == <<booking, reward, log, record>>

vars == <<settings, changes, tables, tx>>
-----------------------------------------------------------------------------
(* Rows.                                                                    *)

BookingRow ==
  [status : {"none", "confirmed", "completed", "cancelled"},
   job : {"open", "completed", "cancelled"},
   request : {"none", "requested", "reviewed"},
   rewards : SUBSET Reward, percent : Percent \cup {0},
   paid : BOOLEAN, reviewed : BOOLEAN]

NotBooked ==
  [status |-> "none", job |-> "open", request |-> "none", rewards |-> {}, percent |-> 0,
   paid |-> FALSE, reviewed |-> FALSE]

RewardRow ==
  [status : {"none", "available", "reserved", "redeemed"},
   booking : Booking \cup {None}, required : Nat]

NoReward == [status |-> "none", booking |-> None, required |-> 0]

(* Source keys.                                                             *)
Qualifying(b) == <<"qualifying", b>>
Bonus == <<"first-review-bonus">>
Adjusted(a) == <<"manual", a>>
Earned(r) == <<"reward-earned", r>>
Reserved(r, b) == <<"reward-reserved", r, b>>
Released(r, b) == <<"reward-released", r, b>>
Redeemed(r) == <<"reward-redeemed", r>>

SourceKey ==
  {Qualifying(b) : b \in Booking} \cup {Bonus} \cup {Adjusted(a) : a \in Adjustment}
    \cup {Earned(r) : r \in Reward} \cup {Redeemed(r) : r \in Reward}
    \cup {Reserved(r, b) : r \in Reward, b \in Booking}
    \cup {Released(r, b) : r \in Reward, b \in Booking}

(* Locks: the row of the customer, to write it or to refer to it, and those *)
(* of settings, jobs, bookings, rewards and idempotency keys.               *)
Profile == <<"profile">>
Reference == <<"reference">>
Settings == <<"settings">>
JobLock(b) == <<"job", b>>
BookingLock(b) == <<"booking", b>>
RewardLock(r) == <<"reward", r>>
KeyLock(k) == <<"key", k>>

(* A request: what it is about, its locks, and what it read.                *)
Request(kind, b) ==
  [kind |-> kind, booking |-> b, key |-> None, rewards |-> {}, percent |-> 0,
   adjustment |-> None, asked |-> FALSE, held |-> {}, read |-> FALSE, due |-> 0]

Idle == Request("idle", None)

TypeOK ==
  /\ settings \in [enabled : BOOLEAN, required : Required]
  /\ changes \in 0 .. MaxChanges
  /\ booking \in [Booking -> BookingRow]
  /\ reward \in [Reward -> RewardRow]
  /\ log \subseteq SourceKey
  /\ record \in [Key -> [status : {"none", "live", "expired"}, booking : Booking \cup {None}]]
  /\ \A p \in Session :
       tx[p].kind \in {"idle", "create", "complete", "cash", "cancel", "review", "adjust"}

Init ==
  /\ settings \in [enabled : {TRUE}, required : Required]
  /\ changes = 0
  /\ booking = [b \in Booking |-> NotBooked]
  /\ reward = [r \in Reward |-> NoReward]
  /\ log = {}
  /\ record = [k \in Key |-> [status |-> "none", booking |-> None]]
  /\ tx = [p \in Session |-> Idle]
-----------------------------------------------------------------------------
(* The ledger.                                                              *)

(* Lines that are neither free by a reward nor discounted by a coupon.      *)
QualifyingLines(b) ==
  Lines[b] - Cardinality(booking[b].rewards) - (IF booking[b].percent > 0 THEN 1 ELSE 0)

Quantity(key) ==
  CASE key[1] = "qualifying" -> QualifyingLines(key[2])
    [] key[1] = "first-review-bonus" -> 1
    [] key[1] = "manual" -> Manual[key[2]]
    [] OTHER -> 0

(* The washes of the ledger when these entries are in it too.               *)
CreditsWith(keys) == SumFunction([key \in log \cup keys |-> Quantity(key)])

Credits == CreditsWith({})

Rewarded == {r \in Reward : reward[r].status # "none"}

Consumed == SumFunction([r \in Rewarded |-> reward[r].required])

Progress(credits) == Max({0, credits - Consumed})

(* The rewards that so many credits earn.                                   *)
Due(credits) == IF settings.enabled THEN Progress(credits) \div settings.required ELSE 0

(* Half a minor unit rounds up.                                             *)
PercentageDiscount(price, percent) == Min({price, (price * percent + 50) \div 100})

Total(b, rewards, percent) ==
  Price * (Lines[b] - Cardinality(rewards)) - PercentageDiscount(Price, percent)
-----------------------------------------------------------------------------
(* Transactions.                                                            *)

WritesLedger(t) ==
  \/ t.kind = "cash"
  \/ t.kind \in {"complete", "cancel"} /\ booking[t.booking].rewards # {}

(* Only work that is paid goes on to credits and new rewards.               *)
EarnsRewards(t) == t.kind = "cash" \/ (t.kind = "complete" /\ booking[t.booking].paid)

Rewards(t) == {RewardLock(r) : r \in t.rewards}

(* Mutant: no lock of the key.                                              *)
KeyPlanUnlocked(t) == <<>>

KeyPlan(t) == <<{KeyLock(t.key)}>>

(* The record of the key is looked up before anything else is locked.       *)
CreatePlan(t) == KeyPlan(t) \o (IF t.asked THEN <<{Profile}, Rewards(t)>> ELSE <<>>)

(* Mutant: the settings before the customer.                                *)
AdjustPlanSettingsFirst == <<{Settings}, {Profile}>>

AdjustPlan == <<{Profile}, {Settings}>>

(* Mutant: rewards are earned without the lock of the customer.             *)
EarnPlanUnlocked(t) == <<IF WritesLedger(t) THEN {Reference} ELSE {}>>

EarnPlan(t) ==
  <<IF WritesLedger(t) THEN {Reference} ELSE {},
    IF EarnsRewards(t) THEN {Profile} ELSE {}, IF EarnsRewards(t) THEN {Settings} ELSE {}>>

(* The locks of a request in the order of its statements; those of one set  *)
(* come in any order.  A row that refers to the customer keeps the row of   *)
(* the customer from being locked.                                          *)
Plan(t) ==
  LET b == t.booking IN
  CASE t.kind = "create" -> CreatePlan(t)
    [] t.kind \in {"complete", "cash"} ->
         <<{JobLock(b)}, {BookingLock(b)}, Rewards(booking[b])>> \o EarnPlan(t)
    [] t.kind = "cancel" ->
         <<{BookingLock(b)}, {JobLock(b)}, Rewards(booking[b])>> \o EarnPlan(t)
    [] t.kind = "review" -> <<{Profile}, {BookingLock(b)}, {Settings}>>
    [] OTHER -> AdjustPlan

(* The locks that p asks for next.                                          *)
Wanted(p) ==
  IF tx[p].kind = "idle" THEN {}
  ELSE LET plan == Plan(tx[p])
           open == {i \in DOMAIN plan : ~(plan[i] \subseteq tx[p].held)}
       IN IF open = {} THEN {} ELSE plan[Min(open)] \ tx[p].held

Conflict(l, m) ==
  \/ l = m /\ l # Reference
  \/ {l, m} = {Profile, Reference}

Blocks(q, l) == \E m \in tx[q].held : Conflict(l, m)

Begin(p, t) ==
  /\ tx[p] = Idle
  /\ tx' = [tx EXCEPT ![p] = t]
  /\ UNCHANGED <<settings, changes, tables>>

Lock(p) ==
  \E l \in Wanted(p) :
    /\ \A q \in Session \ {p} : ~Blocks(q, l)
    /\ tx' = [tx EXCEPT ![p].held = @ \cup {l}]
    /\ UNCHANGED <<settings, changes, tables>>

(* Errors, crashes, and the victims of deadlocks.                           *)
Abort(p) ==
  /\ tx[p] # Idle
  /\ tx' = [tx EXCEPT ![p] = Idle]
  /\ UNCHANGED <<settings, changes, tables>>

(* With all its locks a request reads, and is refused or writes.            *)
Reads(p, kind, credits) ==
  /\ tx[p].kind = kind /\ ~tx[p].read /\ Wanted(p) = {}
  /\ tx' = [tx EXCEPT ![p] = [@ EXCEPT !.read = TRUE, !.due = Due(credits)]]
  /\ UNCHANGED <<settings, changes, tables>>

Writes(p, kind) ==
  /\ tx[p].kind = kind /\ tx[p].read
  /\ tx' = [tx EXCEPT ![p] = Idle]
  /\ UNCHANGED <<settings, changes>>

(* So many new rewards, in the order of their ages.                         *)
Fresh(n) ==
  LET free == Reward \ Rewarded
  IN {r \in free : Cardinality({q \in free : q < r}) < n}

Earn(rewards, n) ==
  [r \in Reward |->
     IF r \in Fresh(n)
     THEN [status |-> "available", booking |-> None, required |-> settings.required]
     ELSE rewards[r]]

EarnKeys(n) == {Earned(r) : r \in Fresh(n)}
-----------------------------------------------------------------------------
(* Bookings.                                                                *)

BeginCreate(p, k, b, rewards, percent) ==
  /\ Cardinality(rewards) + (IF percent > 0 THEN 1 ELSE 0) <= Lines[b]
  /\ Begin(p, [Request("create", b) EXCEPT !.key = k, !.rewards = rewards, !.percent = percent])

(* A live record is the answer, and the request is over.                    *)
FindRecord(p) ==
  /\ tx[p].kind = "create" /\ ~tx[p].asked /\ Wanted(p) = {}
  /\ record[tx[p].key].status # "live"
  /\ tx' = [tx EXCEPT ![p].asked = TRUE]
  /\ UNCHANGED <<settings, changes, tables>>

(* A hold makes one booking; the rewards must be there, and the programme   *)
(* on.                                                                      *)
ReadCreate(p) ==
  LET t == tx[p] IN
  /\ Reads(p, "create", 0)
  /\ t.asked
  /\ booking[t.booking].status = "none"
  /\ t.rewards # {} => settings.enabled
  /\ \A r \in t.rewards : reward[r].status = "available"

(* The unique index refuses the key of an expired record.                   *)
CommitCreate(p) ==
  LET t == tx[p]
      b == t.booking
  IN
  /\ Writes(p, "create")
  /\ record[t.key].status = "none"
  /\ booking[b].status = "none"
  /\ booking' = [booking EXCEPT ![b] =
                   [status |-> "confirmed", job |-> "open", request |-> "none",
                    rewards |-> t.rewards, percent |-> t.percent,
                    paid |-> Total(b, t.rewards, t.percent) = 0, reviewed |-> FALSE]]
  /\ reward' = [r \in Reward |->
                  IF r \in t.rewards
                  THEN [reward[r] EXCEPT !.status = "reserved", !.booking = b] ELSE reward[r]]
  /\ log' = log \cup {Reserved(r, b) : r \in t.rewards}
  /\ record' = [record EXCEPT ![t.key] = [status |-> "live", booking |-> b]]

ExpireRecord(k) ==
  /\ record[k].status = "live"
  /\ record' = [record EXCEPT ![k].status = "expired"]
  /\ UNCHANGED <<settings, changes, booking, reward, log, tx>>
-----------------------------------------------------------------------------
(* Work, payment and cancellation.                                          *)

BeginComplete(p, b) ==
  /\ booking[b].status # "none"
  /\ booking[b].job = "open"
  /\ Begin(p, Request("complete", b))

(* Whether the booking is paid is read before the lock of the job.          *)
BeginCash(p, b) ==
  /\ booking[b].job = "completed"
  /\ ~booking[b].paid
  /\ Begin(p, Request("cash", b))

Credit(b) == IF QualifyingLines(b) > 0 THEN {Qualifying(b)} ELSE {}

ReservedBy(b) == {r \in booking[b].rewards : reward[r].status = "reserved"}

RedeemedRewards(b) ==
  [r \in Reward |->
     IF r \in ReservedBy(b) THEN [reward[r] EXCEPT !.status = "redeemed"] ELSE reward[r]]

ReadSettlement(p) ==
  LET t == tx[p] IN
  \/ /\ Reads(p, "complete", Credits)
     /\ booking[t.booking].job = "open"
  \/ /\ Reads(p, "cash", CreditsWith(Credit(t.booking)))
     /\ booking[t.booking].job = "completed"

(* evaluate_loyalty_for_job, after the work of transition_job: reserved     *)
(* rewards are redeemed, and paid work may earn.                            *)
CommitComplete(p) ==
  LET t == tx[p]
      b == t.booking
      n == IF EarnsRewards(t) THEN t.due ELSE 0
  IN
  /\ Writes(p, "complete")
  /\ booking' = [booking EXCEPT ![b] = [@ EXCEPT !.status = "completed", !.job = "completed"]]
  /\ reward' = Earn(RedeemedRewards(b), n)
  /\ log' = log \cup {Redeemed(r) : r \in ReservedBy(b)} \cup EarnKeys(n)
  /\ UNCHANGED record

(* Mutant: only the first wash counts.                                      *)
CommitCashFirstOnly(p) ==
  LET t == tx[p]
      b == t.booking
  IN
  /\ Writes(p, "cash")
  /\ booking' = [booking EXCEPT ![b].paid = TRUE]
  /\ reward' = Earn(RedeemedRewards(b), t.due)
  /\ log' = (IF log = {} THEN log \cup Credit(b) ELSE log) \cup EarnKeys(t.due)
  /\ UNCHANGED record

(* evaluate_loyalty_for_job, after record_cash.  A key that is there is not *)
(* written again.                                                           *)
CommitCash(p) ==
  LET t == tx[p]
      b == t.booking
  IN
  /\ Writes(p, "cash")
  /\ booking' = [booking EXCEPT ![b].paid = TRUE]
  /\ reward' = Earn(RedeemedRewards(b), t.due)
  /\ log' = log \cup {Redeemed(r) : r \in ReservedBy(b)} \cup Credit(b) \cup EarnKeys(t.due)
  /\ UNCHANGED record

RequestCancellation(b) ==
  /\ booking[b].status = "confirmed"
  /\ booking[b].request = "none"
  /\ \A p \in Session : ~Blocks(p, BookingLock(b)) /\ ~Blocks(p, Settings)
  /\ booking' = [booking EXCEPT ![b].request = "requested"]
  /\ UNCHANGED <<settings, changes, reward, log, record, tx>>

BeginCancel(p, b) ==
  /\ booking[b].request = "requested"
  /\ Begin(p, Request("cancel", b))

ReadCancel(p) ==
  /\ Reads(p, "cancel", 0)
  /\ booking[tx[p].booking].request = "requested"

(* Mutant: a cancellation releases what it once reserved.                   *)
ReleasableAll(b) == booking[b].rewards

Releasable(b) ==
  {r \in Reward : reward[r].status = "reserved" /\ reward[r].booking = b}

(* Approved, also when the work was completed meanwhile.                    *)
CommitCancel(p) ==
  LET b == tx[p].booking IN
  /\ Writes(p, "cancel")
  /\ booking' = [booking EXCEPT ![b] =
                   [@ EXCEPT !.status = "cancelled", !.job = "cancelled", !.request = "reviewed"]]
  /\ reward' = [r \in Reward |->
                  IF r \in Releasable(b)
                  THEN [reward[r] EXCEPT !.status = "available", !.booking = None]
                  ELSE reward[r]]
  /\ log' = log \cup {Released(r, b) : r \in Releasable(b)}
  /\ UNCHANGED record

(* Refused: the booking is confirmed again, also when the work was done.    *)
CommitRefusal(p) ==
  LET b == tx[p].booking IN
  /\ Writes(p, "cancel")
  /\ booking' = [booking EXCEPT ![b] = [@ EXCEPT !.status = "confirmed", !.request = "none"]]
  /\ UNCHANGED <<reward, log, record>>
-----------------------------------------------------------------------------
(* Reviews and adjustments.                                                 *)

BeginReview(p, b) ==
  /\ booking[b].status = "completed"
  /\ Begin(p, Request("review", b))

ReadReview(p) ==
  LET b == tx[p].booking IN
  /\ Reads(p, "review", CreditsWith({Bonus}))
  /\ booking[b].status = "completed"
  /\ ~booking[b].reviewed

(* The bonus is for the first review, and earning follows a bonus only.     *)
CommitReview(p) ==
  LET n == IF Bonus \in log THEN 0 ELSE tx[p].due IN
  /\ Writes(p, "review")
  /\ booking' = [booking EXCEPT ![tx[p].booking].reviewed = TRUE]
  /\ reward' = Earn(reward, n)
  /\ log' = log \cup {Bonus} \cup EarnKeys(n)
  /\ UNCHANGED record

(* A guest reviews the booking with a token of it, without a bonus.         *)
GuestReview(b) ==
  /\ booking[b].status = "completed"
  /\ ~booking[b].reviewed
  /\ \A p \in Session : ~Blocks(p, BookingLock(b))
  /\ booking' = [booking EXCEPT ![b].reviewed = TRUE]
  /\ UNCHANGED <<settings, changes, reward, log, record, tx>>

BeginAdjust(p, a) ==
  Begin(p, [Request("adjust", None) EXCEPT !.adjustment = a])

(* Mutant: a debit of washes that rewards have used.                        *)
DebitableUsed(a) == -Manual[a] <= Credits

Debitable(a) == -Manual[a] <= Progress(Credits)

(* Not for a repeated event, nor for more than the progress.                *)
ReadAdjust(p) ==
  LET a == tx[p].adjustment IN
  /\ Reads(p, "adjust", CreditsWith({Adjusted(a)}))
  /\ Adjusted(a) \notin log
  /\ Debitable(a)

CommitAdjust(p) ==
  LET t == tx[p] IN
  /\ Writes(p, "adjust")
  /\ reward' = Earn(reward, t.due)
  /\ log' = log \cup {Adjusted(t.adjustment)} \cup EarnKeys(t.due)
  /\ UNCHANGED <<booking, record>>

UpdateSettings(enabled, required) ==
  /\ changes < MaxChanges
  /\ \A p \in Session : ~Blocks(p, Settings)
  /\ settings' = [enabled |-> enabled, required |-> required]
  /\ changes' = changes + 1
  /\ UNCHANGED <<tables, tx>>
-----------------------------------------------------------------------------
Steps(p) ==
  \/ Lock(p) \/ Abort(p)
  \/ FindRecord(p) \/ ReadCreate(p) \/ CommitCreate(p)
  \/ ReadSettlement(p) \/ CommitComplete(p) \/ CommitCash(p)
  \/ ReadCancel(p) \/ CommitCancel(p) \/ CommitRefusal(p)
  \/ ReadReview(p) \/ CommitReview(p)
  \/ ReadAdjust(p) \/ CommitAdjust(p)

Begins(p) ==
  \/ \E b \in Booking :
       \/ \E k \in Key, rewards \in SUBSET Rewarded, percent \in Percent \cup {0} :
            BeginCreate(p, k, b, rewards, percent)
       \/ BeginComplete(p, b) \/ BeginCash(p, b) \/ BeginCancel(p, b) \/ BeginReview(p, b)
  \/ \E a \in Adjustment : BeginAdjust(p, a)

Next ==
  \/ \E p \in Session : Begins(p) \/ Steps(p)
  \/ \E b \in Booking : RequestCancellation(b) \/ GuestReview(b)
  \/ \E k \in Key : ExpireRecord(k)
  \/ \E enabled \in BOOLEAN, required \in Required : UpdateSettings(enabled, required)

Spec == Init /\ [][Next]_vars
-----------------------------------------------------------------------------
(* Properties.                                                              *)

(* The customer was credited for a booking exactly when it was completed    *)
(* and paid and has lines that count (README: every completed, fully paid   *)
(* normal service earns one credit), once, in whatever order completion,    *)
(* payment, review and cancellation come, and however often they come.      *)
WashesAreCredited ==
  \A b \in Booking :
    Qualifying(b) \in log <=>
      booking[b].paid /\ booking[b].job # "open" /\ QualifyingLines(b) > 0

(* Rewards never cost more washes than there are, so that the zero at which *)
(* progress stops hides nothing.                                            *)
NeverOverdrawn == Credits >= Consumed

(* As long as the settings stay, nobody waits for a reward that is due.     *)
RewardsComeWhenDue == changes = 0 => Due(Credits) = 0

(* The append-only events explain each reward: who holds it, whether it may *)
(* be used, and that a redeemed one was reserved by its booking and never   *)
(* comes back.  One that a booking holds is not lost: its work is still to  *)
(* be done, and will redeem it, or its cancellation will release it.        *)
LedgerExplainsRewards ==
  \A r \in Reward :
    LET holders == {b \in Booking : Reserved(r, b) \in log /\ Released(r, b) \notin log}
        row == reward[r]
    IN
    /\ row.status # "none" <=> Earned(r) \in log
    /\ row.status = "redeemed" <=> Redeemed(r) \in log
    /\ row.status \in {"none", "available"} => holders = {} /\ row.booking = None
    /\ row.status \in {"reserved", "redeemed"} => holders = {row.booking}
    /\ row.status = "reserved" =>
         booking[row.booking].job = "open" /\ r \in booking[row.booking].rewards

(* Requests of the customer lock each other out in one order: bookings,     *)
(* reviews and adjustments never wait for each other in a circle.           *)
OfCustomer(p) == tx[p].kind \in {"create", "review", "adjust"}

Waits(p, q) == p # q /\ \E l \in Wanted(p) : Blocks(q, l)

CustomerNeverDeadlocks ==
  \A p, q \in Session : OfCustomer(p) /\ OfCustomer(q) => ~(Waits(p, q) /\ Waits(q, p))

(* A request that runs under a key is the only one: when it comes to its    *)
(* record there is none, but an expired one, so a repetition is answered    *)
(* and not refused by the unique index.                                     *)
RepetitionIsAnswered ==
  \A p \in Session : tx[p].kind = "create" /\ tx[p].read => record[tx[p].key].status # "live"
=============================================================================
