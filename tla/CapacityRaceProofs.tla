------------------------- MODULE CapacityRaceProofs -------------------------
(***************************************************************************)
(* The races of a business day, for any requests, teams, grid and lengths. *)
(*                                                                         *)
(* Locks, for every kind of request: what a request holds, and what it may *)
(* rely on while it holds it (Sound).  Decisions, when there are no        *)
(* rewashes: what a request has read of the day is still so (Informed),    *)
(* hence the statements of the day implement the calendar.                 *)
(***************************************************************************)
EXTENDS CapacityRace, FiniteSetTheorems, WellFoundedInduction, TLAPS

Open(r) == tx[r].state = "open"

Exists(h) == hold[h].status # "none"

Active(h) == hold[h].status = "active"

Consumed(h) == hold[h].status = "consumed"

Last(r) == IF r \in Holding THEN 7 ELSE IF r \in Confirming THEN 6 ELSE 3

HasDay(r) ==
  /\ Open(r)
  /\ \/ r \in Holding /\ tx[r].next >= 2
     \/ r \in Confirming /\ tx[r].next >= 3

HasHold(r) == Open(r) /\ r \notin Holding /\ tx[r].next >= 2

TakesSlots(r) ==
  /\ Open(r)
  /\ \/ r \in Holding /\ tx[r].next >= 5
     \/ r \in Confirming /\ tx[r].next >= 3
     \/ r \in Correcting /\ tx[r].next >= 2

(* The hold that a request names, and what it keeps of it.                 *)
Named(r) ==
  /\ tx[r].hold \in Holding
  /\ r \in Holding => tx[r].hold = r
  /\ r \notin Holding => Exists(tx[r].hold)
  /\ r \notin Holding /\ Open(r) => /\ tx[r].team = hold[tx[r].hold].team
                                    /\ tx[r].start = hold[tx[r].hold].start

(* No row that create_hold chose in the grid blocks it: its hold has run   *)
(* out, if it has one.                                                     *)
SeenFree(r) ==
  \A w \in Windows(tx[r].start) :
    LET row == tx[r].seen[<<tx[r].team, w>>]
    IN row.status # "reserved" /\ (row.status = "held" => row.by \in expired)

(* Holds that create_hold expires have run out and are locked by then.     *)
StaleSound(r) ==
  /\ tx[r].next >= 5 => SeenFree(r)
  /\ tx[r].next >= 6 => tx[r].stale \subseteq expired
  /\ tx[r].next = 7 => \A h \in tx[r].stale : Active(h) => holdLock[h] = r

InOrder(r) == tx[r].next <= Last(r) /\ (tx[r].state = "new" => tx[r].next = 1)

(* What a request holds at each of its statements.                         *)
Sound(r) ==
  /\ InOrder(r)
  /\ tx[r].state # "new" => Named(r)
  /\ r \in Holding /\ tx[r].state # "committed" => ~Exists(r)
  /\ HasDay(r) => day = r
  /\ HasHold(r) => holdLock[tx[r].hold] = r /\ Active(tx[r].hold)
  /\ \A s \in Slot : slotLock[s] = r => TakesSlots(r)
  /\ r \in Holding /\ Open(r) => Windows(tx[r].start) \subseteq Grid /\ StaleSound(r)
  /\ r \notin Holding /\ tx[r].state = "committed" => Consumed(tx[r].hold)

OnlyExisting == \A h \in expired : Exists(h)

(* The inductive invariant of the locks.                                   *)
Locked ==
  /\ TypeOK
  /\ \A r \in Request : Sound(r)
  /\ OnlyExisting
  /\ ConsumedOnce
-----------------------------------------------------------------------------
(* Statements.                                                             *)

LEMMA Kinds ==
  /\ Request = Holding \cup Confirming \cup Correcting
  /\ \A r \in Holding : r \in Request /\ r \notin Confirming /\ r \notin Correcting /\ r # Nobody
  /\ \A r \in Confirming : r \in Request /\ r \notin Holding /\ r \notin Correcting /\ r # Nobody
  /\ \A r \in Correcting : r \in Request /\ r \notin Holding /\ r \notin Confirming /\ r # Nobody
BY RaceConstants DEF Request

LEMMA AtHolding ==
  ASSUME TypeOK, NEW r \in Holding
  PROVE  /\ At(r, "day") <=> Open(r) /\ tx[r].next = 1
         /\ At(r, "jobs") <=> Open(r) /\ tx[r].next = 2
         /\ At(r, "holds") <=> Open(r) /\ tx[r].next = 3
         /\ At(r, "grid") <=> Open(r) /\ tx[r].next = 4
         /\ At(r, "slots") <=> Open(r) /\ tx[r].next = 5
         /\ At(r, "stale") <=> Open(r) /\ tx[r].next = 6
         /\ At(r, "commit") <=> Open(r) /\ tx[r].next = 7
         /\ ~At(r, "hold")
<1>1. Statements(r) = <<"day", "jobs", "holds", "grid", "slots", "stale", "commit">>
  BY Kinds DEF Statements
<1>2. tx[r].next \in 1 .. 7
  BY Kinds DEF TypeOK, Transaction
<1>3. tx[r].next \in {1, 2, 3, 4, 5, 6, 7}
  BY <1>2
<1> QED  BY <1>1, <1>3 DEF At, Open

LEMMA AtConfirming ==
  ASSUME TypeOK, NEW r \in Confirming, Sound(r)
  PROVE  /\ At(r, "hold") <=> Open(r) /\ tx[r].next = 1
         /\ At(r, "day") <=> Open(r) /\ tx[r].next = 2
         /\ At(r, "slots") <=> Open(r) /\ tx[r].next = 3
         /\ At(r, "jobs") <=> Open(r) /\ tx[r].next = 4
         /\ At(r, "holds") <=> Open(r) /\ tx[r].next = 5
         /\ At(r, "commit") <=> Open(r) /\ tx[r].next = 6
         /\ ~At(r, "grid") /\ ~At(r, "stale")
<1>1. Statements(r) = <<"hold", "day", "slots", "jobs", "holds", "commit">>
  BY Kinds DEF Statements
<1>2. tx[r].next \in 1 .. 7 /\ tx[r].next <= 6
  BY Kinds DEF TypeOK, Transaction, Sound, InOrder, Last
<1>3. tx[r].next \in {1, 2, 3, 4, 5, 6}
  BY <1>2
<1> QED  BY <1>1, <1>3 DEF At, Open

LEMMA AtCorrecting ==
  ASSUME TypeOK, NEW r \in Correcting, Sound(r)
  PROVE  /\ At(r, "hold") <=> Open(r) /\ tx[r].next = 1
         /\ At(r, "slots") <=> Open(r) /\ tx[r].next = 2
         /\ At(r, "commit") <=> Open(r) /\ tx[r].next = 3
         /\ ~At(r, "day") /\ ~At(r, "jobs") /\ ~At(r, "holds")
         /\ ~At(r, "grid") /\ ~At(r, "stale")
<1>1. Statements(r) = <<"hold", "slots", "commit">>
  BY Kinds DEF Statements
<1>2. tx[r].next \in 1 .. 7 /\ tx[r].next <= 3
  BY Kinds DEF TypeOK, Transaction, Sound, InOrder, Last
<1>3. tx[r].next \in {1, 2, 3}
  BY <1>2
<1> QED  BY <1>1, <1>3 DEF At, Open

LEMMA IdleType == Idle \in Transaction
<1>1. (CHOOSE t \in Team : TRUE) \in Team /\ (CHOOSE s \in Grid : TRUE) \in Grid
  BY RaceConstants
<1>2. [s \in Slot |-> FreeSlot] \in [Slot -> SlotRow]
  BY DEF FreeSlot, SlotRow
<1> QED  BY <1>1, <1>2 DEF Idle, Transaction

(* A statement changes the transaction of its request only.                *)
LEMMA StepTakes ==
  ASSUME TypeOK, NEW r \in Request, NEW local \in Transaction, local.next <= 6,
         Step(r, local)
  PROVE  /\ tx' \in [Request -> Transaction]
         /\ tx'[r] = [local EXCEPT !.next = local.next + 1]
         /\ \A q \in Request \ {r} : tx'[q] = tx[q]
<1>1. [local EXCEPT !.next = local.next + 1] \in Transaction
  BY DEF Transaction
<1> QED  BY <1>1 DEF Step, TypeOK

(* The end of a transaction gives its locks back and nothing else.         *)
LEMMA FinishTakes ==
  ASSUME TypeOK, NEW r \in Request, NEW state \in {"committed", "refused"}, Finish(r, state)
  PROVE  /\ tx' \in [Request -> Transaction]
         /\ day' \in Request \cup {Nobody}
         /\ holdLock' \in [Holding -> Request \cup {Nobody}]
         /\ slotLock' \in [Slot -> Request \cup {Nobody}]
         /\ tx'[r].state = state /\ tx'[r].next = 1 /\ tx'[r].hold = tx[r].hold
         /\ \A q \in Request \ {r} : tx'[q] = tx[q]
         /\ \A q \in Request \ {r} : day = q => day' = q
         /\ \A h \in Holding, q \in Request \ {r} : holdLock[h] = q => holdLock'[h] = q
         /\ \A s \in Slot, q \in Request \ {r} : slotLock'[s] = q => slotLock[s] = q
         /\ \A s \in Slot : slotLock'[s] # r
<1>1. [Idle EXCEPT !.state = state, !.hold = tx[r].hold] \in Transaction
  BY IdleType DEF TypeOK, Transaction
<1>2. /\ tx' = [tx EXCEPT ![r] = [Idle EXCEPT !.state = state, !.hold = tx[r].hold]]
      /\ Release(r)
  BY DEF Finish
<1>3. /\ tx' \in [Request -> Transaction]
      /\ tx'[r] = [Idle EXCEPT !.state = state, !.hold = tx[r].hold]
      /\ \A q \in Request \ {r} : tx'[q] = tx[q]
  BY <1>1, <1>2 DEF TypeOK
<1>4. tx'[r].state = state /\ tx'[r].next = 1 /\ tx'[r].hold = tx[r].hold
  BY <1>3, <1>1 DEF Idle, Transaction
<1>5. /\ day' = IF day = r THEN Nobody ELSE day
      /\ holdLock' = [h \in Holding |-> IF holdLock[h] = r THEN Nobody ELSE holdLock[h]]
      /\ slotLock' = [s \in Slot |-> IF slotLock[s] = r THEN Nobody ELSE slotLock[s]]
  BY <1>2 DEF Release, Freed, TypeOK
<1>6. Nobody \notin Request
  BY RaceConstants
<1>7. /\ day \in Request \cup {Nobody}
      /\ holdLock \in [Holding -> Request \cup {Nobody}]
      /\ slotLock \in [Slot -> Request \cup {Nobody}]
  BY DEF TypeOK
<1>8. /\ day' \in Request \cup {Nobody}
      /\ \A q \in Request \ {r} : day = q => day' = q
  BY <1>5, <1>7
<1>9. /\ holdLock' \in [Holding -> Request \cup {Nobody}]
      /\ \A h \in Holding, q \in Request \ {r} : holdLock[h] = q => holdLock'[h] = q
  BY <1>5, <1>7
<1>10. /\ slotLock' \in [Slot -> Request \cup {Nobody}]
       /\ \A s \in Slot, q \in Request \ {r} : slotLock'[s] = q => slotLock[s] = q
       /\ \A s \in Slot : slotLock'[s] # r
  BY <1>5, <1>6, <1>7
<1> QED  BY <1>3, <1>4, <1>8, <1>9, <1>10

(* Among the rows that a request still wants there is a first one.         *)
LEMMA NextSlotWanted ==
  ASSUME TypeOK, NEW r \in Request, {s \in Wanted(r) : slotLock[s] # r} # {},
         Wanted(r) \subseteq Slot
  PROVE  NextSlot(r) \in Wanted(r) /\ slotLock[NextSlot(r)] # r
<1> DEFINE W == {s \in Wanted(r) : slotLock[s] # r}
           R == OpToRel(<, Nat)
           ranks == {Rank(r, s) : s \in W}
<1>1. \A s \in Slot : Rank(r, s) \in Nat
  BY RaceConstants DEF Rank, Slot
<1>2. IsWellFoundedOn(R, Nat)
  BY NatLessThanWellFounded
<1>3. \A m, n \in Nat : m < n => <<m, n>> \in R
  BY Zenon DEF OpToRel
<1>4. ranks \subseteq Nat /\ ranks # {}
  BY <1>1
<1> HIDE DEF R
<1>5. PICK n \in ranks : \A m \in ranks : ~(<<m, n>> \in R)
  <2> HIDE DEF ranks
  <2> QED  BY <1>2, <1>4, WFMin
<1>6. \A m \in ranks : n <= m
  <2> HIDE DEF ranks
  <2>1. \A m \in ranks : ~(m < n)
    BY <1>3, <1>4, <1>5
  <2> QED  BY <1>4, <2>1
<1>7. PICK s \in W : Rank(r, s) = n
  BY <1>5
<1>8. \A t \in Wanted(r) : slotLock[t] # r => Rank(r, s) <= Rank(r, t)
  BY <1>6, <1>7
<1>9. \E x \in W : \A t \in Wanted(r) : slotLock[t] # r => Rank(r, x) <= Rank(r, t)
  BY <1>7, <1>8
<1>10. NextSlot(r) \in W
  <2> HIDE DEF W
  <2>1. NextSlot(r) = CHOOSE x \in W : \A t \in Wanted(r) : slotLock[t] # r => Rank(r, x) <= Rank(r, t)
    BY DEF NextSlot, W
  <2> QED  BY <1>9, <2>1
<1> QED  BY <1>10
-----------------------------------------------------------------------------
(* What a step of r leaves to the others.                                  *)

Frame(r) ==
  /\ \A q \in Request \ {r} : tx'[q] = tx[q]
  /\ \A q \in Request \ {r} : day = q => day' = q
  /\ \A h \in Holding, q \in Request \ {r} :
       holdLock[h] = q => holdLock'[h] = q /\ (Active(h) => Active(h)')
  /\ \A s \in Slot, q \in Request \ {r} : slotLock'[s] = q => slotLock[s] = q
  /\ expired \subseteq expired'
  /\ \A h \in Holding :
       /\ h # r => (Exists(h)' <=> Exists(h))
       /\ Exists(h) => /\ Exists(h)'
                       /\ hold'[h].team = hold[h].team
                       /\ hold'[h].start = hold[h].start
                       /\ Active(h)' => Active(h)
                       /\ Consumed(h) => Consumed(h)'

LEMMA OthersSound ==
  ASSUME TypeOK, OnlyExisting, NEW r, Frame(r), NEW q \in Request \ {r}, Sound(q)
  PROVE  Sound(q)'
<1> DEFINE t == tx[q]
<1>1. tx'[q] = tx[q]
  BY DEF Frame
<1>2. /\ Open(q)' <=> Open(q)
      /\ HasDay(q)' <=> HasDay(q)
      /\ HasHold(q)' <=> HasHold(q)
      /\ TakesSlots(q)' <=> TakesSlots(q)
  BY <1>1 DEF Open, HasDay, HasHold, TakesSlots
<1>3. InOrder(q)'
  BY <1>1 DEF Sound, InOrder, Last
<1>4. (tx[q].state # "new" => Named(q))'
  <2> SUFFICES ASSUME tx[q].state # "new"
               PROVE  Named(q)'
    BY <1>1
  <2>1. Named(q)
    BY DEF Sound
  <2> QED  BY <1>1, <1>2, <2>1 DEF Named, Frame
<1>5. (q \in Holding /\ tx[q].state # "committed" => ~Exists(q))'
  BY <1>1 DEF Sound, Frame
<1>6. (HasDay(q) => day = q)'
  BY <1>2 DEF Sound, Frame
<1>7. (HasHold(q) => holdLock[tx[q].hold] = q /\ Active(tx[q].hold))'
  <2> SUFFICES ASSUME HasHold(q)
               PROVE  (holdLock[tx[q].hold] = q /\ Active(tx[q].hold))'
    BY <1>2
  <2>1. tx[q].hold \in Holding /\ holdLock[tx[q].hold] = q /\ Active(tx[q].hold)
    BY DEF Sound, HasHold, Open, Named
  <2>2. holdLock'[tx[q].hold] = q /\ Active(tx[q].hold)'
    <3> DEFINE h == tx[q].hold
    <3> HIDE DEF h
    <3>1. h \in Holding /\ holdLock[h] = q /\ Active(h)
      BY <2>1 DEF h
    <3>2. holdLock'[h] = q /\ hold'[h].status = "active"
      BY <3>1 DEF Frame, Active
    <3> QED  BY <1>1, <3>2 DEF h, Active
  <2> QED  BY <1>1, <2>2 DEF Active
<1>8. (\A s \in Slot : slotLock[s] = q => TakesSlots(q))'
  BY <1>2 DEF Sound, Frame
<1>9. (q \in Holding /\ Open(q) => Windows(tx[q].start) \subseteq Grid /\ StaleSound(q))'
  <2> SUFFICES ASSUME q \in Holding, Open(q)
               PROVE  (Windows(tx[q].start) \subseteq Grid /\ StaleSound(q))'
    BY <1>2
  <2>1. Windows(tx[q].start) \subseteq Grid /\ StaleSound(q)
    BY DEF Sound
  <2>2. expired \subseteq expired' /\ tx[q].stale \subseteq Holding
    BY DEF Frame, TypeOK, Transaction
  <2>3. SeenFree(q) => SeenFree(q)'
    BY <1>1, <2>2 DEF SeenFree, Windows
  <2>4. tx[q].next = 7 => \A h \in tx[q].stale : Active(h)' => holdLock'[h] = q
    <3> SUFFICES ASSUME tx[q].next = 7, NEW h \in tx[q].stale, Active(h)'
                 PROVE  holdLock'[h] = q
      OBVIOUS
    <3>1. h \in Holding /\ Exists(h)
      BY <2>1, <2>2 DEF StaleSound, OnlyExisting
    <3>2. Active(h)
      BY <3>1 DEF Frame
    <3>3. holdLock[h] = q
      BY <2>1, <3>2 DEF StaleSound
    <3> QED  BY <3>1, <3>3 DEF Frame
  <2> QED  BY <1>1, <2>1, <2>2, <2>3, <2>4 DEF StaleSound, Windows, Active
<1>10. (q \notin Holding /\ tx[q].state = "committed" => Consumed(tx[q].hold))'
  <2> SUFFICES ASSUME q \notin Holding, tx[q].state = "committed"
               PROVE  Consumed(tx[q].hold)'
    BY <1>1
  <2>1. tx[q].hold \in Holding /\ Exists(tx[q].hold) /\ Consumed(tx[q].hold)
    BY DEF Sound, Named
  <2> DEFINE h == tx[q].hold
  <2> HIDE DEF h
  <2>2. hold'[h].status = "consumed"
    BY <2>1 DEF Frame, Consumed, h
  <2> QED  BY <1>1, <2>2 DEF h, Consumed
<1>11. Sound(q)' <=>
         /\ InOrder(q)'
         /\ (tx[q].state # "new" => Named(q))'
         /\ (q \in Holding /\ tx[q].state # "committed" => ~Exists(q))'
         /\ (HasDay(q) => day = q)'
         /\ (HasHold(q) => holdLock[tx[q].hold] = q /\ Active(tx[q].hold))'
         /\ (\A s \in Slot : slotLock[s] = q => TakesSlots(q))'
         /\ (q \in Holding /\ Open(q) => Windows(tx[q].start) \subseteq Grid /\ StaleSound(q))'
         /\ (q \notin Holding /\ tx[q].state = "committed" => Consumed(tx[q].hold))'
  BY DEF Sound
<1> QED  BY <1>3, <1>4, <1>5, <1>6, <1>7, <1>8, <1>9, <1>10, <1>11

(* A step that is sound for its request keeps the locks sound.             *)
LEMMA FrameLocked ==
  ASSUME Locked, NEW r, Frame(r), TypeOK', r \in Request => Sound(r)', OnlyExisting', ConsumedOnce'
  PROVE  Locked'
<1>1. \A q \in Request \ {r} : Sound(q)'
  BY OthersSound DEF Locked
<1>2. \A q \in Request : Sound(q)'
  BY <1>1
<1> QED  BY <1>2 DEF Locked

(* Only a confirmation or a rewash that commits can use a hold up.         *)
LEMMA OnceKept ==
  ASSUME Locked, NEW r, Frame(r), r \notin Holding => tx'[r].state # "committed"
  PROVE  ConsumedOnce'
<1> SUFFICES ASSUME NEW p \in Confirming \cup Correcting, NEW q \in Confirming \cup Correcting,
                    tx'[p].state = "committed", tx'[q].state = "committed",
                    tx'[p].hold = tx'[q].hold
             PROVE  p = q
  BY DEF ConsumedOnce
<1>1. p \in Request \ {r} /\ q \in Request \ {r}
  BY Kinds
<1>2. tx'[p] = tx[p] /\ tx'[q] = tx[q]
  BY <1>1 DEF Frame
<1> QED  BY <1>2 DEF Locked, ConsumedOnce

(* Steps that change no hold and only take locks that are free.            *)
LEMMA QuietFrame ==
  ASSUME TypeOK, NEW r, UNCHANGED hold, expired \subseteq expired',
         \A q \in Request \ {r} : tx'[q] = tx[q],
         day' = day \/ day = Nobody,
         \A h \in Holding : holdLock'[h] = holdLock[h] \/ holdLock[h] = Nobody,
         \A s \in Slot : slotLock'[s] \in {slotLock[s], r}
  PROVE  Frame(r)
<1>1. Nobody \notin Request
  BY RaceConstants
<1>2. \A q \in Request \ {r} : day = q => day' = q
  BY <1>1
<1>3. \A h \in Holding, q \in Request \ {r} : holdLock[h] = q => holdLock'[h] = q
  BY <1>1
<1>4. \A s \in Slot, q \in Request \ {r} : slotLock'[s] = q => slotLock[s] = q
  OBVIOUS
<1>5. \A h : /\ Exists(h)' <=> Exists(h)
             /\ Active(h)' <=> Active(h)
             /\ Consumed(h)' <=> Consumed(h)
  BY DEF Exists, Active, Consumed
<1> QED  BY <1>2, <1>3, <1>4, <1>5 DEF Frame
-----------------------------------------------------------------------------
(* Every step keeps the locks sound.                                       *)

LEMMA QuietLocked ==
  ASSUME Locked, NEW r \in Request, UNCHANGED <<hold, expired, slot>>,
         tx' \in [Request -> Transaction],
         \A q \in Request \ {r} : tx'[q] = tx[q],
         tx'[r].state # "committed",
         day' \in {day, r}, day' = day \/ day = Nobody,
         holdLock' \in [Holding -> Request \cup {Nobody}],
         \A h \in Holding : holdLock'[h] = holdLock[h] \/ holdLock[h] = Nobody,
         slotLock' \in [Slot -> Request \cup {Nobody}],
         \A s \in Slot : slotLock'[s] \in {slotLock[s], r},
         Sound(r)'
  PROVE  Locked' /\ Frame(r)
<1>1. Frame(r)
  BY QuietFrame DEF Locked
<1>2. TypeOK'
  BY DEF Locked, TypeOK
<1>3. OnlyExisting'
  BY DEF Locked, OnlyExisting, Exists
<1>4. ConsumedOnce'
  BY <1>1, OnceKept
<1> QED  BY <1>1, <1>2, <1>3, <1>4, FrameLocked

(* A step of a transaction that takes no lock.                             *)
LEMMA LocalLocked ==
  ASSUME Locked, NEW r \in Request, NEW local \in Transaction, local.next <= 6,
         local.state = "open", Step(r, local),
         UNCHANGED <<hold, expired, slot, day, holdLock, slotLock>>,
         Sound(r)'
  PROVE  Locked' /\ Frame(r)
<1>1. TypeOK
  BY DEF Locked
<1>2. /\ tx' \in [Request -> Transaction]
      /\ tx'[r] = [local EXCEPT !.next = local.next + 1]
      /\ \A q \in Request \ {r} : tx'[q] = tx[q]
  BY <1>1, StepTakes
<1>3. tx'[r].state # "committed"
  BY <1>2 DEF Transaction
<1>4. /\ holdLock \in [Holding -> Request \cup {Nobody}]
      /\ slotLock \in [Slot -> Request \cup {Nobody}]
  BY <1>1 DEF TypeOK
<1> QED  BY <1>2, <1>3, <1>4, QuietLocked

LEMMA BeginLocked ==
  ASSUME Locked, NEW r \in Request, Begin(r)
  PROVE  Locked' /\ Frame(r) /\ tx'[r].next = 1
<1> USE DEF Locked
<1>1. tx \in [Request -> Transaction] /\ tx[r].state = "new"
  BY DEF TypeOK, Begin
<1>2. Sound(r)
  OBVIOUS
<1>3. tx[r].next = 1 /\ ~Open(r) /\ \A s \in Slot : slotLock[s] # r
  BY <1>1, <1>2 DEF Sound, InOrder, Open, TakesSlots
<1>4. PICK h \in Holding, team \in Team, start \in Grid :
        /\ tx' = [tx EXCEPT ![r] = [tx[r] EXCEPT !.state = "open", !.hold = h,
                                                 !.team = team, !.start = start]]
        /\ r \in Holding => h = r /\ Windows(start) \subseteq Grid
        /\ r \notin Holding => Exists(h) /\ team = hold[h].team /\ start = hold[h].start
  <2>1. CASE r \in Holding
    <3>1. PICK s \in Grid :
            /\ Windows(s) \subseteq Grid
            /\ tx' = [tx EXCEPT ![r].state = "open", ![r].hold = r, ![r].start = s]
      BY <2>1 DEF Begin
    <3>2. tx[r].team \in Team
      BY <1>1 DEF Transaction
    <3>3. tx' = [tx EXCEPT ![r] = [tx[r] EXCEPT !.state = "open", !.hold = r,
                                                !.team = tx[r].team, !.start = s]]
      BY <1>1, <3>1 DEF Transaction
    <3> QED  BY <2>1, <3>1, <3>2, <3>3
  <2>2. CASE r \notin Holding
    <3>1. PICK h \in Holding \ expired :
            /\ hold[h].status # "none"
            /\ tx' = [tx EXCEPT ![r].state = "open", ![r].hold = h,
                                ![r].team = hold[h].team, ![r].start = hold[h].start]
      BY <2>2 DEF Begin
    <3>2. hold[h].team \in Team /\ hold[h].start \in Grid
      BY DEF TypeOK, HoldRow
    <3>3. tx' = [tx EXCEPT ![r] = [tx[r] EXCEPT !.state = "open", !.hold = h,
                                !.team = hold[h].team, !.start = hold[h].start]]
      BY <1>1, <3>1
    <3> QED  BY <2>2, <3>1, <3>2, <3>3 DEF Exists
  <2> QED  BY <2>1, <2>2
<1>5. UNCHANGED <<hold, expired, slot, day, holdLock, slotLock>>
  BY DEF Begin
<1>6. [tx[r] EXCEPT !.state = "open", !.hold = h, !.team = team, !.start = start] \in Transaction
  BY <1>1 DEF Transaction
<1>7. /\ tx' \in [Request -> Transaction]
      /\ \A q \in Request \ {r} : tx'[q] = tx[q]
      /\ tx'[r].state = "open" /\ tx'[r].hold = h /\ tx'[r].next = 1
      /\ tx'[r].team = team /\ tx'[r].start = start
  BY <1>1, <1>3, <1>4, <1>6 DEF Transaction
<1>8. Sound(r)'
  <2>1. InOrder(r)'
    BY <1>7, Kinds DEF InOrder, Last
  <2>2. Named(r)'
    BY <1>4, <1>5, <1>7 DEF Named, Exists, Open
  <2>3. r \in Holding => ~Exists(r)'
    BY <1>1, <1>2, <1>5 DEF Sound, Exists
  <2>4. ~HasDay(r)' /\ ~HasHold(r)'
    BY <1>7 DEF HasDay, HasHold
  <2>5. r \in Holding => Windows(tx'[r].start) \subseteq Grid /\ StaleSound(r)'
    BY <1>4, <1>7 DEF StaleSound
  <2> QED  BY <1>3, <1>5, <1>7, <2>1, <2>2, <2>3, <2>4, <2>5 DEF Sound, Windows
<1>9. /\ holdLock \in [Holding -> Request \cup {Nobody}]
      /\ slotLock \in [Slot -> Request \cup {Nobody}]
  BY DEF TypeOK
<1> QED  BY <1>5, <1>7, <1>8, <1>9, QuietLocked

(* A request that has ended holds nothing.                                 *)
LEMMA EndedSound ==
  ASSUME Locked, NEW r \in Request, tx[r].state = "open",
         NEW state \in {"committed", "refused"}, Finish(r, state), Frame(r),
         r \in Holding => (state = "refused" => hold'[r] = hold[r]),
         r \notin Holding /\ state = "committed" => Consumed(tx[r].hold)'
  PROVE  Sound(r)'
<1>1. /\ TypeOK /\ Sound(r) /\ Named(r)
  BY DEF Locked, Sound
<1>2. /\ tx'[r].state = state /\ tx'[r].next = 1 /\ tx'[r].hold = tx[r].hold
      /\ \A s \in Slot : slotLock'[s] # r
  BY <1>1, FinishTakes
<1>3. ~Open(r)' /\ ~HasDay(r)' /\ ~HasHold(r)'
  BY <1>2 DEF Open, HasDay, HasHold
<1>4. InOrder(r)'
  BY <1>2 DEF InOrder, Last
<1>5. Named(r)'
  BY <1>1, <1>2, <1>3 DEF Named, Frame
<1>6. r \in Holding /\ state # "committed" => ~Exists(r)'
  BY <1>1, <1>2 DEF Sound, Exists
<1>7. r \notin Holding /\ state = "committed" => Consumed(tx[r].hold)'
  OBVIOUS
<1> QED  BY <1>2, <1>3, <1>4, <1>5, <1>6, <1>7 DEF Sound

LEMMA RefuseLocked ==
  ASSUME Locked, NEW r \in Request, Open(r), Refuse(r)
  PROVE  Locked' /\ Frame(r)
<1>1. TypeOK /\ Finish(r, "refused") /\ UNCHANGED <<hold, expired, slot>>
  BY DEF Refuse, Locked
<1>2. /\ tx' \in [Request -> Transaction]
      /\ day' \in Request \cup {Nobody}
      /\ holdLock' \in [Holding -> Request \cup {Nobody}]
      /\ slotLock' \in [Slot -> Request \cup {Nobody}]
      /\ tx'[r].state = "refused"
      /\ \A q \in Request \ {r} : tx'[q] = tx[q]
      /\ \A q \in Request \ {r} : day = q => day' = q
      /\ \A h \in Holding, q \in Request \ {r} : holdLock[h] = q => holdLock'[h] = q
      /\ \A s \in Slot, q \in Request \ {r} : slotLock'[s] = q => slotLock[s] = q
  BY <1>1, FinishTakes
<1>3. Frame(r)
  BY <1>1, <1>2 DEF Frame, Exists, Active, Consumed
<1>4. TypeOK'
  BY <1>1, <1>2 DEF TypeOK
<1>5. Sound(r)'
  BY <1>1, <1>3, EndedSound DEF Open
<1>6. OnlyExisting'
  BY <1>1 DEF Locked, OnlyExisting, Exists
<1>7. ConsumedOnce'
  BY <1>2, <1>3, OnceKept
<1> QED  BY <1>3, <1>4, <1>5, <1>6, <1>7, FrameLocked

LEMMA LockHoldLocked ==
  ASSUME Locked, NEW r \in Request, LockHold(r)
  PROVE  Locked' /\ Frame(r)
<1> DEFINE h == tx[r].hold
<1>1. TypeOK /\ Sound(r) /\ Open(r)
  BY DEF Locked, LockHold, At, Open
<1>2. tx[r] \in Transaction /\ tx[r].state = "open" /\ Named(r)
  BY <1>1 DEF TypeOK, Sound, Open
<1>3. CASE Refuse(r)
  BY <1>1, <1>3, RefuseLocked
<1>4. CASE /\ Active(h)
           /\ Step(r, tx[r])
           /\ holdLock' = [holdLock EXCEPT ![h] = r]
           /\ UNCHANGED <<hold, expired, slot, day, slotLock>>
  <2>1. r \notin Holding /\ tx[r].next = 1
    BY <1>1, AtHolding, AtConfirming, AtCorrecting, Kinds DEF LockHold
  <2>2. h \in Holding /\ holdLock[h] = Nobody
    BY <1>2 DEF Named, LockHold
  <2>3. /\ tx' \in [Request -> Transaction]
        /\ tx'[r] = [tx[r] EXCEPT !.next = 2]
        /\ \A q \in Request \ {r} : tx'[q] = tx[q]
    BY <1>1, <1>2, <1>4, <2>1, StepTakes
  <2>4. /\ tx'[r].state = "open" /\ tx'[r].hold = h /\ tx'[r].next = 2
        /\ tx'[r].team = tx[r].team /\ tx'[r].start = tx[r].start
    BY <1>2, <2>3 DEF Transaction
  <2>5. /\ holdLock' \in [Holding -> Request \cup {Nobody}]
        /\ holdLock'[h] = r
        /\ \A g \in Holding : holdLock'[g] = holdLock[g] \/ holdLock[g] = Nobody
    BY <1>1, <1>4, <2>2 DEF TypeOK
  <2>6. Sound(r)'
    <3>1. InOrder(r)'
      BY <2>4 DEF InOrder, Last
    <3>2. Named(r)'
      BY <1>2, <1>4, <2>4 DEF Named, Exists, Open
    <3>3. ~HasDay(r)'
      BY <2>1, <2>4 DEF HasDay
    <3>4. holdLock'[tx'[r].hold] = r /\ Active(tx[r].hold)'
      BY <1>4, <2>4, <2>5 DEF Active
    <3>5. \A s \in Slot : slotLock'[s] # r
      BY <1>1, <1>4, <2>1 DEF Sound, TakesSlots
    <3> QED  BY <2>1, <2>4, <3>1, <3>2, <3>3, <3>4, <3>5 DEF Sound
  <2>7. slotLock \in [Slot -> Request \cup {Nobody}]
    BY <1>1 DEF TypeOK
  <2> HIDE DEF h
  <2> QED  BY <1>4, <2>3, <2>4, <2>5, <2>6, <2>7, QuietLocked
<1> QED  BY <1>3, <1>4 DEF LockHold, Active

LEMMA LockDayLocked ==
  ASSUME Locked, NEW r \in Request, LockDay(r)
  PROVE  Locked' /\ Frame(r)
<1>1. TypeOK /\ Sound(r) /\ Open(r)
  BY DEF Locked, LockDay, At, Open
<1>2. tx[r] \in Transaction /\ tx[r].state = "open" /\ Named(r)
  BY <1>1 DEF TypeOK, Sound, Open
<1>3. \/ r \in Holding /\ tx[r].next = 1
      \/ r \in Confirming /\ tx[r].next = 2
  BY <1>1, AtHolding, AtConfirming, AtCorrecting, Kinds DEF LockDay
<1>4. /\ tx' \in [Request -> Transaction]
      /\ tx'[r] = [tx[r] EXCEPT !.next = tx[r].next + 1]
      /\ \A q \in Request \ {r} : tx'[q] = tx[q]
  BY <1>1, <1>2, <1>3, StepTakes DEF LockDay
<1>5. /\ tx'[r].state = "open" /\ tx'[r].hold = tx[r].hold /\ tx'[r].next = tx[r].next + 1
      /\ tx'[r].team = tx[r].team /\ tx'[r].start = tx[r].start
  BY <1>2, <1>4 DEF Transaction
<1>6. day' = r /\ day = Nobody /\ UNCHANGED <<hold, expired, slot, holdLock, slotLock>>
  BY DEF LockDay
<1>7. Sound(r)'
  <2>1. InOrder(r)'
    BY <1>3, <1>5, Kinds DEF InOrder, Last
  <2>2. Named(r)'
    BY <1>2, <1>5, <1>6 DEF Named, Exists, Open
  <2>3. r \in Holding => ~Exists(r)'
    BY <1>1, <1>2, <1>6 DEF Sound, Exists
  <2>4. HasHold(r)' => (holdLock[tx[r].hold] = r /\ Active(tx[r].hold))'
    BY <1>1, <1>2, <1>3, <1>5, <1>6, Kinds DEF Sound, HasHold, Open, Active
  <2>5. \A s \in Slot : slotLock'[s] # r
    BY <1>1, <1>3, <1>6, Kinds DEF Sound, TakesSlots
  <2>6. r \in Holding => (Windows(tx[r].start) \subseteq Grid /\ StaleSound(r))'
    BY <1>1, <1>3, <1>5, Kinds DEF Sound, StaleSound, Windows
  <2> QED  BY <1>5, <1>6, <2>1, <2>2, <2>3, <2>4, <2>5, <2>6 DEF Sound
<1>8. /\ holdLock \in [Holding -> Request \cup {Nobody}]
      /\ slotLock \in [Slot -> Request \cup {Nobody}]
  BY <1>1 DEF TypeOK
<1> QED  BY <1>4, <1>5, <1>6, <1>7, <1>8, QuietLocked

(* Statements that only read, or find their locks taken.                   *)
LEMMA MoveLocked ==
  ASSUME Locked, NEW r \in Request, NEW local \in Transaction, Open(r), Step(r, local),
         local.state = "open", local.next = tx[r].next, tx[r].next + 1 <= Last(r),
         local.hold = tx[r].hold, local.start = tx[r].start,
         r \notin Holding => local.team = tx[r].team,
         UNCHANGED <<hold, expired, slot, day, holdLock, slotLock>>,
         tx[r].next >= IF r \in Confirming THEN 3 ELSE 2,
         r \in Holding => StaleSound(r)'
  PROVE  /\ Locked' /\ Frame(r)
         /\ tx'[r] = [local EXCEPT !.next = tx[r].next + 1]
<1>1. TypeOK /\ Sound(r)
  BY DEF Locked
<1>2. tx[r] \in Transaction /\ tx[r].state = "open" /\ Named(r) /\ tx[r].next \in Nat
  BY <1>1 DEF TypeOK, Sound, Open, Transaction
<1>3. local.next <= 6
  BY <1>2 DEF Last
<1>4. /\ tx' \in [Request -> Transaction]
      /\ tx'[r] = [local EXCEPT !.next = tx[r].next + 1]
      /\ \A q \in Request \ {r} : tx'[q] = tx[q]
  BY <1>1, <1>3, StepTakes
<1>5. /\ tx'[r].state = "open" /\ tx'[r].hold = tx[r].hold /\ tx'[r].next = tx[r].next + 1
      /\ r \notin Holding => tx'[r].team = tx[r].team
      /\ tx'[r].start = tx[r].start
  BY <1>2, <1>4 DEF Transaction
<1>6. Sound(r)'
  <2>1. InOrder(r)'
    BY <1>5 DEF InOrder, Last
  <2>2. Named(r)'
    BY <1>2, <1>5 DEF Named, Exists, Open
  <2>3. r \in Holding => ~Exists(r)'
    BY <1>1, <1>2 DEF Sound, Exists
  <2>4. HasDay(r)' => day' = r
    BY <1>1, <1>2, <1>5 DEF Sound, HasDay, Open
  <2>5. HasHold(r)' => (holdLock[tx[r].hold] = r /\ Active(tx[r].hold))'
    BY <1>1, <1>2, <1>5, Kinds DEF Sound, HasHold, Open, Active
  <2>6. \A s \in Slot : slotLock'[s] = r => TakesSlots(r)'
    BY <1>1, <1>2, <1>5 DEF Sound, TakesSlots, Open
  <2>7. r \in Holding => (Windows(tx[r].start) \subseteq Grid)'
    BY <1>1, <1>2, <1>5 DEF Sound, Windows, Open
  <2> QED  BY <1>5, <2>1, <2>2, <2>3, <2>4, <2>5, <2>6, <2>7 DEF Sound
<1> QED  BY <1>3, <1>4, <1>6, LocalLocked

LEMMA ReadJobsLocked ==
  ASSUME Locked, NEW r \in Request, ReadJobs(r)
  PROVE  /\ Locked' /\ Frame(r)
         /\ tx'[r] = [tx[r] EXCEPT !.claims = {h \in Holding : Consumed(h)}, !.next = tx[r].next + 1]
<1> DEFINE read == {h \in Holding : hold[h].status = "consumed"}
           local == [tx[r] EXCEPT !.claims = read]
<1>1. TypeOK /\ Sound(r) /\ Open(r)
  BY DEF Locked, ReadJobs, At, Open
<1>2. tx[r] \in Transaction /\ tx[r].state = "open"
  BY <1>1 DEF TypeOK, Open
<1>3. \/ r \in Holding /\ tx[r].next = 2
      \/ r \in Confirming /\ tx[r].next = 4
  BY <1>1, AtHolding, AtConfirming, AtCorrecting, Kinds DEF ReadJobs
<1>4. read \subseteq Holding
  OBVIOUS
<1> HIDE DEF read
<1>5. /\ local \in Transaction
      /\ local.state = "open" /\ local.next = tx[r].next /\ local.hold = tx[r].hold
      /\ local.start = tx[r].start /\ local.team = tx[r].team
      /\ [local EXCEPT !.next = tx[r].next + 1]
           = [tx[r] EXCEPT !.claims = read, !.next = tx[r].next + 1]
  BY <1>2, <1>4 DEF Transaction
<1>6. Step(r, local) /\ UNCHANGED <<hold, expired, slot, day, holdLock, slotLock>>
  BY DEF ReadJobs, read
<1> HIDE DEF local
<1>7. r \in Holding => tx'[r].next = 3
  BY <1>1, <1>3, <1>5, <1>6, StepTakes, Kinds DEF Transaction
<1>8. r \in Holding => StaleSound(r)'
  BY <1>7 DEF StaleSound
<1>9. tx[r].next + 1 <= Last(r) /\ tx[r].next >= IF r \in Confirming THEN 3 ELSE 2
  BY <1>3, Kinds DEF Last
<1>10. /\ Locked' /\ Frame(r)
       /\ tx'[r] = [local EXCEPT !.next = tx[r].next + 1]
  BY <1>1, <1>5, <1>6, <1>8, <1>9, MoveLocked
<1> QED  BY <1>5, <1>10 DEF read, Consumed

LEMMA ReadHoldsLocked ==
  ASSUME Locked, NEW r \in Request, ReadHolds(r)
  PROVE  /\ Locked' /\ Frame(r)
         /\ tx'[r] = [tx[r] EXCEPT
              !.claims = (tx[r].claims \cup {h \in Holding \ expired : Active(h)}) \ {tx[r].hold},
              !.next = tx[r].next + 1]
<1> DEFINE active == {h \in Holding \ expired : hold[h].status = "active"}
           read == (tx[r].claims \cup active) \ {tx[r].hold}
           local == [tx[r] EXCEPT !.claims = read]
<1>1. TypeOK /\ Sound(r) /\ Open(r)
  BY DEF Locked, ReadHolds, At, Open
<1>2. tx[r] \in Transaction /\ tx[r].state = "open"
  BY <1>1 DEF TypeOK, Open
<1>3. \/ r \in Holding /\ tx[r].next = 3
      \/ r \in Confirming /\ tx[r].next = 5
  BY <1>1, AtHolding, AtConfirming, AtCorrecting, Kinds DEF ReadHolds
<1>4. read \subseteq Holding
  BY <1>2 DEF Transaction
<1>5. Step(r, local) /\ UNCHANGED <<hold, expired, slot, day, holdLock, slotLock>>
  BY <1>2 DEF ReadHolds, Transaction
<1>6. read = (tx[r].claims \cup {h \in Holding \ expired : Active(h)}) \ {tx[r].hold}
  BY DEF Active
<1> HIDE DEF read
<1>7. /\ local \in Transaction
      /\ local.state = "open" /\ local.next = tx[r].next /\ local.hold = tx[r].hold
      /\ local.start = tx[r].start /\ local.team = tx[r].team
      /\ [local EXCEPT !.next = tx[r].next + 1]
           = [tx[r] EXCEPT !.claims = read, !.next = tx[r].next + 1]
  BY <1>2, <1>4 DEF Transaction
<1> HIDE DEF local
<1>8. r \in Holding => tx'[r].next = 4
  BY <1>1, <1>3, <1>5, <1>7, StepTakes, Kinds DEF Transaction
<1>9. r \in Holding => StaleSound(r)'
  BY <1>8 DEF StaleSound
<1>10. tx[r].next + 1 <= Last(r) /\ tx[r].next >= IF r \in Confirming THEN 3 ELSE 2
  BY <1>3, Kinds DEF Last
<1>11. /\ Locked' /\ Frame(r)
       /\ tx'[r] = [local EXCEPT !.next = tx[r].next + 1]
  BY <1>1, <1>5, <1>7, <1>9, <1>10, MoveLocked
<1> QED  BY <1>6, <1>7, <1>11

(* Candidates of the grid.                                                 *)
Chosen(r, t) ==
  /\ Fits(tx[r].start, tx[r].claims, t)
  /\ \A w \in Windows(tx[r].start) : ~SlotBlocks(<<t, w>>)

LEMMA ReadGridLocked ==
  ASSUME Locked, NEW r \in Request, ReadGrid(r)
  PROVE  /\ Locked' /\ Frame(r)
         /\ \/ Refuse(r)
            \/ /\ \E t \in Team :
                    /\ Chosen(r, t)
                    /\ tx'[r] = [tx[r] EXCEPT !.team = t, !.seen = slot, !.next = 5]
               /\ UNCHANGED <<hold, expired, slot, day, holdLock, slotLock>>
<1>1. TypeOK /\ Sound(r) /\ Open(r)
  BY DEF Locked, ReadGrid, At, Open
<1>2. tx[r] \in Transaction /\ tx[r].state = "open"
  BY <1>1 DEF TypeOK, Open
<1>3. r \in Holding /\ tx[r].next = 4
  BY <1>1, AtHolding, AtConfirming, AtCorrecting, Kinds DEF ReadGrid
<1>4. CASE Refuse(r)
  BY <1>1, <1>4, RefuseLocked
<1>5. ASSUME NEW t \in Team, Chosen(r, t), Step(r, [tx[r] EXCEPT !.team = t, !.seen = slot]),
             UNCHANGED <<hold, expired, slot, day, holdLock, slotLock>>
      PROVE  /\ Locked' /\ Frame(r)
             /\ tx'[r] = [tx[r] EXCEPT !.team = t, !.seen = slot, !.next = 5]
  <2> DEFINE local == [tx[r] EXCEPT !.team = t, !.seen = slot]
  <2>1. slot \in [Slot -> SlotRow]
    BY <1>1 DEF TypeOK
  <2>2. /\ local \in Transaction
        /\ local.state = "open" /\ local.next = 4 /\ local.hold = tx[r].hold
        /\ local.start = tx[r].start /\ local.team = t /\ local.seen = slot
        /\ [local EXCEPT !.next = 5] = [tx[r] EXCEPT !.team = t, !.seen = slot, !.next = 5]
    BY <1>2, <1>3, <2>1 DEF Transaction
  <2>3. Step(r, local)
    BY <1>5
  <2> HIDE DEF local
  <2>4. tx'[r] = [local EXCEPT !.next = 5]
    BY <1>1, <2>2, <2>3, StepTakes
  <2>5. /\ tx'[r].next = 5 /\ tx'[r].start = tx[r].start
        /\ tx'[r].team = t /\ tx'[r].seen = slot
    BY <2>2, <2>4 DEF Transaction
  <2>6. SeenFree(r)'
    <3> SUFFICES ASSUME NEW w \in Windows(tx[r].start)
                 PROVE  /\ slot[<<t, w>>].status # "reserved"
                        /\ slot[<<t, w>>].status = "held" => slot[<<t, w>>].by \in expired
      BY <1>5, <2>5 DEF SeenFree, Windows
    <3> QED  BY <1>5 DEF Chosen, SlotBlocks
  <2>7. StaleSound(r)'
    BY <2>5, <2>6 DEF StaleSound
  <2>8. tx[r].next + 1 <= Last(r) /\ tx[r].next >= IF r \in Confirming THEN 3 ELSE 2
    BY <1>3, Kinds DEF Last
  <2>9. /\ Locked' /\ Frame(r)
    BY <1>1, <1>3, <1>5, <2>2, <2>3, <2>7, <2>8, MoveLocked
  <2> QED  BY <2>2, <2>4, <2>9
<1>6. \/ Refuse(r)
      \/ /\ \E t \in Team :
              Chosen(r, t) /\ Step(r, [tx[r] EXCEPT !.team = t, !.seen = slot])
         /\ UNCHANGED <<hold, expired, slot, day, holdLock, slotLock>>
  BY DEF ReadGrid, Chosen
<1> QED  BY <1>4, <1>5, <1>6

LEMMA WantedSlots ==
  ASSUME Locked, NEW r \in Request, Open(r)
  PROVE  Wanted(r) \subseteq Slot
<1>1. CASE r \in Holding
  <2>1. Windows(tx[r].start) \subseteq Grid /\ tx[r].team \in Team
    BY <1>1 DEF Locked, Sound, TypeOK, Transaction
  <2> QED  BY <1>1, <2>1 DEF Wanted, Slot
<1>2. CASE r \notin Holding
  BY <1>2 DEF Wanted
<1> QED  BY <1>1, <1>2

(* A step that takes a row lock and does not go on.                        *)
LEMMA AcquireLocked ==
  ASSUME Locked, NEW r \in Request, Open(r), UNCHANGED <<hold, expired, slot, day, tx>>,
         holdLock' \in [Holding -> Request \cup {Nobody}],
         \A h \in Holding : holdLock'[h] = holdLock[h] \/ holdLock[h] = Nobody,
         slotLock' \in [Slot -> Request \cup {Nobody}],
         \A s \in Slot : slotLock'[s] = slotLock[s] \/ (slotLock'[s] = r /\ TakesSlots(r))
  PROVE  Locked' /\ Frame(r)
<1>1. TypeOK /\ Sound(r)
  BY DEF Locked
<1>2. tx[r] \in Transaction /\ tx[r].state = "open" /\ Named(r)
  BY <1>1 DEF TypeOK, Sound, Open
<1>3. r # Nobody
  BY Kinds, RaceConstants
<1>4. Sound(r)'
  <2>1. InOrder(r)' /\ Named(r)'
    BY <1>1, <1>2 DEF Sound, InOrder, Last, Named, Exists, Open
  <2>2. r \in Holding /\ tx'[r].state # "committed" => ~Exists(r)'
    BY <1>1 DEF Sound, Exists
  <2>3. HasDay(r)' => day' = r
    BY <1>1 DEF Sound, HasDay, Open
  <2>4. HasHold(r)' => (holdLock[tx[r].hold] = r /\ Active(tx[r].hold))'
    BY <1>1, <1>2, <1>3 DEF Sound, HasHold, Open, Active, Named
  <2>5. \A s \in Slot : slotLock'[s] = r => TakesSlots(r)'
    BY <1>1 DEF Sound, TakesSlots, Open
  <2>6. r \in Holding => (Windows(tx[r].start) \subseteq Grid)'
    BY <1>1 DEF Sound, Windows, Open
  <2>7. r \in Holding => StaleSound(r)'
    <3> SUFFICES ASSUME r \in Holding
                 PROVE  StaleSound(r)'
      OBVIOUS
    <3>1. StaleSound(r)
      BY <1>1 DEF Sound
    <3>2. tx[r].stale \subseteq Holding
      BY <1>2 DEF Transaction
    <3>3. SeenFree(r) => SeenFree(r)'
      BY DEF SeenFree, Windows
    <3>4. \A h \in Holding : holdLock[h] = r => holdLock'[h] = r
      BY <1>3
    <3> QED  BY <3>1, <3>2, <3>3, <3>4 DEF StaleSound, Active
  <2> QED  BY <1>2, <2>1, <2>2, <2>3, <2>4, <2>5, <2>6, <2>7 DEF Sound
<1>5. tx' \in [Request -> Transaction]
  BY <1>1 DEF TypeOK
<1>6. /\ \A q \in Request \ {r} : tx'[q] = tx[q]
      /\ tx'[r].state # "committed"
      /\ day' \in {day, r} /\ (day' = day \/ day = Nobody)
      /\ \A s \in Slot : slotLock'[s] \in {slotLock[s], r}
  BY <1>2
<1> QED  BY <1>4, <1>5, <1>6, QuietLocked

LEMMA LockSlotLocked ==
  ASSUME Locked, NEW r \in Request, LockSlot(r)
  PROVE  Locked' /\ Frame(r)
<1>1. TypeOK /\ Sound(r) /\ Open(r)
  BY DEF Locked, LockSlot, At, Open
<1>2. TakesSlots(r)
  BY <1>1, AtHolding, AtConfirming, AtCorrecting, Kinds DEF LockSlot, TakesSlots
<1>3. NextSlot(r) \in Slot
  BY <1>1, WantedSlots, NextSlotWanted DEF LockSlot
<1>4. slotLock' = [slotLock EXCEPT ![NextSlot(r)] = r]
  BY DEF LockSlot
<1> DEFINE s == NextSlot(r)
<1> HIDE DEF s
<1>5. /\ slotLock' \in [Slot -> Request \cup {Nobody}]
      /\ \A x \in Slot : slotLock'[x] = slotLock[x] \/ slotLock'[x] = r
  <2>1. s \in Slot /\ slotLock' = [slotLock EXCEPT ![s] = r]
    BY <1>3, <1>4 DEF s
  <2>2. slotLock \in [Slot -> Request \cup {Nobody}]
    BY <1>1 DEF TypeOK
  <2> QED  BY <2>1, <2>2
<1>6. holdLock \in [Holding -> Request \cup {Nobody}]
  BY <1>1 DEF TypeOK
<1>7. UNCHANGED <<hold, expired, slot, day, tx, holdLock>>
  BY DEF LockSlot
<1> QED  BY <1>1, <1>2, <1>5, <1>6, <1>7, AcquireLocked

LEMMA LockExpiringLocked ==
  ASSUME Locked, NEW r \in Request, LockExpiring(r)
  PROVE  Locked' /\ Frame(r)
<1>1. TypeOK /\ Sound(r) /\ Open(r)
  BY DEF Locked, LockExpiring, At, Open
<1>2. PICK h \in Expiring(r) : holdLock[h] = Nobody /\ holdLock' = [holdLock EXCEPT ![h] = r]
  BY DEF LockExpiring
<1>3. h \in Holding
  BY <1>1 DEF Expiring, TypeOK, Transaction
<1>4. /\ holdLock' \in [Holding -> Request \cup {Nobody}]
      /\ \A g \in Holding : holdLock'[g] = holdLock[g] \/ holdLock[g] = Nobody
  BY <1>1, <1>2, <1>3 DEF TypeOK
<1>5. slotLock \in [Slot -> Request \cup {Nobody}]
  BY <1>1 DEF TypeOK
<1>6. UNCHANGED <<hold, expired, slot, day, tx, slotLock>>
  BY DEF LockExpiring
<1> QED  BY <1>1, <1>4, <1>5, <1>6, AcquireLocked

LEMMA ExpiringLockedLocked ==
  ASSUME Locked, NEW r \in Request, ExpiringLocked(r)
  PROVE  /\ Locked' /\ Frame(r)
         /\ r \in Holding /\ tx[r].next = 6
         /\ tx'[r] = [tx[r] EXCEPT !.next = 7]
<1>1. TypeOK /\ Sound(r) /\ Open(r)
  BY DEF Locked, ExpiringLocked, At, Open
<1>2. tx[r] \in Transaction /\ tx[r].state = "open"
  BY <1>1 DEF TypeOK, Open
<1>3. r \in Holding /\ tx[r].next = 6
  BY <1>1, AtHolding, AtConfirming, AtCorrecting, Kinds DEF ExpiringLocked
<1>4. Step(r, tx[r]) /\ Expiring(r) = {} /\ UNCHANGED <<hold, expired, slot, day, holdLock, slotLock>>
  BY DEF ExpiringLocked
<1>5. tx'[r] = [tx[r] EXCEPT !.next = 7]
  BY <1>1, <1>2, <1>3, <1>4, StepTakes
<1>6. /\ tx'[r].next = 7 /\ tx'[r].start = tx[r].start /\ tx'[r].stale = tx[r].stale
      /\ tx'[r].team = tx[r].team /\ tx'[r].seen = tx[r].seen
  BY <1>2, <1>5 DEF Transaction
<1>7. StaleSound(r)'
  <2>1. StaleSound(r)
    BY <1>1, <1>3 DEF Sound
  <2>2. SeenFree(r)'
    BY <1>3, <1>4, <1>6, <2>1 DEF StaleSound, SeenFree, Windows
  <2>3. \A h \in tx[r].stale : Active(h) => holdLock[h] = r
    BY <1>4 DEF Expiring, Active
  <2> QED  BY <1>3, <1>4, <1>6, <2>1, <2>2, <2>3 DEF StaleSound, Active
<1>8. tx[r].next + 1 <= Last(r) /\ tx[r].next >= IF r \in Confirming THEN 3 ELSE 2
  BY <1>3, Kinds DEF Last
<1>9. Locked' /\ Frame(r)
  BY <1>1, <1>2, <1>3, <1>4, <1>7, <1>8, MoveLocked
<1> QED  BY <1>3, <1>5, <1>9

AllHeld(r) ==
  /\ Cardinality(Wanted(r)) = Required
  /\ \A s \in Wanted(r) : slot[s].status = "held"

LEMMA SlotsLockedLocked ==
  ASSUME Locked, NEW r \in Request, SlotsLocked(r)
  PROVE  /\ Locked' /\ Frame(r)
         /\ \/ Refuse(r)
            \/ /\ \E stale \in SUBSET Holding :
                    tx'[r] = [tx[r] EXCEPT !.stale = stale, !.next = tx[r].next + 1]
               /\ r \notin Holding => AllHeld(r)
               /\ UNCHANGED <<hold, expired, slot, day, holdLock, slotLock>>
<1> DEFINE found == {tx[r].seen[s].by : s \in {w \in Wanted(r) : tx[r].seen[w].status = "held"}}
           stale == IF r \in Holding THEN found ELSE {}
           local == [tx[r] EXCEPT !.stale = stale]
<1>1. TypeOK /\ Sound(r) /\ Open(r)
  BY DEF Locked, SlotsLocked, At, Open
<1>2. tx[r] \in Transaction /\ tx[r].state = "open"
  BY <1>1 DEF TypeOK, Open
<1>3. \/ r \in Holding /\ tx[r].next = 5
      \/ r \in Confirming /\ tx[r].next = 3
      \/ r \in Correcting /\ tx[r].next = 2
  BY <1>1, AtHolding, AtConfirming, AtCorrecting, Kinds DEF SlotsLocked
<1>4. CASE Refuse(r)
  BY <1>1, <1>4, RefuseLocked
<1>5. stale \subseteq expired
  <2> SUFFICES ASSUME r \in Holding
               PROVE  found \subseteq expired
    OBVIOUS
  <2>1. SeenFree(r)
    BY <1>1, <1>3, Kinds DEF Sound, StaleSound
  <2> SUFFICES ASSUME NEW s \in Wanted(r), tx[r].seen[s].status = "held"
               PROVE  tx[r].seen[s].by \in expired
    OBVIOUS
  <2>2. PICK w \in Windows(tx[r].start) : s = <<tx[r].team, w>>
    BY DEF Wanted
  <2> QED  BY <2>1, <2>2 DEF SeenFree
<1>6. stale \subseteq Holding
  BY <1>1, <1>5 DEF TypeOK
<1>7. \/ Refuse(r)
      \/ /\ r \in Holding \/ AllHeld(r)
         /\ Step(r, local)
         /\ UNCHANGED <<hold, expired, slot, day, holdLock, slotLock>>
  BY DEF SlotsLocked, AllHeld
<1> HIDE DEF stale
<1>8. CASE /\ r \in Holding \/ AllHeld(r)
           /\ Step(r, local)
           /\ UNCHANGED <<hold, expired, slot, day, holdLock, slotLock>>
  <2>1. /\ local \in Transaction
        /\ local.state = "open" /\ local.next = tx[r].next /\ local.hold = tx[r].hold
        /\ local.start = tx[r].start /\ local.team = tx[r].team /\ local.seen = tx[r].seen
        /\ local.stale = stale
        /\ [local EXCEPT !.next = tx[r].next + 1]
             = [tx[r] EXCEPT !.stale = stale, !.next = tx[r].next + 1]
    BY <1>2, <1>6 DEF Transaction
  <2> HIDE DEF local
  <2>2. tx'[r] = [local EXCEPT !.next = tx[r].next + 1]
    BY <1>1, <1>3, <1>8, <2>1, StepTakes
  <2>3. /\ tx'[r].next = tx[r].next + 1 /\ tx'[r].stale = stale
        /\ tx'[r].start = tx[r].start /\ tx'[r].team = tx[r].team /\ tx'[r].seen = tx[r].seen
    BY <2>1, <2>2 DEF Transaction
  <2>4. r \in Holding => StaleSound(r)'
    <3> SUFFICES ASSUME r \in Holding
                 PROVE  StaleSound(r)'
      OBVIOUS
    <3>1. tx'[r].next = 6
      BY <1>3, <2>3, Kinds
    <3>2. SeenFree(r)
      BY <1>1, <1>3, Kinds DEF Sound, StaleSound
    <3>3. SeenFree(r)'
      BY <1>8, <2>3, <3>2 DEF SeenFree, Windows
    <3> QED  BY <1>5, <1>8, <2>3, <3>1, <3>3 DEF StaleSound
  <2>5. tx[r].next + 1 <= Last(r) /\ tx[r].next >= IF r \in Confirming THEN 3 ELSE 2
    BY <1>3, Kinds DEF Last
  <2>6. /\ Locked' /\ Frame(r)
    BY <1>1, <1>8, <2>1, <2>4, <2>5, MoveLocked
  <2> QED  BY <1>6, <1>8, <2>1, <2>2, <2>6
<1> QED  BY <1>4, <1>7, <1>8

LEMMA CommitHoldLocked ==
  ASSUME Locked, NEW r \in Request, CommitHold(r)
  PROVE  Locked' /\ Frame(r)
<1>1. /\ TypeOK /\ Sound(r) /\ Open(r) /\ OnlyExisting
      /\ r \in Holding /\ Finish(r, "committed") /\ UNCHANGED expired
  BY DEF Locked, CommitHold, At, Open
<1>2. tx[r] \in Transaction /\ tx[r].state = "open" /\ tx[r].next = 7 /\ ~Exists(r)
  BY <1>1, AtHolding DEF TypeOK, Open, Sound, CommitHold
<1>3. /\ hold' \in [Holding -> HoldRow]
      /\ hold'[r] = [status |-> "active", team |-> tx[r].team, start |-> tx[r].start]
      /\ \A h \in Holding \ {r} :
           hold'[h] = IF h \in tx[r].stale /\ Active(h)
                      THEN [hold[h] EXCEPT !.status = "expired"] ELSE hold[h]
  BY <1>1, <1>2 DEF CommitHold, TypeOK, HoldRow, Transaction, Active
<1>4. /\ tx' \in [Request -> Transaction]
      /\ day' \in Request \cup {Nobody}
      /\ holdLock' \in [Holding -> Request \cup {Nobody}]
      /\ slotLock' \in [Slot -> Request \cup {Nobody}]
      /\ tx'[r].state = "committed"
      /\ \A q \in Request \ {r} : tx'[q] = tx[q]
      /\ \A q \in Request \ {r} : day = q => day' = q
      /\ \A h \in Holding, q \in Request \ {r} : holdLock[h] = q => holdLock'[h] = q
      /\ \A s \in Slot, q \in Request \ {r} : slotLock'[s] = q => slotLock[s] = q
  BY <1>1, FinishTakes
<1>5. /\ tx[r].stale \subseteq expired
      /\ \A h \in tx[r].stale : Active(h) => holdLock[h] = r
  BY <1>1, <1>2 DEF Sound, StaleSound
<1>6. ASSUME NEW h \in Holding \ {r}
      PROVE  /\ Exists(h)' <=> Exists(h)
             /\ hold'[h].team = hold[h].team
             /\ hold'[h].start = hold[h].start
             /\ Active(h)' => Active(h)
             /\ Consumed(h) => Consumed(h)'
             /\ holdLock[h] # r => (Active(h) => Active(h)')
  <2>1. hold[h] \in HoldRow
    BY <1>1 DEF TypeOK
  <2>2. CASE h \in tx[r].stale /\ Active(h)
    <3>1. hold'[h] = [hold[h] EXCEPT !.status = "expired"]
      BY <1>3, <2>2
    <3>2. /\ hold'[h].status = "expired"
          /\ hold'[h].team = hold[h].team
          /\ hold'[h].start = hold[h].start
      BY <2>1, <3>1 DEF HoldRow
    <3> QED  BY <1>5, <2>2, <3>2 DEF Exists, Active, Consumed
  <2>3. CASE ~(h \in tx[r].stale /\ Active(h))
    <3>1. hold'[h] = hold[h]
      BY <1>3, <2>3
    <3> QED  BY <3>1 DEF Exists, Active, Consumed
  <2> QED  BY <2>2, <2>3
<1>7. Frame(r)
  <2>1. \A h \in Holding, q \in Request \ {r} :
          holdLock[h] = q => (Active(h) => Active(h)')
    BY <1>2, <1>6 DEF Exists, Active
  <2>2. \A h \in Holding :
          /\ h # r => (Exists(h)' <=> Exists(h))
          /\ Exists(h) => /\ Exists(h)'
                          /\ hold'[h].team = hold[h].team
                          /\ hold'[h].start = hold[h].start
                          /\ Active(h)' => Active(h)
                          /\ Consumed(h) => Consumed(h)'
    BY <1>2, <1>6
  <2> QED  BY <1>1, <1>4, <2>1, <2>2 DEF Frame
<1>8. slot' \in [Slot -> SlotRow]
  BY <1>1 DEF CommitHold, TypeOK, SlotRow
<1>9. TypeOK'
  BY <1>1, <1>3, <1>4, <1>8 DEF TypeOK
<1>10. Sound(r)'
  BY <1>1, <1>7, EndedSound DEF Open
<1>11. OnlyExisting'
  <2>1. expired \subseteq Holding
    BY <1>1 DEF TypeOK
  <2> QED  BY <1>1, <1>7, <2>1 DEF OnlyExisting, Frame
<1>12. ConsumedOnce'
  BY <1>1, <1>7, OnceKept
<1> QED  BY <1>7, <1>9, <1>10, <1>11, <1>12, FrameLocked

(* The last statement of a confirmation or a rewash.                       *)
LEMMA ConsumeLocked ==
  ASSUME Locked, NEW r \in Request, r \notin Holding, At(r, "commit"),
         Consume(tx[r].hold), Finish(r, "committed"), UNCHANGED expired
  PROVE  /\ Locked' /\ Frame(r)
         /\ tx[r].hold \in Holding /\ Active(tx[r].hold) /\ holdLock[tx[r].hold] = r
         /\ hold' = [hold EXCEPT ![tx[r].hold].status = "consumed"]
<1> DEFINE h == tx[r].hold
<1>1. TypeOK /\ Sound(r) /\ Open(r) /\ OnlyExisting
  BY DEF Locked, At, Open
<1>2. HasHold(r)
  BY <1>1, AtConfirming, AtCorrecting, Kinds DEF HasHold
<1>3. tx[r].state = "open" /\ h \in Holding /\ Active(h) /\ holdLock[h] = r
  BY <1>1, <1>2 DEF Sound, Named, Open
<1>4. /\ tx' \in [Request -> Transaction]
      /\ day' \in Request \cup {Nobody}
      /\ holdLock' \in [Holding -> Request \cup {Nobody}]
      /\ slotLock' \in [Slot -> Request \cup {Nobody}]
      /\ tx'[r].state = "committed" /\ tx'[r].hold = h
      /\ \A q \in Request \ {r} : tx'[q] = tx[q]
      /\ \A q \in Request \ {r} : day = q => day' = q
      /\ \A g \in Holding, q \in Request \ {r} : holdLock[g] = q => holdLock'[g] = q
      /\ \A s \in Slot, q \in Request \ {r} : slotLock'[s] = q => slotLock[s] = q
  BY <1>1, FinishTakes
<1>5. hold' = [hold EXCEPT ![h].status = "consumed"]
  BY DEF Consume
<1> HIDE DEF h
<1>6. /\ hold' \in [Holding -> HoldRow]
      /\ hold'[h].status = "consumed" /\ hold'[h].team = hold[h].team
      /\ hold'[h].start = hold[h].start
      /\ \A g \in Holding \ {h} : hold'[g] = hold[g]
  BY <1>1, <1>3, <1>5 DEF TypeOK, HoldRow
<1>7. Frame(r)
  <2>1. \A g \in Holding, q \in Request \ {r} :
          holdLock[g] = q => (Active(g) => Active(g)')
    BY <1>3, <1>6 DEF Active
  <2>2. \A g \in Holding :
          /\ Exists(g)' <=> Exists(g)
          /\ hold'[g].team = hold[g].team
          /\ hold'[g].start = hold[g].start
          /\ Active(g)' => Active(g)
          /\ Consumed(g) => Consumed(g)'
    BY <1>3, <1>6 DEF Exists, Active, Consumed
  <2> QED  BY <1>4, <2>1, <2>2 DEF Frame
<1>8. slot' \in [Slot -> SlotRow]
  <2>1. \A s \in Slot : [slot[s] EXCEPT !.status = "reserved"] \in SlotRow
    BY <1>1 DEF TypeOK, SlotRow
  <2> QED  BY <1>1, <2>1 DEF Consume, TypeOK
<1>9. TypeOK'
  BY <1>1, <1>4, <1>6, <1>8 DEF TypeOK
<1>10. Consumed(tx[r].hold)'
  BY <1>4, <1>6 DEF Consumed
<1>11. Sound(r)'
  BY <1>3, <1>7, <1>10, EndedSound
<1>12. OnlyExisting'
  <2>1. expired \subseteq Holding
    BY <1>1 DEF TypeOK
  <2> QED  BY <1>1, <1>7, <2>1 DEF OnlyExisting, Frame
<1>13. ConsumedOnce'
  <2> SUFFICES ASSUME NEW p \in Confirming \cup Correcting, NEW q \in Confirming \cup Correcting,
                      tx'[p].state = "committed", tx'[q].state = "committed",
                      tx'[p].hold = tx'[q].hold
               PROVE  p = q
    BY DEF ConsumedOnce
  <2>1. ASSUME NEW x \in Confirming \cup Correcting, x # r, tx'[x].state = "committed"
        PROVE  /\ tx'[x] = tx[x]
               /\ tx'[x].hold # h
    <3>1. x \in Request /\ x \notin Holding
      BY Kinds
    <3>2. tx'[x] = tx[x] /\ Sound(x)
      BY <1>4, <2>1, <3>1 DEF Locked
    <3>3. Consumed(tx[x].hold)
      BY <2>1, <3>1, <3>2 DEF Sound
    <3> QED  BY <1>3, <3>2, <3>3 DEF Consumed, Active
  <2>2. CASE p = r
    BY <1>4, <2>1, <2>2
  <2>3. CASE q = r
    BY <1>4, <2>1, <2>3
  <2>4. CASE p # r /\ q # r
    BY <2>1, <2>4 DEF Locked, ConsumedOnce
  <2> QED  BY <2>2, <2>3, <2>4
<1>14. Locked'
  BY <1>7, <1>9, <1>11, <1>12, <1>13, FrameLocked
<1> QED  BY <1>3, <1>5, <1>7, <1>14 DEF h

LEMMA ExpireLocked ==
  ASSUME Locked, NEW h \in Holding, Expire(h)
  PROVE  Locked' /\ Frame(Nobody)
<1>1. /\ TypeOK /\ OnlyExisting /\ Exists(h) /\ expired' = expired \cup {h}
      /\ UNCHANGED <<hold, slot, day, holdLock, slotLock, tx>>
  BY DEF Locked, Expire, Exists
<1>2. Frame(Nobody)
  BY <1>1, QuietFrame
<1>3. TypeOK'
  BY <1>1 DEF TypeOK
<1>4. OnlyExisting'
  BY <1>1 DEF OnlyExisting, Exists
<1>5. ConsumedOnce'
  BY <1>1 DEF Locked, ConsumedOnce
<1>6. Nobody \notin Request
  BY RaceConstants
<1> QED  BY <1>2, <1>3, <1>4, <1>5, <1>6, FrameLocked
-----------------------------------------------------------------------------
LEMMA RunLocked ==
  ASSUME Locked, NEW r \in Request, Run(r)
  PROVE  Locked' /\ Frame(r)
<1>1. CASE CommitBooking(r)
  <2>1. r \notin Holding /\ At(r, "commit") /\ Open(r)
    BY <1>1, Kinds DEF CommitBooking, At, Open
  <2>2. \/ Refuse(r)
        \/ Consume(tx[r].hold) /\ Finish(r, "committed") /\ UNCHANGED expired
    BY <1>1 DEF CommitBooking
  <2> QED  BY <2>1, <2>2, RefuseLocked, ConsumeLocked
<1>2. CASE CommitCorrection(r)
  <2>1. r \notin Holding /\ At(r, "commit")
    BY <1>2, Kinds DEF CommitCorrection
  <2> QED  BY <1>2, <2>1, ConsumeLocked DEF CommitCorrection
<1> QED  BY <1>1, <1>2, LockHoldLocked, LockDayLocked, ReadJobsLocked, ReadHoldsLocked,
            ReadGridLocked, LockSlotLocked, SlotsLockedLocked, LockExpiringLocked,
            ExpiringLockedLocked, CommitHoldLocked DEF Run

LEMMA AbortRefuses ==
  ASSUME NEW r \in Request, Abort(r)
  PROVE  Open(r) /\ Refuse(r)
BY DEF Abort, WaitsFor, WaitsForDay, WaitsForSlot, WaitsForHold, At, Open

LEMMA LockedStep == Locked /\ [Next]_vars => Locked'
<1> SUFFICES ASSUME Locked, [Next]_vars
             PROVE  Locked'
  OBVIOUS
<1>1. CASE UNCHANGED vars
  <2>1. TypeOK' /\ OnlyExisting' /\ ConsumedOnce'
    BY <1>1 DEF vars, Locked, TypeOK, OnlyExisting, ConsumedOnce, Exists
  <2>2. Frame(Nobody)
    BY <1>1, QuietFrame DEF vars, Locked
  <2>3. Nobody \notin Request
    BY RaceConstants
  <2> QED  BY <2>1, <2>2, <2>3, FrameLocked
<1>2. ASSUME NEW r \in Request, Begin(r)
      PROVE  Locked'
  BY <1>2, BeginLocked
<1>3. ASSUME NEW r \in Request, Run(r)
      PROVE  Locked'
  BY <1>3, RunLocked
<1>4. ASSUME NEW r \in Request, Abort(r)
      PROVE  Locked'
  BY <1>4, AbortRefuses, RefuseLocked
<1>5. ASSUME NEW h \in Holding, Expire(h)
      PROVE  Locked'
  BY <1>5, ExpireLocked
<1> QED  BY <1>1, <1>2, <1>3, <1>4, <1>5 DEF Next

LEMMA LockedInit == Init => Locked
<1> SUFFICES ASSUME Init
             PROVE  Locked
  OBVIOUS
<1>1. Idle \in Transaction /\ Idle.team \in Team /\ Idle.start \in Grid
  BY IdleType DEF Transaction
<1>2. [status |-> "none", team |-> Idle.team, start |-> Idle.start] \in HoldRow
  BY <1>1 DEF HoldRow
<1>3. FreeSlot \in SlotRow
  BY DEF FreeSlot, SlotRow
<1>4. TypeOK
  BY <1>1, <1>2, <1>3 DEF Init, TypeOK
<1>5. \A r \in Request : tx[r].state = "new" /\ tx[r].next = 1
  BY DEF Init, Idle
<1>6. \A h \in Holding : ~Exists(h)
  BY DEF Init, Exists
<1>7. Nobody \notin Request
  BY RaceConstants
<1>8. \A s \in Slot : slotLock[s] = Nobody
  BY DEF Init
<1>9. ASSUME NEW r \in Request
      PROVE  Sound(r)
  BY <1>5, <1>6, <1>7, <1>8 DEF Sound, InOrder, Last, HasDay, HasHold, Open
<1>10. OnlyExisting /\ ConsumedOnce
  BY <1>5, Kinds DEF OnlyExisting, ConsumedOnce, Init
<1> QED  BY <1>4, <1>9, <1>10 DEF Locked

LEMMA LockedAlways == Spec => []Locked
BY LockedInit, LockedStep, PTL DEF Spec

(* The rows, locks and transactions of a day are what they should be.      *)
THEOREM RaceTypes == Spec => []TypeOK
<1>1. Locked => TypeOK
  BY DEF Locked
<1> QED  BY <1>1, LockedAlways, PTL

(* One hold becomes one booking or rewash, whoever asks and whoever waits. *)
THEOREM OneHoldOneBooking == Spec => []ConsumedOnce
<1>1. Locked => ConsumedOnce
  BY DEF Locked
<1> QED  BY <1>1, LockedAlways, PTL

(* Who waits for the day has no slot yet: create_booking takes the day     *)
(* before the slots, as the comment in it says.                            *)
THEOREM DayBeforeSlots == Spec => []NoDaySlotDeadlock
<1>1. Locked => NoDaySlotDeadlock
  <2> SUFFICES ASSUME Locked, NEW r \in Request, NEW q \in Request,
                      WaitsForDay(r, q), WaitsForSlot(q, r)
               PROVE  FALSE
    BY DEF NoDaySlotDeadlock
  <2>1. TypeOK /\ Sound(r) /\ Open(q) /\ Open(r)
    BY DEF Locked, WaitsForSlot, WaitsForDay, At, Open
  <2>2. NextSlot(q) \in Slot
    BY <2>1, WantedSlots, NextSlotWanted DEF WaitsForSlot
  <2>3. slotLock[NextSlot(q)] = r
    BY DEF WaitsForSlot
  <2>4. TakesSlots(r)
    <3> DEFINE s == NextSlot(q)
    <3> HIDE DEF s
    <3>1. s \in Slot /\ slotLock[s] = r
      BY <2>2, <2>3 DEF s
    <3> QED  BY <2>1, <3>1 DEF Sound
  <2> QED  BY <2>1, <2>4, AtHolding, AtConfirming, AtCorrecting, Kinds DEF WaitsForDay, TakesSlots
<1> QED  BY <1>1, LockedAlways, PTL
-----------------------------------------------------------------------------
(* Decisions.                                                              *)

Granted == {h \in Holding : Claims(h)}

Jobs == {h \in Holding : Consumed(h)}

(* A request knows of every claim but its own that is granted now.         *)
Knows(r) == Granted \ {tx[r].hold} \subseteq tx[r].claims

SlotsHeld(h) ==
  \A w \in Windows(hold[h].start) :
    slot[<<hold[h].team, w>>] = [status |-> "held", by |-> h]

(* What a request has read under the lock of the day is still so.          *)
Informed(r) ==
  /\ r \in Holding /\ Open(r) =>
       /\ tx[r].next = 3 => Jobs \subseteq tx[r].claims
       /\ tx[r].next >= 4 => Knows(r)
       /\ tx[r].next >= 5 => /\ Fits(tx[r].start, tx[r].claims, tx[r].team)
                             /\ tx[r].seen = slot
  /\ r \in Confirming /\ Open(r) =>
       /\ tx[r].next >= 4 => SlotsHeld(tx[r].hold)
       /\ tx[r].next = 5 => Jobs \subseteq tx[r].claims
       /\ tx[r].next = 6 => Knows(r)

(* A slot that has a hold is one of the slots of that hold.                *)
Belongs(s, h) == Exists(h) /\ s[1] = hold[h].team /\ s[2] \in Windows(hold[h].start)

Rows ==
  /\ \A s \in Slot : slot[s].by # Nobody => Belongs(s, slot[s].by)
  /\ \A h \in Holding : Exists(h) => Windows(hold[h].start) \subseteq Grid

(* The inductive invariant of the decisions.                               *)
Decided ==
  /\ Rows
  /\ JobsHaveTheirSlots
  /\ \A r \in Request : Informed(r)

(* Rows change only in the hand of the request that has the day.           *)
RowsKept(r) == UNCHANGED <<hold, slot>> \/ HasDay(r)

LEMMA OthersInformed ==
  ASSUME Locked, NEW r, r \in Request => Sound(r), Frame(r), RowsKept(r), HasDay(r) => r \in Request,
         NEW q \in Request \ {r}, Informed(q)
  PROVE  Informed(q)'
<1>1. tx'[q] = tx[q] /\ (Open(q)' <=> Open(q)) /\ expired \subseteq expired'
  BY DEF Frame, Open
<1>2. CASE UNCHANGED <<hold, slot>>
  <2>1. /\ Granted' \subseteq Granted
        /\ Jobs' = Jobs
        /\ \A h : SlotsHeld(h)' <=> SlotsHeld(h)
        /\ \A start, claims, team : Fits(start, claims, team)' <=> Fits(start, claims, team)
    BY <1>1, <1>2 DEF Granted, Claims, Jobs, Consumed, SlotsHeld, Windows, Fits
  <2>2. Knows(q) => Knows(q)'
    BY <1>1, <2>1 DEF Knows
  <2>3. SlotsHeld(tx[q].hold) => SlotsHeld(tx[q].hold)'
    BY <1>1, <1>2 DEF SlotsHeld, Windows
  <2>4. Fits(tx[q].start, tx[q].claims, tx[q].team) => Fits(tx[q].start, tx[q].claims, tx[q].team)'
    BY <1>1, <1>2 DEF Fits
  <2> QED  BY <1>1, <1>2, <2>1, <2>2, <2>3, <2>4 DEF Informed
<1>3. CASE HasDay(r)
  <2>1. ~HasDay(q)
    BY <1>3 DEF Locked, Sound
  <2>2. Open(q) => tx[q].next \in Nat /\ (q \in Holding => tx[q].next < 2)
                                      /\ (q \in Confirming => tx[q].next < 3)
    <3>1. tx[q].next \in 1 .. 7
      BY DEF Locked, TypeOK, Transaction
    <3>2. tx[q].next \in Nat
      BY <3>1
    <3> QED  BY <2>1, <3>2 DEF HasDay
  <2> QED  BY <1>1, <2>2 DEF Informed
<1> QED  BY <1>2, <1>3 DEF RowsKept

(* A step that informs its request and leaves the rows alone.              *)
LEMMA ReadDecided ==
  ASSUME Locked, Decided, NEW r, Frame(r), UNCHANGED <<hold, slot>>,
         r \in Request => Informed(r)', HasDay(r) => r \in Request
  PROVE  Decided'
<1>1. \A q \in Request \ {r} : Informed(q)'
  <2> TAKE q \in Request \ {r}
  <2>1. Informed(q) /\ (r \in Request => Sound(r))
    BY DEF Decided, Locked
  <2>2. RowsKept(r)
    BY DEF RowsKept
  <2> QED  BY <2>1, <2>2, OthersInformed
<1>2. \A q \in Request : Informed(q)'
  BY <1>1
<1>3. Rows'
  BY DEF Decided, Rows, Belongs, Exists, Windows
<1>4. JobsHaveTheirSlots'
  BY DEF Decided, JobsHaveTheirSlots, Windows
<1> QED  BY <1>2, <1>3, <1>4 DEF Decided

LEMMA RefuseDecided ==
  ASSUME Locked, Decided, NEW r \in Request, Open(r), Refuse(r)
  PROVE  Decided'
<1>1. Frame(r) /\ TypeOK /\ Finish(r, "refused")
  BY RefuseLocked DEF Locked, Refuse
<1>2. tx'[r].state = "refused"
  BY <1>1, FinishTakes
<1>3. Informed(r)'
  BY <1>2 DEF Informed, Open
<1> QED  BY <1>1, <1>3, ReadDecided DEF Refuse

LEMMA BeginDecided ==
  ASSUME Locked, Decided, NEW r \in Request, Begin(r)
  PROVE  Decided'
<1>1. Frame(r) /\ UNCHANGED <<hold, slot>>
  BY BeginLocked DEF Begin
<1>2. tx'[r].next = 1
  BY BeginLocked
<1>3. Informed(r)'
  BY <1>2 DEF Informed
<1> QED  BY <1>1, <1>3, ReadDecided

LEMMA LockHoldDecided ==
  ASSUME Locked, Decided, NEW r \in Request, LockHold(r)
  PROVE  Decided'
<1>1. TypeOK /\ Sound(r) /\ Open(r) /\ Frame(r) /\ tx[r] \in Transaction
  BY LockHoldLocked DEF Locked, LockHold, At, Open, TypeOK
<1>2. tx[r].next = 1 /\ r \notin Holding
  BY <1>1, AtHolding, AtConfirming, AtCorrecting, Kinds DEF LockHold
<1>3. CASE Refuse(r)
  BY <1>1, <1>3, RefuseDecided
<1>4. CASE Step(r, tx[r]) /\ UNCHANGED <<hold, expired, slot, day, slotLock>>
  <2>1. tx'[r] = [tx[r] EXCEPT !.next = 2]
    BY <1>1, <1>2, <1>4, StepTakes
  <2>2. tx'[r].next = 2
    BY <1>1, <2>1 DEF Transaction
  <2>3. Informed(r)'
    BY <1>2, <2>2 DEF Informed
  <2> QED  BY <1>1, <1>4, <2>3, ReadDecided
<1> QED  BY <1>3, <1>4 DEF LockHold

LEMMA LockDayDecided ==
  ASSUME Locked, Decided, NEW r \in Request, LockDay(r)
  PROVE  Decided'
<1>1. TypeOK /\ Sound(r) /\ Frame(r) /\ tx[r] \in Transaction
  BY LockDayLocked DEF Locked, TypeOK
<1>2. \/ r \in Holding /\ tx[r].next = 1
      \/ r \in Confirming /\ tx[r].next = 2
  BY <1>1, AtHolding, AtConfirming, AtCorrecting, Kinds DEF LockDay
<1>3. tx'[r] = [tx[r] EXCEPT !.next = tx[r].next + 1]
  BY <1>1, <1>2, StepTakes DEF LockDay
<1>4. tx'[r].next = tx[r].next + 1
  BY <1>1, <1>3 DEF Transaction
<1>5. Informed(r)'
  BY <1>2, <1>4, Kinds DEF Informed
<1> QED  BY <1>1, <1>5, ReadDecided DEF LockDay

LEMMA ReadJobsDecided ==
  ASSUME Locked, Decided, NEW r \in Request, ReadJobs(r)
  PROVE  Decided'
<1>1. /\ TypeOK /\ Sound(r) /\ Open(r) /\ Frame(r) /\ tx[r] \in Transaction
      /\ tx'[r] = [tx[r] EXCEPT !.claims = Jobs, !.next = tx[r].next + 1]
      /\ UNCHANGED <<hold, slot, expired>>
  BY ReadJobsLocked DEF Locked, TypeOK, Jobs, ReadJobs, At, Open
<1>2. \/ r \in Holding /\ tx[r].next = 2
      \/ r \in Confirming /\ tx[r].next = 4
  BY <1>1, AtHolding, AtConfirming, AtCorrecting, Kinds DEF ReadJobs
<1>3. tx'[r].claims = Jobs /\ tx'[r].next = tx[r].next + 1 /\ tx'[r].hold = tx[r].hold
  BY <1>1 DEF Transaction
<1>4. Jobs' = Jobs
  BY <1>1 DEF Jobs, Consumed
<1>5. r \in Confirming => SlotsHeld(tx[r].hold)
  BY <1>1, <1>2, Kinds DEF Decided, Informed
<1>6. r \in Confirming => SlotsHeld(tx[r].hold)'
  BY <1>1, <1>3, <1>5 DEF SlotsHeld, Windows
<1>7. Informed(r)'
  BY <1>2, <1>3, <1>4, <1>6, Kinds DEF Informed
<1> QED  BY <1>1, <1>7, ReadDecided

LEMMA ReadHoldsDecided ==
  ASSUME Locked, Decided, NEW r \in Request, ReadHolds(r)
  PROVE  Decided'
<1> DEFINE read == (tx[r].claims \cup {h \in Holding \ expired : Active(h)}) \ {tx[r].hold}
<1>1. /\ TypeOK /\ Sound(r) /\ Open(r) /\ Frame(r) /\ tx[r] \in Transaction
      /\ tx'[r] = [tx[r] EXCEPT !.claims = read, !.next = tx[r].next + 1]
      /\ UNCHANGED <<hold, slot, expired>>
  BY ReadHoldsLocked DEF Locked, TypeOK, ReadHolds, At, Open
<1>2. \/ r \in Holding /\ tx[r].next = 3
      \/ r \in Confirming /\ tx[r].next = 5
  BY <1>1, AtHolding, AtConfirming, AtCorrecting, Kinds DEF ReadHolds
<1>3. Jobs \subseteq tx[r].claims
  BY <1>1, <1>2, Kinds DEF Decided, Informed
<1>4. Granted \ {tx[r].hold} \subseteq read
  BY <1>3 DEF Granted, Claims, Jobs, Consumed, Active
<1> HIDE DEF read
<1>5. tx'[r].claims = read /\ tx'[r].next = tx[r].next + 1 /\ tx'[r].hold = tx[r].hold
  BY <1>1 DEF Transaction
<1>6. Granted' = Granted
  BY <1>1 DEF Granted, Claims
<1>7. Knows(r)'
  BY <1>4, <1>5, <1>6 DEF Knows
<1>8. r \in Confirming => SlotsHeld(tx[r].hold)
  BY <1>1, <1>2, Kinds DEF Decided, Informed
<1>9. r \in Confirming => SlotsHeld(tx[r].hold)'
  BY <1>1, <1>5, <1>8 DEF SlotsHeld, Windows
<1>10. Informed(r)'
  BY <1>2, <1>5, <1>7, <1>9, Kinds DEF Informed
<1> QED  BY <1>1, <1>10, ReadDecided

LEMMA ReadGridDecided ==
  ASSUME Locked, Decided, NEW r \in Request, ReadGrid(r)
  PROVE  Decided'
<1>1. TypeOK /\ Sound(r) /\ Open(r) /\ Frame(r) /\ tx[r] \in Transaction
  BY ReadGridLocked DEF Locked, TypeOK, ReadGrid, At, Open
<1>2. r \in Holding /\ tx[r].next = 4
  BY <1>1, AtHolding, AtConfirming, AtCorrecting, Kinds DEF ReadGrid
<1>3. CASE Refuse(r)
  BY <1>1, <1>3, RefuseDecided
<1>4. ASSUME NEW t \in Team, Chosen(r, t),
             tx'[r] = [tx[r] EXCEPT !.team = t, !.seen = slot, !.next = 5],
             UNCHANGED <<hold, expired, slot, day, holdLock, slotLock>>
      PROVE  Decided'
  <2>1. /\ tx'[r].team = t /\ tx'[r].seen = slot /\ tx'[r].next = 5
        /\ tx'[r].claims = tx[r].claims /\ tx'[r].start = tx[r].start /\ tx'[r].hold = tx[r].hold
    BY <1>1, <1>4 DEF Transaction
  <2>2. Knows(r)
    BY <1>1, <1>2 DEF Decided, Informed
  <2>3. Granted' = Granted
    BY <1>4 DEF Granted, Claims
  <2>4. Knows(r)'
    BY <2>1, <2>2, <2>3 DEF Knows
  <2>5. Fits(tx[r].start, tx[r].claims, tx[r].team)'
    BY <1>4, <2>1 DEF Chosen, Fits
  <2>6. Informed(r)'
    BY <1>2, <1>4, <2>1, <2>4, <2>5, Kinds DEF Informed
  <2> QED  BY <1>1, <1>4, <2>6, ReadDecided
<1> QED  BY <1>3, <1>4, ReadGridLocked

(* A step that takes a row lock and does not go on.                        *)
LEMMA AcquireDecided ==
  ASSUME Locked, Decided, NEW r \in Request, Frame(r), UNCHANGED <<hold, expired, slot, tx>>
  PROVE  Decided'
<1>1. Informed(r)
  BY DEF Decided
<1>2. /\ Granted' = Granted /\ Jobs' = Jobs
      /\ SlotsHeld(tx[r].hold)' <=> SlotsHeld(tx[r].hold)
      /\ Fits(tx[r].start, tx[r].claims, tx[r].team)' <=> Fits(tx[r].start, tx[r].claims, tx[r].team)
  BY DEF Granted, Claims, Jobs, Consumed, SlotsHeld, Windows, Fits
<1>3. Informed(r)'
  BY <1>1, <1>2 DEF Informed, Knows, Open
<1> QED  BY <1>3, ReadDecided
(* Required slots with a hold are all the slots of its time.               *)
LEMMA AllSlotsHeld ==
  ASSUME Locked, Rows, NEW r \in Request, r \notin Holding, tx[r].hold \in Holding, AllHeld(r)
  PROVE  SlotsHeld(tx[r].hold)
<1> DEFINE h == tx[r].hold
           f == [k \in 0 .. Required - 1 |-> <<hold[h].team, hold[h].start + k * SlotLength>>]
           windows == {<<hold[h].team, w>> : w \in Windows(hold[h].start)}
<1>1. Required \in Nat \ {0} /\ SlotLength \in Nat
  BY RaceConstants
<1>2. f \in Surjection(0 .. Required - 1, windows)
  <2>1. f \in [0 .. Required - 1 -> windows]
    BY DEF Windows
  <2>2. \A s \in windows : \E k \in 0 .. Required - 1 : f[k] = s
    BY DEF Windows
  <2> QED  BY <2>1, <2>2 DEF Surjection
<1>3. IsFiniteSet(0 .. Required - 1) /\ Cardinality(0 .. Required - 1) = Required
  <2>1. /\ IsFiniteSet(0 .. Required - 1)
        /\ Cardinality(0 .. Required - 1) = IF 0 > Required - 1 THEN 0 ELSE (Required - 1) - 0 + 1
    BY <1>1, FS_Interval
  <2> QED  BY <1>1, <2>1
<1> HIDE DEF f, h, windows
<1>4. IsFiniteSet(windows) /\ Cardinality(windows) <= Required
  BY <1>2, <1>3, FS_Surjection
<1>5. Wanted(r) = {s \in Slot : slot[s].by = h}
  BY DEF Wanted, h
<1>6. Wanted(r) \subseteq windows
  <2> SUFFICES ASSUME NEW s \in Slot, slot[s].by = h
               PROVE  s \in windows
    BY <1>5
  <2>1. h # Nobody
    BY Kinds DEF h
  <2>2. s[1] = hold[h].team /\ s[2] \in Windows(hold[h].start) /\ s = <<s[1], s[2]>>
    BY <2>1 DEF Rows, Belongs, Slot
  <2> QED  BY <2>2 DEF windows
<1>7. Wanted(r) = windows
  <2>1. Cardinality(Wanted(r)) = Required
    BY DEF AllHeld
  <2>2. Cardinality(windows) \in Nat
    BY <1>4, FS_CardinalityType
  <2>3. Cardinality(Wanted(r)) <= Cardinality(windows)
    BY <1>4, <1>6, FS_Subset
  <2>4. Cardinality(Wanted(r)) = Cardinality(windows)
    BY <1>1, <1>4, <2>1, <2>2, <2>3
  <2> QED  BY <1>4, <1>6, <2>4, FS_Subset
<1>8. ASSUME NEW w \in Windows(hold[h].start)
      PROVE  slot[<<hold[h].team, w>>] = [status |-> "held", by |-> h]
  <2> DEFINE s == <<hold[h].team, w>>
  <2>1. s \in Wanted(r)
    BY <1>7 DEF windows
  <2> HIDE DEF s
  <2>2. s \in Slot /\ slot[s].by = h /\ slot[s].status = "held"
    BY <1>5, <2>1 DEF AllHeld
  <2>3. slot[s] \in SlotRow
    BY <2>2 DEF Locked, TypeOK
  <2>4. slot[s] = [status |-> "held", by |-> h]
    BY <2>2, <2>3 DEF SlotRow
  <2> QED  BY <2>4 DEF s
<1> QED  BY <1>8 DEF SlotsHeld, h

LEMMA SlotsLockedDecided ==
  ASSUME Locked, Decided, NEW r \in Request, SlotsLocked(r)
  PROVE  Decided'
<1>1. TypeOK /\ Sound(r) /\ Open(r) /\ Frame(r) /\ tx[r] \in Transaction /\ Named(r)
  BY SlotsLockedLocked DEF Locked, TypeOK, SlotsLocked, At, Open, Sound
<1>2. \/ r \in Holding /\ tx[r].next = 5
      \/ r \in Confirming /\ tx[r].next = 3
      \/ r \in Correcting
  BY <1>1, AtHolding, AtConfirming, Kinds DEF SlotsLocked
<1>3. CASE Refuse(r)
  BY <1>1, <1>3, RefuseDecided
<1>4. ASSUME NEW stale \in SUBSET Holding,
             tx'[r] = [tx[r] EXCEPT !.stale = stale, !.next = tx[r].next + 1],
             r \notin Holding => AllHeld(r),
             UNCHANGED <<hold, expired, slot, day, holdLock, slotLock>>
      PROVE  Decided'
  <2>1. /\ tx'[r].next = tx[r].next + 1 /\ tx'[r].hold = tx[r].hold /\ tx'[r].seen = tx[r].seen
        /\ tx'[r].team = tx[r].team /\ tx'[r].start = tx[r].start /\ tx'[r].claims = tx[r].claims
    BY <1>1, <1>4 DEF Transaction
  <2>2. r \in Holding => /\ Knows(r)
                         /\ Fits(tx[r].start, tx[r].claims, tx[r].team)
                         /\ tx[r].seen = slot
    BY <1>1, <1>2, Kinds DEF Decided, Informed
  <2>3. Granted' = Granted
    BY <1>4 DEF Granted, Claims
  <2>4. r \in Holding => /\ Knows(r)'
                         /\ Fits(tx[r].start, tx[r].claims, tx[r].team)'
                         /\ tx'[r].seen = slot'
    BY <1>4, <2>1, <2>2, <2>3 DEF Knows, Fits
  <2>5. r \notin Holding => SlotsHeld(tx[r].hold)
    BY <1>1, <1>4, AllSlotsHeld DEF Named, Decided
  <2>6. r \notin Holding => SlotsHeld(tx[r].hold)'
    BY <1>4, <2>1, <2>5 DEF SlotsHeld, Windows
  <2>7. Informed(r)'
    BY <1>2, <2>1, <2>4, <2>6, Kinds DEF Informed
  <2> QED  BY <1>1, <1>4, <2>7, ReadDecided
<1> QED  BY <1>3, <1>4, SlotsLockedLocked

LEMMA ExpiringLockedDecided ==
  ASSUME Locked, Decided, NEW r \in Request, ExpiringLocked(r)
  PROVE  Decided'
<1>1. /\ TypeOK /\ Open(r) /\ Frame(r) /\ tx[r] \in Transaction
      /\ r \in Holding /\ tx[r].next = 6 /\ tx'[r] = [tx[r] EXCEPT !.next = 7]
      /\ UNCHANGED <<hold, expired, slot>>
  BY ExpiringLockedLocked DEF Locked, TypeOK, ExpiringLocked, At, Open
<1>2. /\ tx'[r].next = 7 /\ tx'[r].hold = tx[r].hold /\ tx'[r].seen = tx[r].seen
      /\ tx'[r].team = tx[r].team /\ tx'[r].start = tx[r].start /\ tx'[r].claims = tx[r].claims
  BY <1>1 DEF Transaction
<1>3. Knows(r) /\ Fits(tx[r].start, tx[r].claims, tx[r].team) /\ tx[r].seen = slot
  BY <1>1 DEF Decided, Informed
<1>4. Granted' = Granted
  BY <1>1 DEF Granted, Claims
<1>5. Knows(r)' /\ Fits(tx[r].start, tx[r].claims, tx[r].team)' /\ tx'[r].seen = slot'
  BY <1>1, <1>2, <1>3, <1>4 DEF Knows, Fits
<1>6. Informed(r)'
  BY <1>1, <1>2, <1>5, Kinds DEF Informed
<1> QED  BY <1>1, <1>6, ReadDecided

LEMMA ExpireDecided ==
  ASSUME Locked, Decided, NEW h \in Holding, Expire(h)
  PROVE  Decided'
<1>1. Frame(Nobody) /\ UNCHANGED <<hold, slot>>
  BY ExpireLocked DEF Expire
<1>2. Nobody \notin Request /\ ~HasDay(Nobody)
  <2>1. Nobody \notin Holding /\ Nobody \notin Confirming
    BY RaceConstants DEF Request
  <2> QED  BY <2>1, RaceConstants DEF HasDay
<1> QED  BY <1>1, <1>2, ReadDecided

(* The hold that is committed takes the slots that its request has seen.   *)
LEMMA CommitHoldDecided ==
  ASSUME Locked, Decided, NEW r \in Request, CommitHold(r)
  PROVE  Decided'
<1>1. /\ TypeOK /\ Sound(r) /\ Open(r) /\ r \in Holding /\ tx[r] \in Transaction /\ Frame(r)
      /\ Finish(r, "committed")
  BY CommitHoldLocked DEF Locked, TypeOK, CommitHold, At, Open
<1>2. tx[r].next = 7 /\ tx[r].state = "open" /\ ~Exists(r)
  BY <1>1, AtHolding DEF CommitHold, Sound, Open
<1>3. /\ Knows(r) /\ Fits(tx[r].start, tx[r].claims, tx[r].team) /\ tx[r].seen = slot
      /\ SeenFree(r) /\ Windows(tx[r].start) \subseteq Grid
  BY <1>1, <1>2 DEF Decided, Informed, Sound, StaleSound
<1>4. /\ hold'[r] = [status |-> "active", team |-> tx[r].team, start |-> tx[r].start]
      /\ \A h \in Holding \ {r} : Consumed(h)' => Consumed(h)
  BY <1>1 DEF CommitHold, TypeOK, HoldRow, Consumed
<1>5. \A s \in Slot : slot'[s] = IF s \in Wanted(r) THEN [status |-> "held", by |-> r] ELSE slot[s]
  BY DEF CommitHold
<1>6. Wanted(r) = {tx[r].team} \X Windows(tx[r].start) /\ Wanted(r) \subseteq Slot
  BY <1>1, WantedSlots DEF Wanted
<1>7. \A h \in Holding : Exists(h) => /\ h # r /\ Exists(h)'
                                      /\ hold'[h].team = hold[h].team
                                      /\ hold'[h].start = hold[h].start
  BY <1>1, <1>2 DEF Frame
<1>8. Exists(r)' /\ hold'[r].team = tx[r].team /\ hold'[r].start = tx[r].start /\ ~Consumed(r)'
  BY <1>4 DEF Exists, Consumed
<1>9. Rows'
  <2>1. ASSUME NEW s \in Slot, slot'[s].by # Nobody
        PROVE  Belongs(s, slot[s].by)'
    <3>1. CASE s \in Wanted(r)
      <4>1. slot'[s].by = r /\ s[1] = tx[r].team /\ s[2] \in Windows(tx[r].start)
        BY <1>5, <1>6, <3>1
      <4> QED  BY <1>8, <4>1 DEF Belongs, Exists, Windows
    <3>2. CASE s \notin Wanted(r)
      <4>1. slot'[s].by = slot[s].by /\ slot[s].by # Nobody /\ slot[s] \in SlotRow
        BY <1>1, <1>5, <2>1, <3>2 DEF TypeOK
      <4>2. PICK h \in Holding : slot[s].by = h /\ slot'[s].by = h
        BY <4>1 DEF SlotRow
      <4>3. Exists(h) /\ s[1] = hold[h].team /\ s[2] \in Windows(hold[h].start)
        BY <4>1, <4>2 DEF Decided, Rows, Belongs
      <4>4. Exists(h)' /\ hold'[h].team = hold[h].team /\ hold'[h].start = hold[h].start
        BY <1>7, <4>3
      <4> QED  BY <4>2, <4>3, <4>4 DEF Belongs, Exists, Windows
    <3> QED  BY <3>1, <3>2
  <2>2. ASSUME NEW h \in Holding, Exists(h)'
        PROVE  Windows(hold'[h].start) \subseteq Grid
    <3>1. CASE h = r
      BY <1>3, <1>8, <3>1
    <3>2. CASE h # r
      <4>1. Exists(h)
        BY <1>1, <2>2, <3>2 DEF Frame
      <4> QED  BY <1>7, <4>1 DEF Decided, Rows
    <3> QED  BY <3>1, <3>2
  <2> QED  BY <2>1, <2>2 DEF Rows, Windows
<1>10. JobsHaveTheirSlots'
  <2> SUFFICES ASSUME NEW h \in Holding, Consumed(h)', NEW w \in Windows(hold'[h].start)
               PROVE  slot'[<<hold'[h].team, w>>] = [status |-> "reserved", by |-> h]
    BY DEF JobsHaveTheirSlots, Consumed, Windows
  <2>1. h # r /\ Consumed(h) /\ Exists(h)
    BY <1>4, <1>8 DEF Consumed, Exists
  <2>2. hold'[h].team = hold[h].team /\ hold'[h].start = hold[h].start
    BY <1>7, <2>1
  <2> DEFINE s == <<hold[h].team, w>>
  <2>3. w \in Windows(hold[h].start) /\ slot[s] = [status |-> "reserved", by |-> h]
    BY <2>1, <2>2 DEF Decided, JobsHaveTheirSlots, Consumed
  <2>4. s \in Slot
    <3>1. hold[h].team \in Team /\ w \in Grid
      BY <1>1, <2>1, <2>3 DEF Decided, Rows, TypeOK, HoldRow
    <3> QED  BY <3>1 DEF Slot
  <2>5. s \notin Wanted(r)
    <3> SUFFICES ASSUME s \in Wanted(r)
                 PROVE  FALSE
      OBVIOUS
    <3>1. s = <<tx[r].team, w>> /\ w \in Windows(tx[r].start)
      BY <1>6
    <3>2. slot[<<tx[r].team, w>>].status # "reserved"
      BY <1>3, <3>1 DEF SeenFree
    <3> QED  BY <2>3, <3>1, <3>2
  <2> HIDE DEF s
  <2>6. slot'[s] = [status |-> "reserved", by |-> h]
    BY <1>5, <2>3, <2>4, <2>5
  <2> QED  BY <2>2, <2>6 DEF s
<1>11. \A q \in Request : Informed(q)'
  <2> TAKE q \in Request
  <2>1. CASE q = r
    <3>1. tx'[r].state = "committed"
      BY <1>1, FinishTakes
    <3> QED  BY <2>1, <3>1 DEF Informed, Open
  <2>2. CASE q # r
    <3>1. Informed(q) /\ RowsKept(r)
      BY <1>1, <1>2 DEF Decided, RowsKept, HasDay
    <3> QED  BY <1>1, <2>2, <3>1, OthersInformed
  <2> QED  BY <2>1, <2>2
<1> QED  BY <1>9, <1>10, <1>11 DEF Decided

(* A booking turns the slots of its hold into its own.                     *)
LEMMA BookingDecided ==
  ASSUME Locked, Decided, NEW r \in Confirming, At(r, "commit"),
         Consume(tx[r].hold), Finish(r, "committed"), UNCHANGED expired
  PROVE  Decided'
<1> DEFINE h == tx[r].hold
<1>1. r \in Request /\ r \notin Holding
  BY Kinds
<1>2. /\ TypeOK /\ Sound(r) /\ Open(r) /\ Frame(r)
      /\ h \in Holding /\ Active(h)
      /\ hold' = [hold EXCEPT ![h].status = "consumed"]
  BY <1>1, ConsumeLocked DEF Locked, At, Open
<1>3. tx[r].next = 6 /\ HasDay(r)
  BY <1>2, AtConfirming DEF HasDay
<1>4. SlotsHeld(h)
  BY <1>1, <1>2, <1>3 DEF Decided, Informed
<1>5. \A s \in Slot :
        slot'[s] = IF slot[s].by = h THEN [slot[s] EXCEPT !.status = "reserved"] ELSE slot[s]
  BY DEF Consume
<1> HIDE DEF h
<1>6. /\ \A g \in Holding : hold'[g].team = hold[g].team /\ hold'[g].start = hold[g].start
      /\ \A g \in Holding \ {h} : hold'[g] = hold[g]
      /\ \A g \in Holding : Exists(g)' <=> Exists(g)
  BY <1>2 DEF TypeOK, HoldRow, Exists, Active
<1>7. \A s \in Slot : slot[s] \in SlotRow /\ slot'[s].by = slot[s].by
  BY <1>2, <1>5 DEF TypeOK, SlotRow
<1>8. Rows'
  <2>1. ASSUME NEW s \in Slot, slot'[s].by # Nobody
        PROVE  Belongs(s, slot[s].by)'
    <3>1. PICK g \in Holding : slot[s].by = g /\ slot'[s].by = g
      BY <1>7, <2>1 DEF SlotRow
    <3>2. Exists(g) /\ s[1] = hold[g].team /\ s[2] \in Windows(hold[g].start)
      BY <1>7, <2>1, <3>1 DEF Decided, Rows, Belongs
    <3>3. Exists(g)' /\ hold'[g].team = hold[g].team /\ hold'[g].start = hold[g].start
      BY <1>6, <3>1, <3>2
    <3> QED  BY <3>1, <3>2, <3>3 DEF Belongs, Exists, Windows
  <2>2. \A g \in Holding : Exists(g)' => Windows(hold'[g].start) \subseteq Grid
    BY <1>6 DEF Decided, Rows
  <2> QED  BY <2>1, <2>2 DEF Rows, Windows
<1>9. JobsHaveTheirSlots'
  <2> SUFFICES ASSUME NEW g \in Holding, Consumed(g)', NEW w \in Windows(hold[g].start)
               PROVE  slot'[<<hold[g].team, w>>] = [status |-> "reserved", by |-> g]
    BY <1>6 DEF JobsHaveTheirSlots, Consumed, Windows
  <2> DEFINE s == <<hold[g].team, w>>
  <2>1. Exists(g)
    BY <1>6 DEF Consumed, Exists
  <2>2. s \in Slot
    <3>1. hold[g].team \in Team /\ w \in Grid
      BY <1>2, <2>1 DEF Decided, Rows, TypeOK, HoldRow
    <3> QED  BY <3>1 DEF Slot
  <2>3. CASE g = h
    <3>1. slot[s] = [status |-> "held", by |-> g]
      BY <1>4, <2>3 DEF SlotsHeld
    <3> HIDE DEF s
    <3>2. slot'[s] = [status |-> "reserved", by |-> g]
      BY <1>5, <2>2, <2>3, <3>1
    <3> QED  BY <3>2 DEF s
  <2>4. CASE g # h
    <3>1. Consumed(g)
      BY <1>6, <2>4 DEF Consumed
    <3>2. slot[s] = [status |-> "reserved", by |-> g]
      BY <3>1 DEF Decided, JobsHaveTheirSlots, Consumed
    <3> HIDE DEF s
    <3>3. slot'[s] = slot[s]
      BY <1>5, <2>2, <2>4, <3>2
    <3> QED  BY <3>2, <3>3 DEF s
  <2> QED  BY <2>3, <2>4
<1>10. \A q \in Request : Informed(q)'
  <2> TAKE q \in Request
  <2>1. CASE q = r
    <3>1. tx'[r].state = "committed"
      BY <1>1, <1>2, FinishTakes
    <3> QED  BY <2>1, <3>1 DEF Informed, Open
  <2>2. CASE q # r
    <3>1. Informed(q) /\ RowsKept(r)
      BY <1>3 DEF Decided, RowsKept
    <3> QED  BY <1>1, <1>2, <2>2, <3>1, OthersInformed
  <2> QED  BY <2>1, <2>2
<1> QED  BY <1>8, <1>9, <1>10 DEF Decided

LEMMA RunDecided ==
  ASSUME Correcting = {}, Locked, Decided, NEW r \in Request, Run(r)
  PROVE  Decided'
<1>1. CASE LockSlot(r)
  BY <1>1, LockSlotLocked, AcquireDecided DEF LockSlot
<1>2. CASE LockExpiring(r)
  BY <1>2, LockExpiringLocked, AcquireDecided DEF LockExpiring
<1>3. CASE CommitBooking(r)
  <2>1. r \in Confirming /\ At(r, "commit") /\ Open(r)
    BY <1>3 DEF CommitBooking, At, Open
  <2>2. \/ Refuse(r)
        \/ Consume(tx[r].hold) /\ Finish(r, "committed") /\ UNCHANGED expired
    BY <1>3 DEF CommitBooking
  <2> QED  BY <2>1, <2>2, RefuseDecided, BookingDecided
<1>4. ~CommitCorrection(r)
  BY DEF CommitCorrection
<1> QED  BY <1>1, <1>2, <1>3, <1>4, LockHoldDecided, LockDayDecided, ReadJobsDecided,
            ReadHoldsDecided, ReadGridDecided, SlotsLockedDecided, ExpiringLockedDecided,
            CommitHoldDecided DEF Run

LEMMA DecidedStep ==
  ASSUME Correcting = {}
  PROVE  Locked /\ Decided /\ [Next]_vars => Decided'
<1> SUFFICES ASSUME Locked, Decided, [Next]_vars
             PROVE  Decided'
  OBVIOUS
<1>1. CASE UNCHANGED vars
  BY <1>1 DEF vars, Decided, Rows, Belongs, Exists, Windows, JobsHaveTheirSlots, Informed, Open, Jobs,
              Consumed, Knows, Granted, Claims, Fits, SlotsHeld
<1>2. CASE Next
  BY <1>2, BeginDecided, RunDecided, AbortRefuses, RefuseDecided, ExpireDecided DEF Next
<1> QED  BY <1>1, <1>2

LEMMA DecidedInit == Init => Decided
BY DEF Init, Decided, Rows, Exists, FreeSlot, JobsHaveTheirSlots, Informed, Open, Idle

LEMMA DecidedAlways ==
  ASSUME Correcting = {}
  PROVE  Spec => [](Locked /\ Decided)
<1>1. Init => Locked /\ Decided
  BY LockedInit, DecidedInit
<1>2. Locked /\ Decided /\ [Next]_vars => (Locked /\ Decided)'
  BY LockedStep, DecidedStep
<1> QED  BY <1>1, <1>2, PTL DEF Spec

(* Without rewashes a job keeps all the slots of its time, although its    *)
(* hold may have run out, and been found stale, while it was confirmed.    *)
THEOREM JobsKeepTheirSlots ==
  ASSUME Correcting = {}
  PROVE  Spec => []JobsHaveTheirSlots
<1>1. Locked /\ Decided => JobsHaveTheirSlots
  BY DEF Decided
<1> QED  BY <1>1, DecidedAlways, PTL
-----------------------------------------------------------------------------
(* The decisions of a day implement the calendar.                          *)

LEMMA SamePromise ==
  ASSUME UNCHANGED <<hold, expired>>
  PROVE  UNCHANGED Promise
BY DEF Promise, Claims

(* What the calendar grants are the claims that the code grants.           *)
LEMMA PromiseGrants ==
  ASSUME TypeOK, NEW h \in Holding
  PROVE  /\ Calendar!Granted(h) <=> h \in Granted
         /\ Promise[h].status = "none" <=> ~Exists(h)
         /\ Promise[h].team = hold[h].team
         /\ Promise[h].start = hold[h].start
BY DEF TypeOK, HoldRow, Promise, Calendar!Granted, Granted, Claims, Exists

(* A request that knows of every other claim and fits among them may have  *)
(* its time.                                                               *)
LEMMA FitsIsFree ==
  ASSUME TypeOK, NEW r \in Request, tx[r].hold \in Holding, tx[r].start \in Grid, Knows(r),
         NEW team, Fits(tx[r].start, tx[r].claims, team)
  PROVE  Calendar!Free(tx[r].hold, team, tx[r].start)
<1> SUFFICES ASSUME NEW d \in Holding \ {tx[r].hold}, Calendar!Granted(d), Promise[d].team = team
             PROVE  ~Calendar!Overlap(Promise[d].start, tx[r].start)
  BY DEF Calendar!Free
<1>1. d \in tx[r].claims /\ hold[d].team = team /\ Promise[d].start = hold[d].start
  BY PromiseGrants DEF Knows
<1>2. \/ tx[r].start + Length + Turnaround <= hold[d].start
      \/ hold[d].start + Length + Turnaround <= tx[r].start
  BY <1>1 DEF Fits
<1>3. tx[r].start \in Nat /\ hold[d].start \in Nat /\ Length \in Nat /\ Turnaround \in Nat
  BY RaceConstants DEF TypeOK, HoldRow
<1> QED  BY <1>1, <1>2, <1>3 DEF Calendar!Overlap

LEMMA CommitHoldGrants ==
  ASSUME Locked, Decided, NEW r \in Request, CommitHold(r)
  PROVE  Calendar!Next
<1>1. /\ TypeOK /\ Sound(r) /\ Open(r) /\ r \in Holding /\ tx[r] \in Transaction /\ OnlyExisting
      /\ UNCHANGED expired
  BY DEF Locked, TypeOK, CommitHold, At, Open
<1>2. tx[r].next = 7 /\ ~Exists(r) /\ tx[r].hold = r /\ r \notin expired
  BY <1>1, AtHolding DEF CommitHold, Sound, Open, Named, OnlyExisting
<1>3. Knows(r) /\ Fits(tx[r].start, tx[r].claims, tx[r].team) /\ tx[r].stale \subseteq expired
  BY <1>1, <1>2 DEF Decided, Informed, Sound, StaleSound
<1>4. tx[r].team \in Team /\ tx[r].start \in Grid
  BY <1>1 DEF Transaction
<1>5. Calendar!Free(r, tx[r].team, tx[r].start)
  BY <1>1, <1>2, <1>3, <1>4, FitsIsFree
<1>6. Promise[r].status = "none"
  BY <1>1, <1>2, PromiseGrants
<1> DEFINE row == [status |-> "live", team |-> tx[r].team, start |-> tx[r].start]
<1>7. Promise' = [Promise EXCEPT ![r] = row]
  <2>1. hold'[r] = [status |-> "active", team |-> tx[r].team, start |-> tx[r].start]
    BY <1>1 DEF CommitHold
  <2>2. Promise'[r] = row
    BY <1>1, <1>2, <2>1 DEF Promise, Claims
  <2>3. ASSUME NEW h \in Holding \ {r}
        PROVE  Promise'[h] = Promise[h]
    <3>1. hold[h] \in HoldRow
      BY <1>1 DEF TypeOK
    <3>2. CASE h \in tx[r].stale /\ Active(h)
      <4>1. hold'[h] = [hold[h] EXCEPT !.status = "expired"]
        BY <3>2 DEF CommitHold, Active
      <4>2. /\ hold'[h].status = "expired" /\ hold[h].status = "active"
            /\ hold'[h].team = hold[h].team /\ hold'[h].start = hold[h].start
        BY <3>1, <3>2, <4>1 DEF HoldRow, Active
      <4>3. h \in expired
        BY <1>3, <3>2
      <4> QED  BY <1>1, <4>2, <4>3 DEF Promise, Claims
    <3>3. CASE ~(h \in tx[r].stale /\ Active(h))
      <4>1. hold'[h] = hold[h]
        BY <3>3 DEF CommitHold, Active
      <4> QED  BY <1>1, <4>1 DEF Promise, Claims
    <3> QED  BY <3>2, <3>3
  <2>4. Promise = [h \in Holding |-> Promise[h]] /\ Promise' = [h \in Holding |-> Promise'[h]]
    BY DEF Promise
  <2> HIDE DEF row
  <2> QED  BY <2>2, <2>3, <2>4
<1>8. Calendar!Grant(r, tx[r].team, tx[r].start)
  BY <1>5, <1>6, <1>7 DEF Calendar!Grant
<1> QED  BY <1>1, <1>4, <1>8 DEF Calendar!Next

LEMMA BookingBooks ==
  ASSUME Locked, Decided, NEW r \in Confirming, At(r, "commit"), Consume(tx[r].hold),
         Fits(tx[r].start, tx[r].claims, tx[r].team), Finish(r, "committed"), UNCHANGED expired
  PROVE  Calendar!Next
<1> DEFINE h == tx[r].hold
<1>1. r \in Request /\ r \notin Holding
  BY Kinds
<1>2. /\ TypeOK /\ Sound(r) /\ Open(r) /\ h \in Holding /\ Active(h) /\ tx[r] \in Transaction
      /\ hold' = [hold EXCEPT ![h].status = "consumed"]
  BY <1>1, ConsumeLocked DEF Locked, TypeOK, At, Open
<1>3. tx[r].next = 6 /\ tx[r].state = "open"
  BY <1>2, AtConfirming DEF Open
<1>4. /\ Knows(r) /\ tx[r].team = hold[h].team /\ tx[r].start = hold[h].start
      /\ tx[r].start \in Grid
  BY <1>1, <1>2, <1>3 DEF Decided, Informed, Sound, Named, Transaction
<1>5. Calendar!Free(h, tx[r].team, tx[r].start)
  BY <1>1, <1>2, <1>4, FitsIsFree
<1> HIDE DEF h
<1>6. PICK c \in Holding : c = h
  BY <1>2
<1>7. /\ Promise[c].status \in {"live", "lapsed"}
      /\ Promise[c].team = hold[c].team /\ Promise[c].start = hold[c].start
  BY <1>2, <1>6 DEF Promise, Active
<1>8. Promise' = [Promise EXCEPT ![c].status = "booked"]
  <2>1. /\ hold'[c].status = "consumed" /\ hold'[c].team = hold[c].team
        /\ hold'[c].start = hold[c].start
        /\ \A g \in Holding \ {c} : hold'[g] = hold[g]
    BY <1>2, <1>6 DEF TypeOK, HoldRow
  <2>2. Promise'[c] = [status |-> "booked", team |-> hold[c].team, start |-> hold[c].start]
    BY <2>1 DEF Promise
  <2>3. Promise'[c] = [Promise[c] EXCEPT !.status = "booked"]
    BY <2>2 DEF Promise
  <2>4. \A g \in Holding \ {c} : Promise'[g] = Promise[g]
    BY <2>1 DEF Promise, Claims
  <2>5. Promise = [g \in Holding |-> Promise[g]] /\ Promise' = [g \in Holding |-> Promise'[g]]
    BY DEF Promise
  <2> QED  BY <2>3, <2>4, <2>5
<1>9. Calendar!Book(c)
  BY <1>4, <1>5, <1>6, <1>7, <1>8 DEF Calendar!Book
<1> QED  BY <1>9 DEF Calendar!Next

LEMMA ExpireLapses ==
  ASSUME TypeOK, NEW h \in Holding, Expire(h)
  PROVE  [Calendar!Next]_Promise
<1>1. expired' = expired \cup {h} /\ h \notin expired /\ UNCHANGED hold /\ Exists(h)
  BY DEF Expire, Exists
<1>2. \A g \in Holding \ {h} : Promise'[g] = Promise[g]
  BY <1>1 DEF Promise, Claims
<1>3. Promise = [g \in Holding |-> Promise[g]] /\ Promise' = [g \in Holding |-> Promise'[g]]
  BY DEF Promise
<1>4. CASE Active(h)
  <2>1. Promise[h].status = "live"
    BY <1>1, <1>4 DEF Promise, Claims, Active
  <2>2. Promise'[h] = [Promise[h] EXCEPT !.status = "lapsed"]
    BY <1>1, <1>4 DEF Promise, Claims, Active
  <2>3. Promise' = [Promise EXCEPT ![h].status = "lapsed"]
    BY <1>2, <1>3, <2>2
  <2> QED  BY <2>1, <2>3 DEF Calendar!Next, Calendar!Lapse
<1>5. CASE ~Active(h)
  <2>1. Promise'[h] = Promise[h]
    BY <1>1, <1>5 DEF Promise, Claims, Active
  <2> QED  BY <1>2, <1>3, <2>1
<1> QED  BY <1>4, <1>5

LEMMA RunImplements ==
  ASSUME Correcting = {}, Locked, Decided, NEW r \in Request, Run(r)
  PROVE  [Calendar!Next]_Promise
<1>1. CASE LockHold(r) \/ SlotsLocked(r) \/ ReadGrid(r)
  BY <1>1, SamePromise DEF LockHold, SlotsLocked, ReadGrid, Refuse
<1>2. CASE LockDay(r) \/ ReadJobs(r) \/ ReadHolds(r)
  BY <1>2, SamePromise DEF LockDay, ReadJobs, ReadHolds
<1>3. CASE LockSlot(r) \/ LockExpiring(r) \/ ExpiringLocked(r)
  BY <1>3, SamePromise DEF LockSlot, LockExpiring, ExpiringLocked
<1>4. CASE CommitHold(r)
  BY <1>4, CommitHoldGrants
<1>5. CASE CommitBooking(r)
  <2>1. CASE Refuse(r)
    BY <2>1, SamePromise DEF Refuse
  <2>2. CASE ~Refuse(r)
    BY <1>5, <2>2, BookingBooks DEF CommitBooking
  <2> QED  BY <2>1, <2>2
<1>6. ~CommitCorrection(r)
  BY DEF CommitCorrection
<1> QED  BY <1>1, <1>2, <1>3, <1>4, <1>5, <1>6 DEF Run

LEMMA CalendarImplemented ==
  ASSUME Correcting = {}
  PROVE  Locked /\ Decided /\ [Next]_vars => [Calendar!Next]_Promise
<1> SUFFICES ASSUME Locked, Decided, [Next]_vars
             PROVE  [Calendar!Next]_Promise
  OBVIOUS
<1>1. CASE UNCHANGED vars
  BY <1>1, SamePromise DEF vars
<1>2. ASSUME NEW r \in Request, Begin(r) \/ Abort(r)
      PROVE  [Calendar!Next]_Promise
  BY <1>2, AbortRefuses, SamePromise DEF Begin, Refuse
<1>3. ASSUME NEW r \in Request, Run(r)
      PROVE  [Calendar!Next]_Promise
  BY <1>3, RunImplements
<1>4. ASSUME NEW h \in Holding, Expire(h)
      PROVE  [Calendar!Next]_Promise
  BY <1>4, ExpireLapses DEF Locked
<1> QED  BY <1>1, <1>2, <1>3, <1>4 DEF Next

LEMMA CalendarStarts == Init => Calendar!Init
<1>1. Idle.team \in Team /\ Idle.start \in Grid
  BY IdleType DEF Transaction
<1>2. Init => Promise = [h \in Holding |->
                          [status |-> "none", team |-> Idle.team, start |-> Idle.start]]
  BY DEF Init, Promise
<1> QED  BY <1>1, <1>2 DEF Calendar!Init

(* Without rewashes the decisions of a day, made by requests that read and *)
(* wait in any order, are the decisions of the calendar.                   *)
THEOREM RaceImplementsCalendar ==
  ASSUME Correcting = {}
  PROVE  Spec => ImplementsCalendar
BY CalendarStarts, CalendarImplemented, DecidedAlways, PTL DEF Spec, ImplementsCalendar, Calendar!Spec
-----------------------------------------------------------------------------
(* What the calendar promises.                                             *)

(* The type of the calendar, which its specification leaves implicit.      *)
CalendarType == Promise \in [Holding -> [status : Calendar!Status, team : Team, start : Grid]]

(* The inductive invariant.  Without the type a step could not be told to  *)
(* change one claim only.                                                  *)
Consistent == CalendarType /\ Calendar!NoOverlap

(* A step that gives c new values, and a status that is granted only if    *)
(* the time is free, keeps the calendar consistent.                        *)
LEMMA OneClaim ==
  ASSUME Consistent, NEW c \in Holding,
         NEW row \in [status : Calendar!Status, team : Team, start : Grid],
         Promise' = [Promise EXCEPT ![c] = row],
         \/ row.status = "lapsed"
         \/ Calendar!Free(c, row.team, row.start)
  PROVE  Consistent'
<1>1. /\ Promise'[c] = row
      /\ \A d \in Holding \ {c} : Promise'[d] = Promise[d]
      /\ CalendarType'
  BY DEF Consistent, CalendarType, Calendar!Status
<1>2. ASSUME NEW d \in Holding \ {c},
             Calendar!Granted(c)', Calendar!Granted(d)', Promise'[c].team = Promise'[d].team
      PROVE  ~Calendar!Overlap(Promise'[d].start, Promise'[c].start)
  <2>1. row.status # "lapsed" /\ Calendar!Granted(d) /\ Promise[d].team = row.team
    BY <1>1, <1>2 DEF Calendar!Granted
  <2> QED  BY <1>1, <1>2, <2>1 DEF Calendar!Free
<1>3. ASSUME NEW d \in Holding, NEW e \in Holding, d # e,
             Calendar!Granted(d)', Calendar!Granted(e)', Promise'[d].team = Promise'[e].team
      PROVE  ~Calendar!Overlap(Promise'[d].start, Promise'[e].start)
  <2>1. CASE d # c /\ e # c
    BY <1>1, <1>3, <2>1 DEF Consistent, Calendar!NoOverlap, Calendar!Granted
  <2>2. CASE d # c /\ e = c
    BY <1>2, <1>3, <2>2
  <2>3. CASE d = c
    <3>1. ~Calendar!Overlap(Promise'[e].start, Promise'[d].start)
      BY <1>2, <1>3, <2>3
    <3> QED  BY <3>1 DEF Calendar!Overlap
  <2> QED  BY <2>1, <2>2, <2>3
<1>4. Calendar!NoOverlap'
  BY <1>3 DEF Calendar!NoOverlap, Calendar!Overlap
<1> QED  BY <1>1, <1>4 DEF Consistent

LEMMA CalendarStep ==
  ASSUME Consistent, [Calendar!Next]_Promise
  PROVE  Consistent'
<1>1. CASE UNCHANGED Promise
  BY <1>1 DEF Consistent, CalendarType, Calendar!NoOverlap, Calendar!Granted, Calendar!Overlap,
              Calendar!Status
<1>2. ASSUME NEW c \in Holding, NEW team \in Team, NEW start \in Grid,
             Calendar!Grant(c, team, start)
      PROVE  Consistent'
  <2> DEFINE row == [status |-> "live", team |-> team, start |-> start]
  <2>1. /\ row \in [status : Calendar!Status, team : Team, start : Grid]
        /\ Calendar!Free(c, row.team, row.start)
    BY <1>2 DEF Calendar!Grant, Calendar!Status
  <2>2. Promise' = [Promise EXCEPT ![c] = row]
    BY <1>2 DEF Calendar!Grant
  <2> HIDE DEF row
  <2> QED  BY <2>1, <2>2, OneClaim
<1>3. ASSUME NEW c \in Holding, Calendar!Lapse(c)
      PROVE  Consistent'
  <2> DEFINE row == [Promise[c] EXCEPT !.status = "lapsed"]
  <2>1. /\ row \in [status : Calendar!Status, team : Team, start : Grid]
        /\ row.status = "lapsed"
    BY DEF Consistent, CalendarType, Calendar!Status
  <2>2. Promise' = [Promise EXCEPT ![c] = row]
    BY <1>3 DEF Calendar!Lapse
  <2>3. PICK new \in [status : Calendar!Status, team : Team, start : Grid] : new = row
    BY <2>1
  <2> QED  BY <2>1, <2>2, <2>3, OneClaim
<1>4. ASSUME NEW c \in Holding, Calendar!Book(c)
      PROVE  Consistent'
  <2> DEFINE row == [Promise[c] EXCEPT !.status = "booked"]
  <2>1. /\ row \in [status : Calendar!Status, team : Team, start : Grid]
        /\ row.team = Promise[c].team
        /\ row.start = Promise[c].start
    BY DEF Consistent, CalendarType, Calendar!Status
  <2>2. Promise' = [Promise EXCEPT ![c] = row]
    BY <1>4 DEF Calendar!Book
  <2>3. Calendar!Free(c, row.team, row.start)
    BY <1>4, <2>1 DEF Calendar!Book
  <2>4. PICK new \in [status : Calendar!Status, team : Team, start : Grid] : new = row
    BY <2>1
  <2> QED  BY <2>2, <2>3, <2>4, OneClaim
<1> QED  BY <1>1, <1>2, <1>3, <1>4 DEF Calendar!Next

(* The calendar never promises a team twice for one moment.                *)
THEOREM CalendarNeverOverlaps == Calendar!Spec => []Calendar!NoOverlap
<1>1. Calendar!Init => Consistent
  BY DEF Calendar!Init, Consistent, CalendarType, Calendar!NoOverlap, Calendar!Granted,
         Calendar!Status
<1>2. Consistent => Calendar!NoOverlap
  BY DEF Consistent
<1> QED  BY <1>1, <1>2, CalendarStep, PTL DEF Calendar!Spec

(* Hence a team is never promised twice, however the requests of a day     *)
(* read, wait and commit (docs/scheduling.md: Hard interval overlap is     *)
(* never allowed).                                                         *)
THEOREM DayNeverOverlaps ==
  ASSUME Correcting = {}
  PROVE  Spec => []Calendar!NoOverlap
BY RaceImplementsCalendar, CalendarNeverOverlaps, PTL DEF ImplementsCalendar
=============================================================================
