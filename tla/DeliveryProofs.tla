--------------------------- MODULE DeliveryProofs ---------------------------
(* Proofs about what leaves the server and may be lost on its way: the      *)
(* messages of the Outbox, for any workers, messages, times and bounds, and *)
(* the refreshes of Sync, for any sessions, any family of queries, and any  *)
(* number of requests and restarts.                                         *)
EXTENDS Outbox, Sync, FiniteSetTheorems, TLAPS
-----------------------------------------------------------------------------
(* The outbox.                                                              *)

(* What is true of the row of a message whatever the workers do: it is     *)
(* locked exactly while it is being processed, only a row that waits for   *)
(* its next attempt has a delay, a permanent error ends its processing,    *)
(* and an update has one row.                                              *)
RowSound(m, r) ==
  /\ r \in OutboxRow
  /\ r.status = "processing" <=> r.by # NoWorker
  /\ r.status \in {"processing", "sent", "failed"} => r.wait = 0
  /\ r.rejected => r.status \in {"failed", "retry"}
  /\ m \in Update => r.id = IF r.status = "none" THEN 0 ELSE 1

(* What is true of a coroutine: when it has seen the acceptance, the       *)
(* provider has the key; a coroutine for an update is never stale.         *)
TaskSound(m, t, keys) ==
  /\ t \in [at : Stage, id : Nat]
  /\ t.at = "accepted" => <<m, t.id>> \in keys
  /\ m \in Update /\ t.at # "idle" => t.id = 1 /\ t.at \notin {"read", "stale"}

(* The inductive invariant.                                                *)
OutboxSound ==
  /\ OutboxTypeOK
  /\ \A m \in Message : RowSound(m, row[m])
  /\ \A w \in Worker, m \in Message : TaskSound(m, task[w][m], accepted)
  /\ SentWasAccepted
  /\ \A k \in accepted : k[1] \in Update => k[2] = 1
-----------------------------------------------------------------------------
(* What the helpers make of a row.                                         *)

LEMMA NewRowSound ==
  ASSUME NEW m \in Message, RowSound(m, row[m]), MayInsert(m)
  PROVE  RowSound(m, NewRow(m)) /\ NewRow(m).status = "pending"
<1>1. row[m].id \in Nat /\ (m \in Update => row[m].id = 0)
  BY DEF RowSound, OutboxRow, MayInsert
<1>2. NoRow \in OutboxRow /\ row[m].id + 1 \in Nat
  BY <1>1 DEF NoRow, OutboxRow
<1>3. NewRow(m) \in OutboxRow
  BY <1>2 DEF NewRow, OutboxRow, Unsent
<1>4. /\ NewRow(m).status = "pending"
      /\ NewRow(m).id = row[m].id + 1
      /\ NewRow(m).by = NoWorker
      /\ NewRow(m).rejected = FALSE
  BY DEF NewRow, NoRow
<1> QED  BY <1>1, <1>3, <1>4, OutboxConstants DEF RowSound

LEMMA DeletedSound ==
  ASSUME NEW m \in Reminder, RowSound(m, row[m])
  PROVE  RowSound(m, Deleted(m)) /\ Deleted(m).status = "none"
  BY OutboxConstants DEF RowSound, Deleted, NoRow, OutboxRow, Unsent

LEMMA ClaimedSound ==
  ASSUME NEW m \in Message, NEW w \in Worker, RowSound(m, row[m]), Claimable(m)
  PROVE  /\ RowSound(m, ClaimedRow(w, row[m]))
         /\ ClaimedRow(w, row[m]).status # "sent"
         /\ ClaimedRow(w, row[m]).id = row[m].id
  BY OutboxConstants DEF RowSound, ClaimedRow, Claimable, OutboxRow, Unsent

LEMMA FailedSound ==
  ASSUME NEW m \in Message, NEW permanent \in BOOLEAN,
         RowSound(m, row[m]), row[m].status = "processing"
  PROVE  /\ RowSound(m, Failed(row[m], permanent))
         /\ Failed(row[m], permanent).status # "sent"
<1> DEFINE r == row[m]
           n == r.attempts + 1
<1>1. n \in Nat \ {0}
  BY DEF RowSound, OutboxRow
<1>2. n < MaxAttempts => Delay(n) \in Nat
  BY <1>1, OutboxConstants DEF Delay
<1>3. r \in OutboxRow
  BY DEF RowSound
<1>4. r.id \in Nat /\ r.wait \in Nat /\ (m \in Update => r.id = 1)
  BY <1>3 DEF RowSound, OutboxRow
<1>5. CASE permanent \/ n >= MaxAttempts
  <2>1. Failed(r, permanent) =
          [status |-> "failed", id |-> r.id, attempts |-> n, wait |-> 0, age |-> 0,
           by |-> NoWorker, rejected |-> permanent]
    BY <1>3, <1>5, Zenon DEF Failed, OutboxRow
  <2> QED  BY <1>1, <1>4, <2>1, OutboxConstants DEF RowSound, OutboxRow, Unsent
<1>6. CASE ~(permanent \/ n >= MaxAttempts)
  <2>1. Failed(r, permanent) =
          [status |-> "retry", id |-> r.id, attempts |-> n, wait |-> Delay(n), age |-> 0,
           by |-> NoWorker, rejected |-> permanent]
    BY <1>3, <1>6, Zenon DEF Failed, OutboxRow
  <2>2. Delay(n) \in Nat
    BY <1>1, <1>2, <1>6, OutboxConstants
  <2> QED  BY <1>1, <1>4, <2>1, <2>2, OutboxConstants DEF RowSound, OutboxRow, Unsent
<1> QED  BY <1>5, <1>6

LEMMA SucceededSound ==
  ASSUME NEW m \in Message, RowSound(m, row[m]), row[m].status = "processing"
  PROVE  RowSound(m, Succeeded(row[m])) /\ Succeeded(row[m]).id = row[m].id
  BY OutboxConstants DEF RowSound, Succeeded, OutboxRow

LEMMA AgedSound ==
  ASSUME NEW m \in Message, NEW r, RowSound(m, r)
  PROVE  /\ RowSound(m, Aged(r))
         /\ Aged(r).status = r.status
         /\ Aged(r).id = r.id
         /\ r.status \in {"sent", "failed"} => Aged(r) = r
<1>1. r \in OutboxRow /\ r.wait \in Nat /\ r.age \in Nat
  BY DEF RowSound, OutboxRow
<1>2. Elapse(r.wait) \in Nat /\ (r.wait = 0 => Elapse(r.wait) = 0)
  BY <1>1 DEF Elapse
<1> DEFINE age == IF r.status = "processing" /\ r.age <= ReclaimAfter
                  THEN r.age + 1 ELSE r.age
<1>3. age \in Nat
  BY <1>1
<1>4. /\ Aged(r).wait = Elapse(r.wait)
      /\ Aged(r).age = age
      /\ \A f \in {"status", "id", "attempts", "by", "rejected"} : Aged(r)[f] = r[f]
  BY <1>1 DEF Aged, OutboxRow
<1>5. r.status # "processing" => age = r.age
  OBVIOUS
<1>6. Aged(r) \in OutboxRow
  BY <1>1, <1>2, <1>3 DEF Aged, OutboxRow
<1>7. r.status \in {"sent", "failed"} => Aged(r) = r
  <2> HIDE DEF age
  <2> SUFFICES ASSUME r.status \in {"sent", "failed"} PROVE Aged(r) = r
    OBVIOUS
  <2>1. Elapse(r.wait) = r.wait /\ age = r.age
    BY <1>2, <1>5 DEF RowSound
  <2> QED  BY <1>1, <1>4, <1>6, <2>1 DEF OutboxRow
<1> HIDE DEF age
<1> QED  BY <1>2, <1>4, <1>6, <1>7 DEF RowSound

LEMMA LostSound ==
  ASSUME NEW m \in Message, NEW w \in Worker, RowSound(m, row[m]), row[m].by = w
  PROVE  /\ RowSound(m, [row[m] EXCEPT !.by = Lost])
         /\ row[m].status = "processing"
  BY OutboxConstants DEF RowSound, OutboxRow

(* A worker that owns a row still processes it.                            *)
LEMMA OwnedIsProcessing ==
  ASSUME OutboxSound, NEW w \in Worker, NEW m \in Message, Owns(w, m)
  PROVE  row[m].status = "processing"
  BY OutboxConstants DEF OutboxSound, RowSound, Owns
-----------------------------------------------------------------------------
(* What a step does to the rows, and to the coroutines.                    *)

RowsKept(keys) ==
  /\ row' \in [Message -> OutboxRow]
  /\ \A m \in Message :
       /\ RowSound(m, row'[m])
       /\ row[m].status \in {"sent", "failed"} => row'[m] = row[m]
       /\ row'[m].status = "sent" => <<m, row'[m].id>> \in keys

TasksKept(keys) ==
  /\ task' \in [Worker -> [Message -> [at : Stage, id : Nat]]]
  /\ \A w \in Worker, m \in Message : TaskSound(m, task'[w][m], keys)

(* It is enough to look at each row.                                       *)
RowKept(m) ==
  /\ RowSound(m, row'[m])
  /\ row[m].status \in {"sent", "failed"} => row'[m] = row[m]
  /\ row'[m].status = "sent" => row[m].status = "sent" /\ row'[m].id = row[m].id

LEMMA RowsByMessage ==
  ASSUME OutboxSound,
         row' = [m \in Message |-> row'[m]],
         \A m \in Message : RowKept(m)
  PROVE  RowsKept(accepted)
<1>1. \A m \in Message : row'[m] \in OutboxRow
  BY DEF RowKept, RowSound
<1> QED  BY <1>1 DEF RowsKept, RowKept, OutboxSound, SentWasAccepted

LEMMA SameRows == OutboxSound /\ UNCHANGED row => RowsKept(accepted)
  BY DEF RowsKept, OutboxSound, OutboxTypeOK, SentWasAccepted

LEMMA SameTasks == OutboxSound /\ UNCHANGED task => TasksKept(accepted)
  BY DEF TasksKept, OutboxSound, OutboxTypeOK

LEMMA DiscardKeeps ==
  ASSUME OutboxSound, NEW b \in Booking, Discard(b)
  PROVE  RowsKept(accepted)
<1> PICK locked \in SUBSET UnsentReminders(b) :
           row' = [m \in Message |->
                     IF m \in UnsentReminders(b) \ locked THEN Deleted(m) ELSE row[m]]
  BY DEF Discard
<1>1. ASSUME NEW m \in Message
      PROVE  RowKept(m)
  BY DeletedSound DEF RowKept, OutboxSound, UnsentReminders, Unsent
<1> QED  BY <1>1, RowsByMessage

LEMMA EnqueueKeeps ==
  ASSUME OutboxSound, NEW w \in Worker, EnqueueReminders(w)
  PROVE  RowsKept(accepted)
<1> PICK due \in SUBSET DueReminders :
           row' = [m \in Message |-> IF m \in due THEN NewRow(m) ELSE row[m]]
  BY DEF EnqueueReminders
<1>1. ASSUME NEW m \in Message
      PROVE  RowKept(m)
  BY NewRowSound DEF RowKept, OutboxSound, DueReminders, MayInsert
<1> QED  BY <1>1, RowsByMessage

LEMMA NotifyKeeps ==
  ASSUME OutboxSound, NEW u \in Update, Notify(u)
  PROVE  RowsKept(accepted)
<1>1. ASSUME NEW m \in Message
      PROVE  RowKept(m)
  BY NewRowSound DEF RowKept, OutboxSound, Notify, MayInsert, OutboxTypeOK
<1>2. row' = [m \in Message |-> row'[m]]
  BY DEF Notify, OutboxSound, OutboxTypeOK
<1> QED  BY <1>1, <1>2, RowsByMessage

LEMMA TickKeeps ==
  ASSUME OutboxSound, Tick
  PROVE  RowsKept(accepted)
<1>1. ASSUME NEW m \in Message
      PROVE  RowKept(m)
  BY AgedSound DEF RowKept, OutboxSound, Tick
<1>2. row' = [m \in Message |-> row'[m]]
  BY DEF Tick
<1> QED  BY <1>1, <1>2, RowsByMessage

LEMMA CrashKeeps ==
  ASSUME OutboxSound, NEW w \in Worker, Crash(w)
  PROVE  RowsKept(accepted) /\ TasksKept(accepted)
<1>1. ASSUME NEW m \in Message
      PROVE  RowKept(m)
  <2>1. row'[m] = IF row[m].by = w THEN [row[m] EXCEPT !.by = Lost] ELSE row[m]
    BY DEF Crash
  <2>2. row[m] \in OutboxRow
    BY DEF OutboxSound, OutboxTypeOK
  <2>3. CASE row[m].by = w
    <3>1. RowSound(m, [row[m] EXCEPT !.by = Lost]) /\ row[m].status = "processing"
      BY <2>3, LostSound DEF OutboxSound
    <3>2. [row[m] EXCEPT !.by = Lost].status = row[m].status
      BY <2>2 DEF OutboxRow
    <3> QED  BY <2>1, <2>3, <3>1, <3>2 DEF RowKept
  <2>4. CASE row[m].by # w
    BY <2>1, <2>4 DEF RowKept, OutboxSound
  <2> QED  BY <2>3, <2>4
<1>2. row' = [m \in Message |-> row'[m]]
  BY DEF Crash
<1>3. TasksKept(accepted)
  BY DEF Crash, TasksKept, TaskSound, NoTask, Stage, OutboxSound, OutboxTypeOK
<1> QED  BY <1>1, <1>2, <1>3, RowsByMessage

LEMMA ClaimKeeps ==
  ASSUME OutboxSound, NEW w \in Worker, ClaimBatch(w)
  PROVE  RowsKept(accepted) /\ TasksKept(accepted)
<1> PICK batch \in SUBSET {m \in Message : Claimable(m)} :
      /\ row' = [m \in Message |-> IF m \in batch THEN ClaimedRow(w, row[m]) ELSE row[m]]
      /\ task' = [task EXCEPT ![w] = [m \in Message |->
                    IF m \in batch /\ ~row[m].rejected
                    THEN [at |-> "claimed", id |-> row[m].id] ELSE NoTask]]
  BY Zenon DEF ClaimBatch
<1>1. ASSUME NEW m \in Message
      PROVE  RowKept(m)
  BY ClaimedSound DEF RowKept, OutboxSound, Claimable
<1>2. RowsKept(accepted)
  BY <1>1, RowsByMessage
<1>3. ASSUME NEW m \in Message
      PROVE  /\ TaskSound(m, NoTask, accepted)
             /\ m \in batch => TaskSound(m, [at |-> "claimed", id |-> row[m].id], accepted)
  BY DEF TaskSound, NoTask, Stage, OutboxSound, RowSound, OutboxRow, Claimable
<1>4. TasksKept(accepted)
  BY <1>3 DEF TasksKept, TaskSound, OutboxSound, OutboxTypeOK
<1> QED  BY <1>2, <1>4

(* A coroutine that goes on to another stage, or ends.                     *)
LEMMA GotoKeeps ==
  ASSUME OutboxSound, NEW w \in Worker, NEW m \in Message, NEW stage \in Stage, NEW keys,
         Goto(w, m, stage),
         accepted \subseteq keys,
         stage = "accepted" => <<m, task[w][m].id>> \in keys,
         m \in Update => stage \notin {"read", "stale"},
         task[w][m].at # "idle"
  PROVE  TasksKept(keys)
<1>1. task[w][m] \in [at : Stage, id : Nat] /\ TaskSound(m, task[w][m], accepted)
  BY DEF OutboxSound, OutboxTypeOK
<1>2. DEFINE t == [task[w][m] EXCEPT !.at = stage]
<1>3. t \in [at : Stage, id : Nat] /\ t.at = stage /\ t.id = task[w][m].id
  BY <1>1
<1>4. TaskSound(m, t, keys)
  BY <1>1, <1>3 DEF TaskSound
<1>5. task' \in [Worker -> [Message -> [at : Stage, id : Nat]]]
  BY <1>3 DEF Goto, OutboxSound, OutboxTypeOK
<1>6. ASSUME NEW v \in Worker, NEW n \in Message
      PROVE  task'[v][n] = IF v = w /\ n = m THEN t ELSE task[v][n]
  BY DEF Goto, OutboxSound, OutboxTypeOK
<1>7. \A v \in Worker, n \in Message : TaskSound(n, task[v][n], keys)
  BY DEF OutboxSound, TaskSound
<1> QED  BY <1>4, <1>5, <1>6, <1>7 DEF TasksKept

LEMMA DoneKeeps ==
  ASSUME OutboxSound, NEW w \in Worker, NEW m \in Message, Done(w, m)
  PROVE  TasksKept(accepted)
<1>1. TaskSound(m, NoTask, accepted) /\ NoTask \in [at : Stage, id : Nat]
  BY DEF TaskSound, NoTask, Stage
<1>2. task' \in [Worker -> [Message -> [at : Stage, id : Nat]]]
  BY <1>1 DEF Done, OutboxSound, OutboxTypeOK
<1>3. ASSUME NEW v \in Worker, NEW n \in Message
      PROVE  task'[v][n] = IF v = w /\ n = m THEN NoTask ELSE task[v][n]
  BY DEF Done, OutboxSound, OutboxTypeOK
<1> QED  BY <1>1, <1>2, <1>3 DEF TasksKept, OutboxSound

LEMMA ReadKeeps ==
  ASSUME OutboxSound, NEW w \in Worker, NEW m \in Message, ReadRow(w, m) \/ Recheck(w, m)
  PROVE  TasksKept(accepted)
<1>1. m \in Update => m \notin Reminder /\ task[w][m].at # "read"
  BY OutboxConstants DEF OutboxSound, TaskSound
<1>2. CASE ReadRow(w, m)
  <2>1. task[w][m].at = "claimed"
    BY <1>2 DEF ReadRow
  <2>2. Done(w, m) \/ \E stage \in {"stale", "read", "ready", "error"} :
                        Goto(w, m, stage) /\ (m \in Update => stage \in {"ready", "error"})
    BY <1>1, <1>2 DEF ReadRow
  <2> QED  BY <2>1, <2>2, DoneKeeps, GotoKeeps DEF Stage
<1>3. CASE Recheck(w, m)
  <2>1. /\ task[w][m].at = "read"
        /\ \E stage \in {"ready", "stale", "error"} : Goto(w, m, stage)
    BY <1>3 DEF Recheck
  <2> QED  BY <1>1, <2>1, GotoKeeps DEF Stage
<1> QED  BY <1>2, <1>3

LEMMA PostKeeps ==
  ASSUME OutboxSound, NEW w \in Worker, NEW m \in Message, Post(w, m)
  PROVE  /\ TasksKept(accepted')
         /\ accepted \subseteq accepted'
         /\ accepted' \subseteq accepted \cup {Key(w, m)}
<1>1. /\ task[w][m].at = "ready"
      /\ accepted \subseteq accepted'
      /\ accepted' \subseteq accepted \cup {Key(w, m)}
  BY DEF Post
<1>2. PICK stage \in {"accepted", "error", "refused"} :
        Goto(w, m, stage) /\ (stage = "accepted" => Key(w, m) \in accepted')
  BY DEF Post
<1>3. TasksKept(accepted')
  BY <1>1, <1>2, GotoKeeps DEF Key, Stage
<1> QED  BY <1>1, <1>3

LEMMA RecordKeeps ==
  ASSUME OutboxSound, NEW w \in Worker, NEW m \in Message, Record(w, m)
  PROVE  RowsKept(accepted) /\ TasksKept(accepted)
<1> DEFINE at == task[w][m].at
           next == CASE at = "accepted" -> Succeeded(row[m])
                     [] at = "stale" -> Deleted(m)
                     [] OTHER -> Failed(row[m], at = "refused")
<1>1. TasksKept(accepted)
  BY DoneKeeps DEF Record
<1>2. CASE ~Owns(w, m)
  BY <1>1, <1>2, SameRows DEF Record
<1>3. CASE Owns(w, m)
  <2>1. row' = [row EXCEPT ![m] = next]
    BY <1>3 DEF Record
  <2>2. /\ row[m].status = "processing"
        /\ RowSound(m, row[m])
        /\ TaskSound(m, task[w][m], accepted)
        /\ at = "stale" => m \in Reminder
    BY <1>3, OwnedIsProcessing DEF OutboxSound, TaskSound, Message
  <2>3. /\ RowSound(m, next)
        /\ next.status = "sent" => next.id = row[m].id /\ at = "accepted"
    <3>1. CASE at = "accepted"
      BY <2>2, <3>1, SucceededSound
    <3>2. CASE at = "stale"
      BY <2>2, <3>2, DeletedSound
    <3>3. CASE at \notin {"accepted", "stale"}
      <4>1. next = Failed(row[m], at = "refused")
        BY <3>3
      <4> QED  BY <2>2, <4>1, FailedSound
    <3> QED  BY <3>1, <3>2, <3>3
  <2>4. next.status = "sent" => <<m, next.id>> \in accepted
    BY <1>3, <2>2, <2>3 DEF TaskSound, Owns
  <2> HIDE DEF next, at
  <2>5. ASSUME NEW n \in Message
        PROVE  row'[n] = IF n = m THEN next ELSE row[n]
    BY <2>1 DEF OutboxSound, OutboxTypeOK
  <2>6. next \in OutboxRow
    BY <2>3 DEF RowSound
  <2>7. row' \in [Message -> OutboxRow]
    BY <2>1, <2>6 DEF OutboxSound, OutboxTypeOK
  <2>8. RowsKept(accepted)
    BY <2>2, <2>3, <2>4, <2>5, <2>7 DEF RowsKept, OutboxSound, SentWasAccepted
  <2> QED  BY <1>1, <2>8
<1> QED  BY <1>2, <1>3
-----------------------------------------------------------------------------
(* The inductive step.                                                     *)

LEMMA StepKeeps ==
  ASSUME OutboxSound, [OutboxNext]_outboxVars
  PROVE  /\ RowsKept(accepted')
         /\ TasksKept(accepted')
         /\ \/ UNCHANGED accepted
            \/ \E w \in Worker, m \in Message : task[w][m].at = "ready"
                                              /\ accepted' \subseteq accepted \cup {Key(w, m)}
<1>1. CASE \E u \in Update : Notify(u)
  BY <1>1, NotifyKeeps, SameTasks DEF Notify
<1>2. CASE \E b \in Booking, s \in Start : Reschedule(b, s)
  BY <1>2, DiscardKeeps, SameTasks DEF Reschedule
<1>3. CASE \E b \in Booking : RequestCancellation(b) \/ RejectCancellation(b)
  BY <1>3, SameRows, SameTasks DEF RequestCancellation, RejectCancellation
<1>4. CASE \E b \in Booking : \E status \in {"cancelled", "completed"} : Close(b, status)
  BY <1>4, DiscardKeeps, SameTasks DEF Close
<1>5. CASE \E w \in Worker : EnqueueReminders(w)
  BY <1>5, EnqueueKeeps, SameTasks DEF EnqueueReminders
<1>6. CASE \E w \in Worker : ClaimBatch(w)
  BY <1>6, ClaimKeeps DEF ClaimBatch
<1>7. CASE \E w \in Worker : FinishBatch(w) \/ RestartWorker(w)
  BY <1>7, SameRows, SameTasks DEF FinishBatch, RestartWorker
<1>8. CASE \E w \in Worker, m \in Message : ReadRow(w, m) \/ Recheck(w, m)
  BY <1>8, ReadKeeps, SameRows DEF ReadRow, Recheck
<1>9. CASE \E w \in Worker, m \in Message : Post(w, m)
  <2> PICK w \in Worker, m \in Message : Post(w, m)
    BY <1>9
  <2>1. RowsKept(accepted')
    BY PostKeeps, SameRows DEF Post, RowsKept
  <2> QED  BY <2>1, PostKeeps DEF Post
<1>10. CASE \E w \in Worker, m \in Message : Record(w, m)
  BY <1>10, RecordKeeps DEF Record
<1>11. CASE \E w \in Worker : Crash(w)
  BY <1>11, CrashKeeps DEF Crash
<1>12. CASE Tick
  BY <1>12, TickKeeps, SameTasks DEF Tick
<1>13. CASE UNCHANGED outboxVars
  BY <1>13, SameRows, SameTasks DEF outboxVars
<1> QED
  BY <1>1, <1>2, <1>3, <1>4, <1>5, <1>6, <1>7, <1>8, <1>9, <1>10, <1>11, <1>12, <1>13
  DEF OutboxNext, Process

LEMMA TypesKept == OutboxSound /\ [OutboxNext]_outboxVars => OutboxTypeOK'
<1> SUFFICES ASSUME OutboxSound, [OutboxNext]_outboxVars PROVE OutboxTypeOK'
  OBVIOUS
<1> USE DEF OutboxTypeOK
<1>1. OutboxTypeOK
  BY DEF OutboxSound
<1>2. row' \in [Message -> OutboxRow]
      /\ task' \in [Worker -> [Message -> [at : Stage, id : Nat]]]
  BY StepKeeps DEF RowsKept, TasksKept
<1>3. accepted' \subseteq Message \X Nat
  BY <1>1, StepKeeps DEF Key
<1>4. booking' \in [Booking -> BookingRow]
  <2>1. ASSUME NEW b \in Booking, NEW s \in Start, Reschedule(b, s)
        PROVE  booking' \in [Booking -> BookingRow]
    BY <1>1, <2>1 DEF Reschedule, BookingRow
  <2>2. ASSUME NEW b \in Booking, RequestCancellation(b) \/ RejectCancellation(b)
        PROVE  booking' \in [Booking -> BookingRow]
    BY ZenonT(40), <1>1, <2>2 DEF RequestCancellation, RejectCancellation, BookingRow
  <2>3. ASSUME NEW b \in Booking, NEW status \in {"cancelled", "completed"}, Close(b, status)
        PROVE  booking' \in [Booking -> BookingRow]
    BY <1>1, <2>3 DEF Close, BookingRow
  <2>4. ASSUME UNCHANGED booking
        PROVE  booking' \in [Booking -> BookingRow]
    BY <1>1, <2>4
  <2> QED  BY <2>1, <2>2, <2>3, <2>4 DEF OutboxNext, outboxVars, Notify, EnqueueReminders, ClaimBatch,
           FinishBatch, Process, ReadRow, Recheck, Post, Record, Crash, RestartWorker, Tick
<1>5. lead' \in [Start -> Nat]
  BY <1>1 DEF OutboxNext, outboxVars, Notify, Reschedule, RequestCancellation, RejectCancellation, Close,
     EnqueueReminders, ClaimBatch, FinishBatch, Process, ReadRow, Recheck, Post, Record, Crash,
     RestartWorker, Tick, Elapse
<1>6. phase' \in [Worker -> {"idle", "enqueued", "working", "dead"}]
  BY ZenonT(40), <1>1 DEF OutboxNext, outboxVars, Notify, Reschedule, RequestCancellation, RejectCancellation, Close,
     EnqueueReminders, ClaimBatch, FinishBatch, Process, ReadRow, Recheck, Post, Record, Crash,
     RestartWorker, Tick
<1>7. faults' \in Nat
  BY <1>1 DEF OutboxNext, outboxVars, Notify, Reschedule, RequestCancellation, RejectCancellation, Close,
     EnqueueReminders, ClaimBatch, FinishBatch, Process, ReadRow, Recheck, Post, Record, Crash,
     RestartWorker, Tick
<1> QED  BY <1>2, <1>3, <1>4, <1>5, <1>6, <1>7

LEMMA OutboxInitSound == OutboxInit => OutboxSound
<1> SUFFICES ASSUME OutboxInit PROVE OutboxSound
  OBVIOUS
<1>1. PICK old \in SUBSET Update :
        row = [m \in Message |-> IF m \in old THEN HistoricalRow ELSE NoRow]
  BY DEF OutboxInit
<1>2. \A m \in Message : RowSound(m, NoRow) /\ RowSound(m, HistoricalRow)
  BY OutboxConstants DEF RowSound, NoRow, HistoricalRow, OutboxRow, Unsent
<1>3. \A m \in Message : RowSound(m, row[m]) /\ row[m].status # "sent"
  BY <1>1, <1>2 DEF NoRow, HistoricalRow
<1>4. \A w \in Worker, m \in Message : TaskSound(m, task[w][m], accepted)
  BY DEF OutboxInit, TaskSound, NoTask, Stage
<1>5. row \in [Message -> OutboxRow]
  BY <1>1, <1>2 DEF RowSound
<1>6. OutboxTypeOK
  BY <1>5, OutboxConstants DEF OutboxInit, OutboxTypeOK, BookingRow, NoTask, Stage
<1> QED  BY <1>3, <1>4, <1>6 DEF OutboxSound, SentWasAccepted, OutboxInit

LEMMA SoundAlways == OutboxSpec => []OutboxSound
<1>1. OutboxSound /\ [OutboxNext]_outboxVars => OutboxSound'
  <2> SUFFICES ASSUME OutboxSound, [OutboxNext]_outboxVars PROVE OutboxSound'
    OBVIOUS
  <2>1. \A k \in accepted' : k[1] \in Update => k[2] = 1
    <3>1. \A w \in Worker, m \in Update : task[w][m].at = "ready" => task[w][m].id = 1
      BY DEF OutboxSound, TaskSound, Message
    <3> QED  BY <3>1, StepKeeps DEF Key, OutboxSound
  <2> QED  BY <2>1, StepKeeps, TypesKept DEF OutboxSound, RowsKept, TasksKept, SentWasAccepted
<1> QED  BY <1>1, OutboxInitSound, PTL DEF OutboxSpec
-----------------------------------------------------------------------------
(* Every reachable state of the outbox has its types.                      *)
THEOREM OutboxTypes == OutboxSpec => []OutboxTypeOK
<1>1. OutboxSound => OutboxTypeOK
  BY DEF OutboxSound
<1> QED  BY <1>1, SoundAlways, PTL

(* A row says sent only if the provider accepted its message, for any      *)
(* number of workers that die, stall or lose their claims.                 *)
THEOREM SentAccepted == OutboxSpec => []SentWasAccepted
<1>1. OutboxSound => SentWasAccepted
  BY DEF OutboxSound
<1> QED  BY <1>1, SoundAlways, PTL

(* An update reaches the customer at most once.                            *)
THEOREM UpdatesOnce == OutboxSpec => []UpdateDeliveredOnce
<1>1. OutboxSound => UpdateDeliveredOnce
  <2> SUFFICES ASSUME OutboxSound, NEW u \in Update
               PROVE  Cardinality({k \in accepted : k[1] = u}) <= 1
    BY DEF UpdateDeliveredOnce
  <2>1. {k \in accepted : k[1] = u} \subseteq {<<u, 1>>}
    BY DEF OutboxSound, OutboxTypeOK
  <2>2. IsFiniteSet({<<u, 1>>}) /\ Cardinality({<<u, 1>>}) = 1
    BY FS_Singleton
  <2> QED  BY <2>1, <2>2, FS_Subset
<1> QED  BY <1>1, SoundAlways, PTL

(* A row with a permanent error is never claimed for delivery.             *)
THEOREM RejectedFinal == OutboxSpec => []RejectedIsNotRetried
<1>1. OutboxSound => RejectedIsNotRetried
  BY OutboxConstants DEF OutboxSound, RowSound, RejectedIsNotRetried, Owns
<1> QED  BY <1>1, SoundAlways, PTL

(* Sent and failed rows never change again.                                *)
THEOREM SettledForever == OutboxSpec => SettledStays
<1>1. OutboxSound /\ [OutboxNext]_outboxVars
        => [\A m \in Message : row[m].status \in {"sent", "failed"} => row'[m] = row[m]]_outboxVars
  BY StepKeeps DEF RowsKept
<1> QED  BY <1>1, SoundAlways, PTL DEF OutboxSpec, SettledStays

(* Once a booking is closed, no worker passes the final check for one of   *)
(* its reminders, in whatever order withdrawal and delivery interleave.    *)
THEOREM ClosedNotReminded == OutboxSpec => ClosedBookingsAreNotReminded
<1> DEFINE ClosedBooking(m) == booking[m[1]].status \in {"cancelled", "completed"}
           Late == \A w \in Worker, m \in Reminder :
                     ClosedBooking(m) /\ task'[w][m].at = "ready" => task[w][m].at = "ready"
<1>1. OutboxSound /\ [OutboxNext]_outboxVars => Late
  <2> SUFFICES ASSUME OutboxSound, [OutboxNext]_outboxVars, NEW w \in Worker, NEW m \in Reminder,
                      ClosedBooking(m), task'[w][m].at = "ready", task[w][m].at # "ready"
               PROVE  FALSE
    OBVIOUS
  <2>1. m \in Message /\ m \notin Update /\ ~Current(m) /\ ~StillCurrent(w, m)
    BY OutboxConstants DEF Message, Current, StillCurrent
  <2>2. task \in [Worker -> [Message -> [at : Stage, id : Nat]]]
    BY DEF OutboxSound, OutboxTypeOK
  <2>3. ASSUME UNCHANGED task PROVE FALSE
    BY <2>3
  <2>4. ASSUME NEW v \in Worker, ClaimBatch(v) PROVE FALSE
    BY <2>1, <2>2, <2>4 DEF ClaimBatch, NoTask
  <2>5. ASSUME NEW v \in Worker, Crash(v) PROVE FALSE
    BY <2>1, <2>2, <2>5 DEF Crash, NoTask
  <2>6. ASSUME NEW v \in Worker, NEW n \in Message, Done(v, n) PROVE FALSE
    BY <2>1, <2>2, <2>6 DEF Done, NoTask
  <2>7. ASSUME NEW v \in Worker, NEW n \in Message, NEW stage, Goto(v, n, stage)
        PROVE  v = w /\ n = m /\ stage = "ready"
    BY <2>1, <2>2, <2>7 DEF Goto
  <2>8. ASSUME NEW v \in Worker, NEW n \in Message, Process(v, n) PROVE FALSE
    <3>1. CASE ReadRow(v, n)
      BY <2>1, <2>6, <2>7, <3>1 DEF ReadRow
    <3>2. CASE Recheck(v, n)
      BY <2>1, <2>7, <3>2 DEF Recheck
    <3>3. CASE Post(v, n)
      BY <2>7, <3>3 DEF Post
    <3>4. CASE Record(v, n)
      BY <2>6, <3>4 DEF Record
    <3> QED  BY <2>8, <3>1, <3>2, <3>3, <3>4 DEF Process
  <2> QED
    BY <2>3, <2>4, <2>5, <2>8 DEF OutboxNext, outboxVars, Notify, Reschedule, RequestCancellation,
       RejectCancellation, Close, EnqueueReminders, FinishBatch, RestartWorker, Tick
<1>2. OutboxSound /\ [OutboxNext]_outboxVars
        => [\A w \in Worker, m \in Reminder :
              /\ booking[m[1]].status \in {"cancelled", "completed"}
              /\ task'[w][m].at = "ready"
              => task[w][m].at = "ready"]_outboxVars
  BY <1>1
<1> QED  BY <1>2, SoundAlways, PTL DEF OutboxSpec, ClosedBookingsAreNotReminded
-----------------------------------------------------------------------------
(* The sync state.                                                          *)

(* A request counts what it changes, or is one of those known not to.      *)
Told(r) ==
  /\ r.changes \subseteq Domain
  /\ r.bumps \subseteq Domain
  /\ \A d \in r.changes \ r.bumps : <<r.name, d>> \in Unannounced

Transaction == [content : SUBSET Domain, bumps : SUBSET Domain, silent : SUBSET Domain]

(* The server: what an open transaction will count is what it will change. *)
ServerSound ==
  /\ RevisionsTellChanges
  /\ \A p \in Session :
       /\ tx[p].content = tx[p].bumps \cup tx[p].silent
       /\ tx[p].bumps \cap tx[p].silent = {}

Later(v, than) == \A d \in Domain : v[d] <= than[d]

(* What the device shows is refetched, but for the gaps of its family.     *)
FamilySound == family.shows \ family.gaps \subseteq family.refetchedBy

(* Until the cache is restored there is nothing in memory.                 *)
Restoring ==
  restoring => cache = Empty /\ fetch = NoFetch /\ sync.at # "refetching"

(* The device: it knows no revision that the server has not reached, and   *)
(* what it has, or has been answered, is not behind the revisions it       *)
(* stored, nor behind those that a synchronisation is about to store.      *)
DeviceSound ==
  /\ FamilySound
  /\ Restoring
  /\ stored.has => Later(stored.rev, rev)
  /\ sync.at # "idle" => Later(sync.next, rev)
  /\ sync.at \in {"refetching", "invalidated"} => stored.has
  /\ ~blind /\ stored.has =>
       /\ cache.has /\ cache.valid => ~Behind(cache.seen, stored.rev)
       /\ fetch.at = "read" => ~Behind(fetch.seen, stored.rev)
  /\ ~blind /\ sync.at \in {"refetching", "invalidated"} =>
       /\ cache.has /\ cache.valid => ~Behind(cache.seen, sync.next)
       /\ fetch.at = "read" => ~Behind(fetch.seen, sync.next)

(* The inductive invariant.                                                *)
Sound == TypeOK /\ ServerSound /\ DeviceSound
-----------------------------------------------------------------------------
(* The table of requests.                                                  *)

LEMMA RowsTold ==
  ASSUME NEW names, NEW changes \in SUBSET Domain, NEW bumps \in SUBSET Domain,
         \A n \in names, d \in changes \ bumps : <<n, d>> \in Unannounced
  PROVE  \A r \in Rows(names, changes, bumps) : Told(r)
BY DEF Rows, Told

LEMMA RequestsTold == \A r \in Request : Told(r)
<1>1. \A r \in CatalogueRequests : Told(r)
  BY RowsTold DEF CatalogueRequests, Domain, Unannounced
<1>2. \A r \in AccountRequests : Told(r)
  BY RowsTold DEF AccountRequests, Domain
<1>3. \A r \in TeamRequests : Told(r)
  BY RowsTold DEF TeamRequests, Domain
<1>4. \A r \in LeaveRequests : Told(r)
  BY RowsTold DEF LeaveRequests, Domain
<1>5. \A r \in ExpenseRequests : Told(r)
  BY RowsTold DEF ExpenseRequests, Domain
<1>6. \A r \in CashRequests : Told(r)
  BY RowsTold DEF CashRequests, Domain
<1>7. \A r \in ItemRequests : Told(r)
  BY RowsTold DEF ItemRequests, Domain
<1>8. \A r \in StockRequests : Told(r)
  BY RowsTold DEF StockRequests, Domain
<1>9. \A r \in QualityRequests : Told(r)
  BY RowsTold DEF QualityRequests, Domain, Unannounced
<1>10. \A r \in ComplaintRequests : Told(r)
  BY RowsTold DEF ComplaintRequests, Domain, Unannounced
<1>11. \A r \in JobRequests : Told(r)
  BY RowsTold DEF JobRequests, Domain
<1>12. \A r \in CustomerRecordRequests : Told(r)
  BY RowsTold DEF CustomerRecordRequests, Domain
<1>13. \A r \in LoyaltyRequests : Told(r)
  BY RowsTold DEF LoyaltyRequests, Domain
<1>14. \A r \in ProfileRequests : Told(r)
  BY RowsTold DEF ProfileRequests, Domain
<1>15. \A r \in CustomerRequests : Told(r)
  BY RowsTold DEF CustomerRequests, Domain, Unannounced
<1>16. \A r \in PublicRequests : Told(r)
  BY RowsTold DEF PublicRequests, Domain, Unannounced
<1> QED
  BY <1>1, <1>2, <1>3, <1>4, <1>5, <1>6, <1>7, <1>8, <1>9, <1>10, <1>11, <1>12, <1>13,
     <1>14, <1>15, <1>16 DEF Request
-----------------------------------------------------------------------------
(* What the device is shown is never older than the revisions.             *)
LEMMA AnnouncedIsRev ==
  ASSUME Sound
  PROVE  /\ Announced \in Revisions
         /\ \A d \in family.shows : Announced[d] = rev[d]
<1>1. \A d \in Domain : /\ content[d] = rev[d] + silent[d]
                        /\ rev[d] \in Nat /\ silent[d] \in Nat
  BY DEF Sound, TypeOK, Revisions, ServerSound, RevisionsTellChanges
<1>2. family.shows \subseteq Domain
  BY DEF Sound, TypeOK
<1> QED  BY <1>1, <1>2 DEF Announced, Revisions

LEMMA NotBehind ==
  ASSUME Sound, NEW than \in Revisions, Later(than, rev)
  PROVE  ~Behind(Announced, than)
<1>1. \A d \in family.shows : d \in Domain /\ Announced[d] = rev[d]
  BY AnnouncedIsRev DEF Sound, TypeOK
<1>2. \A d \in Domain : rev[d] \in Nat /\ than[d] \in Nat /\ than[d] <= rev[d]
  BY DEF Sound, TypeOK, Revisions, Later
<1> QED  BY <1>1, <1>2 DEF Behind

LEMMA PlusGrows ==
  ASSUME NEW v \in Revisions, NEW ds \in SUBSET Domain
  PROVE  Plus(v, ds) \in Revisions /\ Later(v, Plus(v, ds))
BY DEF Plus, Revisions, Later

LEMMA LaterTransitive ==
  ASSUME NEW u \in Revisions, NEW v \in Revisions, NEW w \in Revisions, Later(u, v), Later(v, w)
  PROVE  Later(u, w)
BY DEF Later, Revisions

LEMMA LaterReflexive ==
  ASSUME NEW v \in Revisions
  PROVE  Later(v, v)
BY DEF Later, Revisions

(* Steps of the device leave the server alone, and the other way round.    *)
LEMMA ServerKept ==
  ASSUME ServerSound, UNCHANGED server
  PROVE  ServerSound'
BY DEF ServerSound, RevisionsTellChanges, server

LEMMA DeviceKept ==
  ASSUME TypeOK, TypeOK', DeviceSound, UNCHANGED device, Later(rev, rev')
  PROVE  DeviceSound'
<1>1. /\ rev \in Revisions /\ rev' \in Revisions
      /\ stored.rev \in Revisions /\ sync.next \in Revisions
  BY DEF TypeOK
<1>2. /\ stored'.has => Later(stored'.rev, rev')
      /\ sync'.at # "idle" => Later(sync'.next, rev')
  BY <1>1, LaterTransitive DEF DeviceSound, device
<1> QED  BY <1>2 DEF DeviceSound, FamilySound, Restoring, Behind, device
-----------------------------------------------------------------------------
(* The table of families: what is neither refetched nor a known gap is not *)
(* shown.                                                                  *)
LEMMA FamilyOfTable ==
  ASSUME NEW f \in Followed
  PROVE  /\ Family(f) \in [shows : SUBSET Domain, gaps : SUBSET Domain,
                           refetchedBy : SUBSET Domain, aborts : BOOLEAN]
         /\ Family(f).shows \ Family(f).gaps \subseteq Family(f).refetchedBy
<1>1. f \in {"calendar", "reports", "cancellations"}
  BY FollowedAssumption DEF Shows
<1>2. /\ Prefixes["jobs"] = JobFamilies
      /\ Prefixes["schedule"] = ScheduleFamilies
      /\ Prefixes["finance"] = FinanceFamilies
  BY DEF Prefixes
<1>3. CASE f = "calendar"
  <2>1. Shows[f] = {"jobs", "schedule", "workforce"}
    BY <1>3 DEF Shows
  <2>2. f \in Prefixes["jobs"] /\ f \in Prefixes["schedule"] /\ <<f, "workforce">> \in Unfollowed
    BY <1>2, <1>3 DEF JobFamilies, ScheduleFamilies, Unfollowed
  <2> QED  BY <2>1, <2>2 DEF Family, Domain
<1>4. CASE f = "reports"
  <2>1. Shows[f] = {"jobs", "schedule", "workforce", "finance"}
    BY <1>4 DEF Shows
  <2>2. /\ f \in Prefixes["finance"]
        /\ \A d \in {"jobs", "schedule", "workforce"} : <<f, d>> \in Unfollowed
    BY <1>2, <1>4 DEF FinanceFamilies, Unfollowed
  <2> QED  BY <2>1, <2>2 DEF Family, Domain
<1>5. CASE f = "cancellations"
  <2>1. Shows[f] = {"jobs", "finance"}
    BY <1>5 DEF Shows
  <2>2. f \in Prefixes["finance"] /\ <<f, "jobs">> \in Unfollowed
    BY <1>2, <1>5 DEF FinanceFamilies, Unfollowed
  <2> QED  BY <2>1, <2>2 DEF Family, Domain
<1> QED  BY <1>1, <1>3, <1>4, <1>5

LEMMA InitSound ==
  ASSUME Init, BoundAssumption
  PROVE  Sound
<1>1. Zero \in Revisions /\ \A d \in Domain : Zero[d] = 0
  BY DEF Zero, Revisions
<1>2. TypeOK
  <2>1. tx \in [Session -> Transaction]
    BY DEF Init, Closed, Transaction
  <2>2. family \in [shows : SUBSET Domain, gaps : SUBSET Domain, refetchedBy : SUBSET Domain,
                   aborts : BOOLEAN]
    BY FamilyOfTable DEF Init
  <2>3. cache \in Query /\ disk \in Query /\ fetch \in [at : {"none", "asked", "read"}, seen : Revisions]
    BY <1>1 DEF Init, Empty, Query, NoFetch
  <2>4. /\ stored \in [has : BOOLEAN, rev : Revisions]
        /\ sync \in [at : {"idle", "read", "refetching", "invalidated"}, next : Revisions]
    BY <1>1 DEF Init, NotStored, NoSync
  <2>5. /\ rev \in Revisions /\ content \in Revisions /\ silent \in Revisions
        /\ mounted \in BOOLEAN /\ restoring \in BOOLEAN /\ blind \in BOOLEAN
    BY <1>1 DEF Init
  <2>6. begun \in 0 .. MaxCommits /\ restarts \in 0 .. MaxRestarts
    BY DEF Init, BoundAssumption
  <2> QED  BY <2>1, <2>2, <2>3, <2>4, <2>5, <2>6 DEF TypeOK, Transaction
<1>3. ServerSound
  BY <1>1 DEF Init, ServerSound, RevisionsTellChanges, Closed
<1>4. DeviceSound
  BY FamilyOfTable DEF Init, DeviceSound, FamilySound, Restoring, NotStored, NoSync
<1> QED  BY <1>2, <1>3, <1>4 DEF Sound
-----------------------------------------------------------------------------
(* Requests.                                                               *)

LEMMA BeginSound ==
  ASSUME Sound, BoundAssumption, NEW p \in Session, NEW r \in Request, Begin(p, r)
  PROVE  Sound'
<1> DEFINE s == {d \in r.changes \ r.bumps : <<r.name, d>> \in Unannounced}
           t == [content |-> r.changes \cup r.bumps, bumps |-> r.bumps, silent |-> s]
<1>1. /\ begun < MaxCommits /\ begun' = begun + 1
      /\ tx' = [tx EXCEPT ![p] = t]
      /\ UNCHANGED <<rev, content, silent, device>>
  BY DEF Begin
<1>2. Told(r)
  BY RequestsTold
<1>3. /\ t \in Transaction
      /\ t.content = t.bumps \cup t.silent /\ t.bumps \cap t.silent = {}
  BY <1>2 DEF Told, Transaction
<1> HIDE DEF t
<1>4. /\ tx' \in [Session -> Transaction]
      /\ tx'[p] = t /\ \A q \in Session \ {p} : tx'[q] = tx[q]
  BY <1>1, <1>3 DEF Sound, TypeOK, Transaction
<1>5. TypeOK'
  <2>1. begun' \in 0 .. MaxCommits
    BY <1>1 DEF Sound, TypeOK, BoundAssumption
  <2> QED  BY <1>1, <1>4, <2>1 DEF Sound, TypeOK, Transaction, device
<1>6. ServerSound'
  BY <1>1, <1>3, <1>4 DEF Sound, ServerSound, RevisionsTellChanges
<1>7. DeviceSound'
  BY <1>1, <1>5, LaterReflexive, DeviceKept DEF Sound, TypeOK
<1> QED  BY <1>5, <1>6, <1>7 DEF Sound

LEMMA CloseType ==
  ASSUME TypeOK, NEW p \in Session, tx' = [tx EXCEPT ![p] = Closed]
  PROVE  /\ tx' \in [Session -> Transaction]
         /\ tx'[p] = Closed /\ \A q \in Session \ {p} : tx'[q] = tx[q]
BY DEF TypeOK, Transaction, Closed

LEMMA CommitSound ==
  ASSUME Sound, NEW p \in Session, Commit(p)
  PROVE  Sound'
<1>1. /\ rev' = Plus(rev, tx[p].bumps)
      /\ content' = Plus(content, tx[p].content)
      /\ silent' = Plus(silent, tx[p].silent)
      /\ tx' = [tx EXCEPT ![p] = Closed]
      /\ UNCHANGED <<begun, device>>
  BY DEF Commit
<1>2. tx[p] \in Transaction
  BY DEF Sound, TypeOK, Transaction
<1>3. /\ tx[p].bumps \in SUBSET Domain
      /\ tx[p].content \in SUBSET Domain
      /\ tx[p].silent \in SUBSET Domain
  BY <1>2 DEF Transaction
<1>4. rev \in Revisions /\ content \in Revisions /\ silent \in Revisions
  BY DEF Sound, TypeOK
<1>5. /\ rev' \in Revisions /\ content' \in Revisions /\ silent' \in Revisions
      /\ Later(rev, rev')
  BY <1>1, <1>3, <1>4, PlusGrows
<1>6. /\ tx' \in [Session -> Transaction]
      /\ tx'[p] = Closed /\ \A q \in Session \ {p} : tx'[q] = tx[q]
  BY <1>1, CloseType DEF Sound
<1>7. TypeOK'
  BY <1>1, <1>5, <1>6 DEF Sound, TypeOK, Transaction, device
<1>8. ServerSound'
  <2>1. ASSUME NEW d \in Domain
        PROVE  content'[d] = rev'[d] + silent'[d]
    <3>1. /\ content[d] = rev[d] + silent[d]
          /\ rev[d] \in Nat /\ silent[d] \in Nat /\ content[d] \in Nat
      BY <1>4 DEF Sound, ServerSound, RevisionsTellChanges, Revisions
    <3>2. /\ d \in tx[p].content <=> d \in tx[p].bumps \/ d \in tx[p].silent
          /\ ~(d \in tx[p].bumps /\ d \in tx[p].silent)
      BY DEF Sound, ServerSound
    <3>3. /\ rev'[d] = IF d \in tx[p].bumps THEN rev[d] + 1 ELSE rev[d]
          /\ content'[d] = IF d \in tx[p].content THEN content[d] + 1 ELSE content[d]
          /\ silent'[d] = IF d \in tx[p].silent THEN silent[d] + 1 ELSE silent[d]
      BY <1>1 DEF Plus
    <3> QED  BY <3>1, <3>2, <3>3
  <2>2. Closed.content = Closed.bumps \cup Closed.silent /\ Closed.bumps \cap Closed.silent = {}
    BY DEF Closed
  <2> QED  BY <1>6, <2>1, <2>2 DEF Sound, ServerSound, RevisionsTellChanges
<1>9. DeviceSound'
  BY <1>1, <1>5, <1>7, DeviceKept DEF Sound
<1> QED  BY <1>7, <1>8, <1>9 DEF Sound

LEMMA RollbackSound ==
  ASSUME Sound, NEW p \in Session, Rollback(p)
  PROVE  Sound'
<1>1. /\ tx' = [tx EXCEPT ![p] = Closed]
      /\ UNCHANGED <<rev, content, silent, begun, device>>
  BY DEF Rollback
<1>2. /\ tx' \in [Session -> Transaction]
      /\ tx'[p] = Closed /\ \A q \in Session \ {p} : tx'[q] = tx[q]
  BY <1>1, CloseType DEF Sound
<1>3. TypeOK'
  BY <1>1, <1>2 DEF Sound, TypeOK, Transaction, device
<1>4. ServerSound'
  <2>1. Closed.content = Closed.bumps \cup Closed.silent /\ Closed.bumps \cap Closed.silent = {}
    BY DEF Closed
  <2> QED  BY <1>1, <1>2, <2>1 DEF Sound, ServerSound, RevisionsTellChanges
<1>5. DeviceSound'
  BY <1>1, <1>3, LaterReflexive, DeviceKept DEF Sound, TypeOK
<1> QED  BY <1>3, <1>4, <1>5 DEF Sound
-----------------------------------------------------------------------------
(* The device.                                                             *)

Fetch == [at : {"none", "asked", "read"}, seen : Revisions]

Stored == [has : BOOLEAN, rev : Revisions]

Synchronisation == [at : {"idle", "read", "refetching", "invalidated"}, next : Revisions]

LEMMA DeviceType ==
  ASSUME TypeOK, UNCHANGED <<server, family>>, mounted' \in BOOLEAN, restoring' \in BOOLEAN,
         cache' \in Query,
         fetch' \in Fetch, disk' \in Query, stored' \in Stored, sync' \in Synchronisation,
         blind' \in BOOLEAN, restarts' \in 0 .. MaxRestarts
  PROVE  TypeOK'
BY DEF TypeOK, Fetch, Stored, Synchronisation, server

LEMMA Constants ==
  /\ Zero \in Revisions
  /\ NoFetch \in Fetch /\ NoFetch.at = "none"
  /\ Ask \in Fetch /\ Ask.at = "asked"
  /\ NoSync \in Synchronisation /\ NoSync.at = "idle"
<1>1. Zero \in Revisions
  BY DEF Zero, Revisions
<1> QED  BY <1>1 DEF NoFetch, Ask, NoSync, Fetch, Synchronisation

LEMMA AwaitedType ==
  ASSUME Sound
  PROVE  /\ Awaited \in Synchronisation
         /\ Awaited.next = sync.next
         /\ sync.at = "idle" <=> Awaited.at = "idle"
         /\ sync.at \in {"refetching", "invalidated"} <=> Awaited.at \in {"refetching", "invalidated"}
BY DEF Sound, TypeOK, Awaited, Synchronisation

(* A step that leaves the revisions alone, and by which the query gets      *)
(* nothing that it had not.                                                 *)
LEMMA QueryKept ==
  ASSUME Sound, UNCHANGED <<server, family, restoring, stored, blind>>,
         restoring => cache' = cache /\ fetch' = NoFetch /\ sync'.at # "refetching",
         sync'.next = sync.next, sync.at = "idle" <=> sync'.at = "idle",
         sync.at \in {"refetching", "invalidated"} <=> sync'.at \in {"refetching", "invalidated"},
         \/ cache' = cache
         \/ fetch.at = "read" /\ cache'.seen = fetch.seen,
         fetch'.at = "read" => fetch' = fetch \/ fetch'.seen = Announced
  PROVE  DeviceSound'
<1>1. stored.rev \in Revisions /\ sync.next \in Revisions
  BY DEF Sound, TypeOK
<1>2. /\ stored.has => Later(stored.rev, rev) /\ ~Behind(Announced, stored.rev)
      /\ sync.at # "idle" => Later(sync.next, rev) /\ ~Behind(Announced, sync.next)
  BY <1>1, NotBehind DEF Sound, DeviceSound
<1>3. /\ stored'.has => Later(stored'.rev, rev')
      /\ sync'.at # "idle" => Later(sync'.next, rev')
      /\ sync'.at \in {"refetching", "invalidated"} => stored'.has
  BY <1>2 DEF Sound, DeviceSound, server
<1>4. \A v \in {stored.rev, sync.next} :
        /\ (cache.has /\ cache.valid => ~Behind(cache.seen, v))
           /\ (fetch.at = "read" => ~Behind(fetch.seen, v))
           /\ ~Behind(Announced, v)
           => /\ cache' = cache \/ ~Behind(cache'.seen, v)
              /\ fetch'.at = "read" => ~Behind(fetch'.seen, v)
  BY DEF Behind
<1>5. \A u, v : Behind(u, v)' <=> Behind(u', v')
  BY DEF Behind
<1>6. ~blind' /\ stored'.has =>
       /\ cache'.has /\ cache'.valid => ~Behind(cache.seen, stored.rev)'
       /\ fetch'.at = "read" => ~Behind(fetch.seen, stored.rev)'
  BY <1>2, <1>4 DEF Sound, DeviceSound, Behind
<1>7. ~blind' /\ sync'.at \in {"refetching", "invalidated"} =>
       /\ cache'.has /\ cache'.valid => ~Behind(cache.seen, sync.next)'
       /\ fetch'.at = "read" => ~Behind(fetch.seen, sync.next)'
  BY <1>2, <1>4 DEF Sound, DeviceSound, Behind
<1>8. FamilySound' /\ Restoring'
  BY DEF Sound, DeviceSound, FamilySound, Restoring
<1> QED  BY <1>3, <1>6, <1>7, <1>8 DEF DeviceSound

LEMMA QuerySound ==
  ASSUME Sound, Mount \/ Unmount \/ Read \/ Arrive \/ Fail
  PROVE  Sound'
<1>1. /\ UNCHANGED <<server, family, restoring, stored, blind, disk, restarts>>
      /\ mounted' \in BOOLEAN
  BY DEF Mount, Unmount, Read, Arrive, Fail, Sound, TypeOK
<1>2. cache \in Query /\ fetch \in Fetch /\ sync \in Synchronisation /\ disk \in Query
      /\ stored \in Stored /\ blind \in BOOLEAN /\ restarts \in 0 .. MaxRestarts
  BY DEF Sound, TypeOK, Fetch, Synchronisation, Stored
<1>3. sync' \in {sync, Awaited}
  BY DEF Mount, Unmount, Read, Arrive, Fail
<1>4. /\ sync' \in Synchronisation
      /\ sync'.next = sync.next
      /\ sync.at = "idle" <=> sync'.at = "idle"
      /\ sync.at \in {"refetching", "invalidated"} <=> sync'.at \in {"refetching", "invalidated"}
  BY <1>2, <1>3, AwaitedType
<1>5. /\ fetch' \in Fetch
      /\ fetch'.at = "read" => fetch' = fetch \/ fetch'.seen = Announced
  <2>1. CASE Read
    BY <2>1, AnnouncedIsRev DEF Read, Fetch
  <2>2. CASE Mount \/ Unmount \/ Arrive \/ Fail
    BY <2>2, <1>2, Constants DEF Mount, Unmount, Arrive, Fail
  <2> QED  BY <2>1, <2>2
<1>6. /\ cache' \in Query
      /\ cache' = cache \/ (fetch.at = "read" /\ cache'.seen = fetch.seen)
  <2>1. CASE Arrive
    BY <2>1, <1>2 DEF Arrive, Query, Fetch
  <2>2. CASE Mount \/ Unmount \/ Read \/ Fail
    BY <2>2, <1>2 DEF Mount, Unmount, Read, Fail
  <2> QED  BY <2>1, <2>2
<1>7. restoring => cache' = cache /\ fetch' = NoFetch /\ sync'.at # "refetching"
  <2> SUFFICES ASSUME restoring
               PROVE  cache' = cache /\ fetch' = NoFetch /\ sync'.at # "refetching"
    OBVIOUS
  <2>1. fetch = NoFetch /\ sync.at # "refetching"
    BY DEF Sound, DeviceSound, Restoring
  <2>2. Awaited = sync
    BY <2>1 DEF Awaited
  <2>3. Mount \/ Unmount
    BY <2>1, Constants DEF Read, Arrive, Fail
  <2> QED  BY <2>1, <2>2, <2>3, Constants DEF Mount, Unmount
<1>8. DeviceSound'
  BY <1>1, <1>4, <1>5, <1>6, <1>7, QueryKept
<1>9. TypeOK'
  BY <1>1, <1>2, <1>4, <1>5, <1>6, DeviceType DEF Sound, TypeOK
<1> QED  BY <1>1, <1>8, <1>9, ServerKept DEF Sound

LEMMA PersistSound ==
  ASSUME Sound, Persist
  PROVE  Sound'
<1>1. disk' = cache /\ UNCHANGED <<server, family, mounted, restoring, cache, fetch, stored, sync, restarts, blind>>
  BY DEF Persist
<1>2. TypeOK'
  BY <1>1 DEF Sound, TypeOK, server
<1>3. DeviceSound'
  BY <1>1 DEF Sound, DeviceSound, FamilySound, Restoring, Behind, server
<1> QED  BY <1>1, <1>2, <1>3, ServerKept DEF Sound

(* A restart forgets what is in memory.                                     *)
LEMMA RestartSound ==
  ASSUME Sound, BoundAssumption, Restart
  PROVE  Sound'
<1>1. /\ restarts < MaxRestarts /\ restarts' = restarts + 1
      /\ mounted' = FALSE /\ restoring' = TRUE
      /\ cache' = Empty /\ fetch' = NoFetch /\ sync' = NoSync
      /\ UNCHANGED <<server, family, disk, stored, blind>>
  BY DEF Restart
<1>2. TypeOK'
  <2>1. restarts' \in 0 .. MaxRestarts
    BY <1>1 DEF Sound, TypeOK, BoundAssumption
  <2>2. Empty \in Query
    BY Constants DEF Empty, Query
  <2>3. disk \in Query /\ stored \in Stored /\ blind \in BOOLEAN
    BY DEF Sound, TypeOK, Stored
  <2> QED  BY <1>1, <2>1, <2>2, <2>3, Constants, DeviceType DEF Sound
<1>3. DeviceSound'
  <2>1. stored'.has => Later(stored'.rev, rev')
    BY <1>1 DEF Sound, DeviceSound, server
  <2>2. FamilySound' /\ Restoring'
    BY <1>1, Constants DEF Sound, DeviceSound, FamilySound, Restoring
  <2> QED  BY <1>1, <2>1, <2>2, Constants DEF DeviceSound, Empty
<1> QED  BY <1>1, <1>2, <1>3, ServerKept DEF Sound

(* The copy on the disk may be behind the revisions that are stored, or are *)
(* about to be: then blind says so.                                         *)
LEMMA RestoreSound ==
  ASSUME Sound, Restore
  PROVE  Sound'
<1>1. /\ restoring /\ restoring' = FALSE
      /\ cache' = disk
      /\ fetch' = IF mounted /\ (~disk.has \/ ~disk.valid) THEN Ask ELSE fetch
      /\ blind' = (blind \/ (/\ disk.has /\ disk.valid
                             /\ \/ stored.has /\ Behind(disk.seen, stored.rev)
                                \/ sync.at = "invalidated" /\ Behind(disk.seen, sync.next)))
      /\ UNCHANGED <<server, family, mounted, disk, stored, sync, restarts>>
  BY DEF Restore
<1>2. fetch = NoFetch /\ sync.at # "refetching"
  BY <1>1 DEF Sound, DeviceSound, Restoring
<1>3. fetch' \in Fetch /\ fetch'.at # "read"
  BY <1>1, <1>2, Constants
<1>4. TypeOK'
  <2>1. blind' \in BOOLEAN
    BY <1>1
  <2>2. disk \in Query /\ stored \in Stored /\ sync \in Synchronisation /\ mounted \in BOOLEAN
        /\ restarts \in 0 .. MaxRestarts
    BY DEF Sound, TypeOK, Stored, Synchronisation
  <2> QED  BY <1>1, <1>3, <2>1, <2>2, DeviceType DEF Sound
<1>5. DeviceSound'
  <2>1. FamilySound' /\ Restoring'
    BY <1>1 DEF Sound, DeviceSound, FamilySound, Restoring
  <2>2. /\ stored'.has => Later(stored'.rev, rev')
        /\ sync'.at # "idle" => Later(sync'.next, rev')
        /\ sync'.at \in {"refetching", "invalidated"} => stored'.has
    BY <1>1 DEF Sound, DeviceSound, server
  <2>3. ~blind' /\ disk.has /\ disk.valid =>
          /\ stored.has => ~Behind(disk.seen, stored.rev)
          /\ sync.at = "invalidated" => ~Behind(disk.seen, sync.next)
    BY <1>1
  <2>4. ~blind' /\ stored'.has =>
          /\ cache'.has /\ cache'.valid => ~Behind(cache.seen, stored.rev)'
          /\ fetch'.at = "read" => ~Behind(fetch.seen, stored.rev)'
    BY <1>1, <1>3, <2>3 DEF Behind
  <2>5. ~blind' /\ sync'.at \in {"refetching", "invalidated"} =>
          /\ cache'.has /\ cache'.valid => ~Behind(cache.seen, sync.next)'
          /\ fetch'.at = "read" => ~Behind(fetch.seen, sync.next)'
    BY <1>1, <1>2, <1>3, <2>3 DEF Behind
  <2> QED  BY <2>1, <2>2, <2>4, <2>5 DEF DeviceSound
<1> QED  BY <1>1, <1>4, <1>5, ServerKept DEF Sound
-----------------------------------------------------------------------------
(* Synchronisation.                                                        *)

LEMMA SyncReadSound ==
  ASSUME Sound, SyncRead
  PROVE  Sound'
<1>1. /\ sync' = [at |-> "read", next |-> rev]
      /\ UNCHANGED <<server, family, mounted, restoring, cache, fetch, disk, stored, restarts, blind>>
  BY DEF SyncRead
<1>2. TypeOK'
  BY <1>1 DEF Sound, TypeOK, server
<1>3. Later(sync'.next, rev')
  BY <1>1, LaterReflexive DEF Sound, TypeOK, server
<1>4. DeviceSound'
  BY <1>1, <1>3 DEF Sound, DeviceSound, FamilySound, Restoring, Behind, server
<1> QED  BY <1>1, <1>2, <1>4, ServerKept DEF Sound

(* The first synchronisation invalidates nothing: data that is older than   *)
(* what it stores is told by blind.                                         *)
LEMMA SyncFirstSound ==
  ASSUME Sound, SyncFirst
  PROVE  Sound'
<1>1. /\ sync.at = "read"
      /\ stored' = [has |-> TRUE, rev |-> sync.next]
      /\ sync' = NoSync
      /\ blind' = (blind \/ (cache.has /\ Behind(cache.seen, sync.next))
                         \/ (fetch.at = "read" /\ Behind(fetch.seen, sync.next)))
      /\ UNCHANGED <<server, family, mounted, restoring, cache, fetch, disk, restarts>>
  BY DEF SyncFirst
<1>2. TypeOK'
  <2>1. stored' \in Stored
    BY <1>1 DEF Sound, TypeOK, Stored
  <2>2. blind' \in BOOLEAN
    BY <1>1
  <2> QED  BY <1>1, <2>1, <2>2, Constants, DeviceType DEF Sound, TypeOK, Fetch
<1>3. DeviceSound'
  BY <1>1, Constants DEF Sound, DeviceSound, FamilySound, Restoring, Behind, server
<1> QED  BY <1>1, <1>2, <1>3, ServerKept DEF Sound

(* Nothing the device shows has changed, or it is marked, asked for again,  *)
(* or told by blind.                                                        *)
LEMMA SyncInvalidateSound ==
  ASSUME Sound, SyncInvalidate
  PROVE  Sound'
<1>1. /\ sync.at = "read" /\ stored.has
      /\ UNCHANGED <<server, family, mounted, restoring, disk, stored, restarts>>
  BY DEF SyncInvalidate
<1>2. sync \in Synchronisation /\ fetch \in Fetch /\ cache \in Query /\ blind \in BOOLEAN
  BY DEF Sound, TypeOK, Synchronisation, Fetch
<1>3. /\ sync' \in Synchronisation
      /\ sync'.next = sync.next /\ sync'.at \in {"refetching", "invalidated"}
  BY <1>2 DEF SyncInvalidate, Synchronisation
<1>4. Later(sync.next, rev)
  BY <1>1 DEF Sound, DeviceSound
<1>5. CASE ChangedDomains \cap family.refetchedBy = {}
  <2>1. UNCHANGED <<cache, fetch, blind>>
    BY <1>5 DEF SyncInvalidate
  <2>2. TypeOK'
    BY <1>1, <1>3, <2>1 DEF Sound, TypeOK, server, Synchronisation
  <2>3. \A d \in family.shows \ family.gaps : sync.next[d] = stored.rev[d]
    BY <1>5 DEF ChangedDomains, Sound, TypeOK, DeviceSound, FamilySound
  <2>4. \A v : Behind(v, sync.next) => Behind(v, stored.rev)
    BY <2>3 DEF Behind
  <2>5. FamilySound' /\ Restoring'
    BY <1>1, <1>2, <1>5, <2>1 DEF Sound, DeviceSound, FamilySound, Restoring, SyncInvalidate,
                                  Synchronisation
  <2>6. DeviceSound'
    BY <1>1, <1>3, <1>4, <2>1, <2>3, <2>5 DEF Sound, DeviceSound, Behind, server
  <2> QED  BY <1>1, <2>2, <2>6, ServerKept DEF Sound
<1>6. CASE ChangedDomains \cap family.refetchedBy # {}
  <2> DEFINE again == Active /\ (cache.has \/ fetch.at = "none")
             c == [cache EXCEPT !.valid = FALSE]
  <2>1. /\ cache' = c
        /\ fetch' = IF again THEN Ask ELSE fetch
        /\ blind' = (blind \/ (~again /\ fetch.at = "read" /\ Behind(fetch.seen, sync.next)))
    BY <1>6 DEF SyncInvalidate
  <2>2. c \in Query /\ ~c.valid
    BY <1>2 DEF Query
  <2> HIDE DEF c
  <2>3. TypeOK'
    <3>1. fetch' \in Fetch
      BY <1>2, <2>1, Constants
    <3>2. blind' \in BOOLEAN
      BY <2>1
    <3> QED  BY <1>1, <1>3, <2>1, <2>2, <3>1, <3>2, DeviceType DEF Sound, TypeOK, Stored
  <2>4. fetch'.at = "read" =>
          /\ fetch' = fetch
          /\ ~blind' => ~blind /\ ~Behind(fetch.seen, sync.next)
    BY <2>1, Constants
  <2>5. FamilySound' /\ Restoring'
    <3>1. restoring => ~again /\ sync'.at # "refetching"
      BY <1>2, <1>6 DEF SyncInvalidate, Active, Synchronisation
    <3>2. [Empty EXCEPT !.valid = FALSE] = Empty
      <4>1. Empty \in Query /\ Empty.valid = FALSE
        BY Constants DEF Empty, Query
      <4> QED  BY <4>1 DEF Query
    <3> QED  BY <1>1, <2>1, <3>1, <3>2 DEF Sound, DeviceSound, FamilySound, Restoring, c
  <2>6. DeviceSound'
    BY <1>1, <1>3, <1>4, <2>1, <2>2, <2>4, <2>5 DEF Sound, DeviceSound, Behind, server
  <2> QED  BY <1>1, <2>3, <2>6, ServerKept DEF Sound
<1> QED  BY <1>5, <1>6

LEMMA SyncStoreSound ==
  ASSUME Sound, SyncStore
  PROVE  Sound'
<1>1. /\ sync.at = "invalidated"
      /\ stored' = [has |-> TRUE, rev |-> sync.next]
      /\ sync' = NoSync
      /\ UNCHANGED <<server, family, mounted, restoring, cache, fetch, disk, restarts, blind>>
  BY DEF SyncStore
<1>2. TypeOK'
  <2>1. stored' \in Stored
    BY <1>1 DEF Sound, TypeOK, Stored
  <2> QED  BY <1>1, <2>1, Constants, DeviceType DEF Sound, TypeOK, Fetch
<1>3. DeviceSound'
  BY <1>1, Constants DEF Sound, DeviceSound, FamilySound, Restoring, Behind, server
<1> QED  BY <1>1, <1>2, <1>3, ServerKept DEF Sound
-----------------------------------------------------------------------------
(* Theorems.                                                               *)

LEMMA NextSound ==
  ASSUME Sound, BoundAssumption, [Next]_vars
  PROVE  Sound'
<1>1. CASE \E p \in Session, r \in Request : Begin(p, r)
  BY <1>1, BeginSound
<1>2. CASE \E p \in Session : Commit(p)
  BY <1>2, CommitSound
<1>3. CASE \E p \in Session : Rollback(p)
  BY <1>3, RollbackSound
<1>4. CASE Mount \/ Unmount \/ Read \/ Arrive \/ Fail
  BY <1>4, QuerySound
<1>5. CASE Persist
  BY <1>5, PersistSound
<1>6. CASE Restart \/ Restore
  BY <1>6, RestartSound, RestoreSound
<1>7. CASE SyncRead
  BY <1>7, SyncReadSound
<1>8. CASE SyncFirst
  BY <1>8, SyncFirstSound
<1>9. CASE SyncInvalidate
  BY <1>9, SyncInvalidateSound
<1>10. CASE SyncStore
  BY <1>10, SyncStoreSound
<1>11. CASE UNCHANGED vars
  <2>1. UNCHANGED <<rev, content, silent, tx, begun>>
    BY <1>11 DEF vars, server
  <2>2. UNCHANGED <<family, mounted, restoring, cache, fetch, disk, stored, sync, restarts, blind>>
    BY <1>11 DEF vars, device
  <2>3. TypeOK'
    BY <2>1, <2>2 DEF Sound, TypeOK
  <2>4. ServerSound' /\ DeviceSound'
    BY <2>1, <2>2, <2>3, LaterReflexive, DeviceKept, ServerKept
       DEF Sound, TypeOK, device, server
  <2> QED  BY <2>3, <2>4 DEF Sound
<1> QED
  BY <1>1, <1>2, <1>3, <1>4, <1>5, <1>6, <1>7, <1>8, <1>9, <1>10, <1>11 DEF Next

(* ... so it holds always.                                                  *)
THEOREM AlwaysSound == Spec => []Sound
<1>1. Init => Sound
  BY InitSound, BoundAssumption
<1>2. Sound /\ [Next]_vars => Sound'
  BY NextSound, BoundAssumption
<1> QED  BY <1>1, <1>2, PTL DEF Spec

(* Every reachable state has its types.                                    *)
THEOREM SyncTypes == Spec => []TypeOK
<1>1. Sound => TypeOK
  BY DEF Sound
<1> QED  BY <1>1, AlwaysSound, PTL

(* The revisions count every change that the table of requests announces,  *)
(* for any number of sessions: what is read after them is never older.     *)
THEOREM RevisionsTell == Spec => []RevisionsTellChanges
<1>1. Sound => RevisionsTellChanges
  BY DEF Sound, ServerSound
<1> QED  BY <1>1, AlwaysSound, PTL

(* Beyond the four known ways, and apart from the parts of a family that   *)
(* the code does not follow, no change is ever missed by a device, for any *)
(* requests, lost answers, restarts and synchronisations in between.       *)
THEOREM NothingMissed == Spec => []NothingElseMissed
<1>1. Sound => NothingElseMissed
  BY DEF Sound, DeviceSound, NothingElseMissed
<1> QED  BY <1>1, AlwaysSound, PTL
=============================================================================
