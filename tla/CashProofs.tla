----------------------------- MODULE CashProofs -----------------------------
(***************************************************************************)
(* Proofs about the way of the cash, from the customer to the owner: of     *)
(* CashSettlement, for any jobs, tenders and requests, and of Finance, for  *)
(* any payments, amounts, events, files and sessions.  The two modules      *)
(* share no state; what each has proved is of its own specification.        *)
(***************************************************************************)
EXTENDS CashSettlement, Finance, SumTheorems
-----------------------------------------------------------------------------
(* From the customer: CashSettlement.                                       *)

(* What is true of a request: it holds the lock of its job from the moment *)
(* it has waited for it, it goes on only for a completed job and an event  *)
(* that is new, and the number it has taken is the next one as long as it  *)
(* holds the sequence.                                                     *)
RequestSound(r) ==
  /\ cashTx[r].at \in {"locked", "checked", "numbered"} => jobLock[cashTx[r].job] = r
  /\ cashTx[r].at \in {"checked", "numbered"} =>
       /\ job[cashTx[r].job] = "completed"
       /\ receipt[cashTx[r].job][cashTx[r].event] = 0
  /\ cashTx[r].at = "numbered" => seqLock = r /\ cashTx[r].number = next
  /\ cashTx[r].answer # "none" => cashTx[r].at = "done"
  /\ cashTx[r].answer = "recorded" => cashTx[r].number # 0

Number(p) == receipt[p[1]][p[2]]

(* The numbers, without counting them.                                     *)
Numbered ==
  /\ \A p, q \in Receipts : Number(p) = Number(q) => p = q
  /\ \A p \in Receipts : Number(p) < next
  /\ \A n \in 1 .. next - 1 : \E p \in Receipts : Number(p) = n

(* The inductive invariant.                                                *)
SettlementSound ==
  /\ SettlementTypeOK
  /\ \A r \in Request : RequestSound(r)
  /\ PaidIsReceipted
  /\ OneReceiptPerEvent
  /\ Numbered
-----------------------------------------------------------------------------
(* A step of one request that writes no rows.                              *)
OthersKept(r) ==
  \A q \in Request \ {r} :
    /\ cashTx'[q] = cashTx[q]
    /\ \A j \in Job : jobLock[j] = q => jobLock'[j] = q
    /\ seqLock = q => seqLock' = q

LEMMA OneRequest ==
  ASSUME SettlementSound, SettlementTypeOK', NEW r \in Request, OthersKept(r), RequestSound(r)',
         UNCHANGED <<job, payment, receipt, next>>,
         cashTx'[r].answer = "recorded" => receipt[cashTx'[r].job][cashTx'[r].event] = cashTx'[r].number
  PROVE  SettlementSound'
<1>1. ASSUME NEW q \in Request, q # r
      PROVE  RequestSound(q)'
  <2>1. cashTx[q].job \in Job
    BY DEF SettlementSound, SettlementTypeOK, CashRequest
  <2>2. RequestSound(q)
    BY DEF SettlementSound
  <2>3. /\ cashTx'[q] = cashTx[q]
        /\ jobLock[cashTx[q].job] = q => jobLock'[cashTx[q].job] = q
        /\ seqLock = q => seqLock' = q
    BY <1>1, <2>1 DEF OthersKept
  <2> QED  BY <2>2, <2>3 DEF RequestSound
<1>2. PaidIsReceipted' /\ Numbered'
  BY DEF SettlementSound, PaidIsReceipted, Numbered, Receipts, Number
<1>3. OneReceiptPerEvent'
  BY DEF SettlementSound, OneReceiptPerEvent, OthersKept
<1> QED  BY <1>1, <1>2, <1>3 DEF SettlementSound
-----------------------------------------------------------------------------
(* The end of a request.                                                   *)
Ended(r, t, answer, number) ==
  /\ t.at = "done"
  /\ t.job = cashTx[r].job
  /\ t.event = cashTx[r].event
  /\ t.answer = answer
  /\ t.number = number

LEMMA SettlementStepType ==
  ASSUME SettlementTypeOK, NEW r \in Request, NEW t \in CashRequest, cashTx' = [cashTx EXCEPT ![r] = t]
  PROVE  /\ cashTx' \in [Request -> CashRequest]
         /\ cashTx'[r] = t
         /\ \A q \in Request \ {r} : cashTx'[q] = cashTx[q]
  BY DEF SettlementTypeOK

LEMMA FinishEnds ==
  ASSUME SettlementTypeOK, CashConstants, NEW r \in Request, NEW answer \in Answer,
         NEW number \in Nat, Finish(r, answer, number)
  PROVE  /\ cashTx' \in [Request -> CashRequest]
         /\ jobLock' \in [Job -> Request \cup {Nobody}]
         /\ seqLock' \in Request \cup {Nobody}
         /\ Ended(r, cashTx'[r], answer, number)
         /\ OthersKept(r)
<1> DEFINE t == [cashTx[r] EXCEPT !.at = "done", !.seen = "unpaid",
                              !.answer = answer, !.number = number]
<1>1. cashTx[r] \in CashRequest
  BY DEF SettlementTypeOK
<1>2. t \in CashRequest /\ Ended(r, t, answer, number)
  BY <1>1 DEF CashRequest, Stage, Ended
<1>3. cashTx' = [cashTx EXCEPT ![r] = t]
  BY DEF Finish
<1> HIDE DEF t
<1>4. /\ cashTx' \in [Request -> CashRequest]
      /\ cashTx'[r] = t
      /\ \A q \in Request \ {r} : cashTx'[q] = cashTx[q]
  BY <1>2, <1>3, SettlementStepType
<1>5. /\ jobLock' = [j \in Job |-> IF jobLock[j] = r THEN Nobody ELSE jobLock[j]]
      /\ seqLock' = IF seqLock = r THEN Nobody ELSE seqLock
  BY DEF Finish, Release
<1>6. /\ jobLock' \in [Job -> Request \cup {Nobody}]
      /\ seqLock' \in Request \cup {Nobody}
  BY <1>5 DEF SettlementTypeOK
<1>7. \A q \in Request \ {r} :
        /\ \A j \in Job : jobLock[j] = q => jobLock'[j] = q
        /\ seqLock = q => seqLock' = q
  BY <1>5
<1> QED  BY <1>2, <1>4, <1>6, <1>7 DEF OthersKept

LEMMA RollbackSettlementSound ==
  ASSUME SettlementSound, CashConstants, NEW r \in Request, NEW answer \in Answer \ {"recorded"},
         Rollback(r, answer)
  PROVE  SettlementSound'
<1>1. Finish(r, answer, 0) /\ UNCHANGED <<job, payment, receipt, next>>
  BY DEF Rollback
<1>2. /\ cashTx' \in [Request -> CashRequest]
      /\ jobLock' \in [Job -> Request \cup {Nobody}]
      /\ seqLock' \in Request \cup {Nobody}
      /\ Ended(r, cashTx'[r], answer, 0)
      /\ OthersKept(r)
  BY <1>1, FinishEnds DEF SettlementSound
<1>3. SettlementTypeOK'
  BY <1>1, <1>2 DEF SettlementSound, SettlementTypeOK
<1>4. RequestSound(r)' /\ cashTx'[r].answer # "recorded"
  BY <1>2 DEF RequestSound, Ended
<1> QED  BY <1>1, <1>2, <1>3, <1>4, OneRequest
-----------------------------------------------------------------------------
(* The lock of the job keeps its last status away from those who have      *)
(* read the one before.                                                    *)
LEMMA LastStatusSound ==
  ASSUME SettlementSound, CashConstants, NEW j \in Job, Complete(j) \/ ApproveCancellation(j)
  PROVE  SettlementSound'
<1>1. PICK status \in {"completed", "cancelled"} :
        /\ job' = [job EXCEPT ![j] = status]
        /\ status = "cancelled" => jobLock[j] = Nobody
        /\ UNCHANGED <<payment, receipt, next, jobLock, seqLock, cashTx>>
  BY DEF Complete, ApproveCancellation
<1>2. /\ job' \in [Job -> {"under_way", "completed", "cancelled"}]
      /\ \A i \in Job : job'[i] = job[i] \/ (i = j /\ job'[i] = status)
      /\ \A i \in Job : job[i] # "under_way" => job'[i] # "under_way"
  BY <1>1 DEF SettlementSound, SettlementTypeOK
<1>3. SettlementTypeOK'
  BY <1>1, <1>2 DEF SettlementSound, SettlementTypeOK
<1>4. ASSUME NEW r \in Request
      PROVE  RequestSound(r)'
  <2>1. cashTx[r].job \in Job /\ RequestSound(r) /\ r # Nobody
    BY DEF SettlementSound, SettlementTypeOK, CashRequest, CashConstants
  <2>2. cashTx[r].at \in {"checked", "numbered"} => job'[cashTx[r].job] = "completed"
    BY <2>1, <1>1, <1>2 DEF RequestSound
  <2> QED  BY <2>1, <2>2, <1>1 DEF RequestSound
<1>5. PaidIsReceipted'
  BY <1>1, <1>2 DEF SettlementSound, PaidIsReceipted
<1>6. OneReceiptPerEvent' /\ Numbered'
  BY <1>1 DEF SettlementSound, OneReceiptPerEvent, Numbered, Receipts, Number
<1> QED  BY <1>3, <1>4, <1>5, <1>6 DEF SettlementSound

(* The steps that only change what a request knows, or lock.               *)
LEMMA AskSound ==
  ASSUME SettlementSound, NEW r \in Request, Ask(r)
  PROVE  SettlementSound'
<1>1. PICK j \in Job, e \in Tender :
        cashTx' = [cashTx EXCEPT ![r] = [cashTx[r] EXCEPT !.at = "asked", !.job = j, !.event = e,
                                              !.seen = payment[j]]]
  BY DEF Ask
<1> DEFINE t == [cashTx[r] EXCEPT !.at = "asked", !.job = j, !.event = e, !.seen = payment[j]]
<1>2. /\ cashTx[r] \in CashRequest
      /\ cashTx[r].at = "new"
      /\ RequestSound(r)
      /\ payment[j] \in {"unpaid", "paid"}
  BY DEF SettlementSound, SettlementTypeOK, Ask, At
<1>3. t \in CashRequest /\ t.at = "asked" /\ t.answer = cashTx[r].answer
  BY <1>2 DEF CashRequest, Stage
<1>4. cashTx[r].answer = "none"
  BY <1>2 DEF RequestSound
<1> HIDE DEF t
<1>5. /\ cashTx' \in [Request -> CashRequest]
      /\ cashTx'[r] = t
      /\ \A q \in Request \ {r} : cashTx'[q] = cashTx[q]
  BY <1>1, <1>3, SettlementStepType DEF SettlementSound, t
<1>6. UNCHANGED <<job, payment, receipt, next, jobLock, seqLock>>
  BY DEF Ask
<1>7. SettlementTypeOK' /\ OthersKept(r)
  BY <1>5, <1>6 DEF SettlementSound, SettlementTypeOK, OthersKept
<1>8. RequestSound(r)' /\ cashTx'[r].answer # "recorded"
  BY <1>3, <1>4, <1>5 DEF RequestSound
<1> QED  BY <1>6, <1>7, <1>8, OneRequest

LEMMA LockJobSound ==
  ASSUME SettlementSound, CashConstants, NEW r \in Request, LockJob(r)
  PROVE  SettlementSound'
<1> DEFINE t == [cashTx[r] EXCEPT !.at = "locked"]
<1>1. /\ cashTx[r] \in CashRequest
      /\ cashTx[r].at = "asked"
      /\ RequestSound(r)
      /\ jobLock[cashTx[r].job] = Nobody
  BY DEF SettlementSound, SettlementTypeOK, LockJob, At
<1>2. /\ t \in CashRequest
      /\ t.at = "locked"
      /\ t.answer = cashTx[r].answer
      /\ t.job = cashTx[r].job
      /\ cashTx[r].job \in Job
  BY <1>1 DEF CashRequest, Stage
<1>3. cashTx[r].answer = "none"
  BY <1>1 DEF RequestSound
<1>4. cashTx' = [cashTx EXCEPT ![r] = t]
  BY DEF LockJob, SettlementSound, SettlementTypeOK
<1> HIDE DEF t
<1>5. /\ cashTx' \in [Request -> CashRequest]
      /\ cashTx'[r] = t
      /\ \A q \in Request \ {r} : cashTx'[q] = cashTx[q]
  BY <1>2, <1>4, SettlementStepType DEF SettlementSound
<1>6. /\ jobLock' = [jobLock EXCEPT ![cashTx[r].job] = r]
      /\ UNCHANGED <<job, payment, receipt, next, seqLock>>
  BY DEF LockJob
<1>7. /\ jobLock' \in [Job -> Request \cup {Nobody}]
      /\ jobLock'[cashTx[r].job] = r
      /\ \A q \in Request, j \in Job : jobLock[j] = q => jobLock'[j] = q
  BY <1>1, <1>2, <1>6 DEF SettlementSound, SettlementTypeOK, CashConstants
<1>8. SettlementTypeOK' /\ OthersKept(r)
  BY <1>5, <1>6, <1>7 DEF SettlementSound, SettlementTypeOK, OthersKept
<1>9. RequestSound(r)' /\ cashTx'[r].answer # "recorded"
  BY <1>2, <1>3, <1>5, <1>7 DEF RequestSound
<1> QED  BY <1>6, <1>8, <1>9, OneRequest

LEMMA CheckSound ==
  ASSUME SettlementSound, CashConstants, NEW r \in Request, Check(r)
  PROVE  SettlementSound'
<1> DEFINE n == receipt[cashTx[r].job][cashTx[r].event]
<1>1. /\ cashTx[r] \in CashRequest
      /\ cashTx[r].at = "locked"
      /\ RequestSound(r)
  BY DEF SettlementSound, SettlementTypeOK, Check, At
<1>2. cashTx[r].job \in Job /\ cashTx[r].event \in Tender
  BY <1>1 DEF CashRequest
<1>3. n \in Nat
  BY <1>2 DEF SettlementSound, SettlementTypeOK
<1>4. CASE n # 0
  <2>1. Finish(r, "recorded", n) /\ UNCHANGED <<job, payment, receipt, next>>
    BY <1>4 DEF Check
  <2>2. "recorded" \in Answer
    BY DEF Answer
  <2> HIDE DEF n
  <2>3. /\ cashTx' \in [Request -> CashRequest]
        /\ jobLock' \in [Job -> Request \cup {Nobody}]
        /\ seqLock' \in Request \cup {Nobody}
        /\ Ended(r, cashTx'[r], "recorded", n)
        /\ OthersKept(r)
    BY <1>3, <2>1, <2>2, FinishEnds DEF SettlementSound
  <2>4. SettlementTypeOK'
    BY <2>1, <2>3 DEF SettlementSound, SettlementTypeOK
  <2>5. RequestSound(r)' /\ receipt[cashTx'[r].job][cashTx'[r].event] = cashTx'[r].number
    BY <1>4, <2>3 DEF RequestSound, Ended, n
  <2> QED  BY <2>1, <2>3, <2>4, <2>5, OneRequest
<1>5. CASE n = 0 /\ \E answer \in {"already_paid", "rejected"} : Rollback(r, answer)
  BY <1>5, RollbackSettlementSound DEF Answer
<1>6. CASE /\ n = 0 /\ job[cashTx[r].job] = "completed"
           /\ cashTx' = [cashTx EXCEPT ![r].at = "checked"]
           /\ UNCHANGED <<job, payment, receipt, next, jobLock, seqLock>>
  <2> DEFINE t == [cashTx[r] EXCEPT !.at = "checked"]
  <2>1. /\ t \in CashRequest
        /\ t.at = "checked"
        /\ t.answer = cashTx[r].answer
        /\ t.job = cashTx[r].job
        /\ t.event = cashTx[r].event
    BY <1>1 DEF CashRequest, Stage
  <2>2. cashTx[r].answer = "none" /\ jobLock[cashTx[r].job] = r
    BY <1>1 DEF RequestSound
  <2>3. cashTx' = [cashTx EXCEPT ![r] = t]
    BY <1>6 DEF SettlementSound, SettlementTypeOK
  <2> HIDE DEF t
  <2>4. /\ cashTx' \in [Request -> CashRequest]
        /\ cashTx'[r] = t
        /\ \A q \in Request \ {r} : cashTx'[q] = cashTx[q]
    BY <2>1, <2>3, SettlementStepType DEF SettlementSound
  <2>5. SettlementTypeOK' /\ OthersKept(r)
    BY <1>6, <2>4 DEF SettlementSound, SettlementTypeOK, OthersKept
  <2>6. RequestSound(r)' /\ cashTx'[r].answer # "recorded"
    BY <1>6, <2>1, <2>2, <2>4 DEF RequestSound
  <2> QED  BY <1>6, <2>5, <2>6, OneRequest
<1> QED  BY <1>4, <1>5, <1>6 DEF Check

LEMMA TakeNumberSound ==
  ASSUME SettlementSound, CashConstants, NEW r \in Request, TakeNumber(r)
  PROVE  SettlementSound'
<1> DEFINE t == [cashTx[r] EXCEPT !.at = "numbered", !.number = next]
<1>1. /\ cashTx[r] \in CashRequest
      /\ cashTx[r].at = "checked"
      /\ RequestSound(r)
      /\ seqLock = Nobody
      /\ next \in Nat \ {0}
  BY DEF SettlementSound, SettlementTypeOK, TakeNumber, At
<1>2. /\ t \in CashRequest
      /\ t.at = "numbered"
      /\ t.number = next
      /\ t.answer = cashTx[r].answer
      /\ t.job = cashTx[r].job
      /\ t.event = cashTx[r].event
  BY <1>1 DEF CashRequest, Stage
<1>3. /\ cashTx[r].answer = "none"
      /\ jobLock[cashTx[r].job] = r
      /\ job[cashTx[r].job] = "completed"
      /\ receipt[cashTx[r].job][cashTx[r].event] = 0
  BY <1>1 DEF RequestSound
<1>4. cashTx' = [cashTx EXCEPT ![r] = t]
  BY DEF TakeNumber, SettlementSound, SettlementTypeOK
<1> HIDE DEF t
<1>5. /\ cashTx' \in [Request -> CashRequest]
      /\ cashTx'[r] = t
      /\ \A q \in Request \ {r} : cashTx'[q] = cashTx[q]
  BY <1>2, <1>4, SettlementStepType DEF SettlementSound
<1>6. seqLock' = r /\ UNCHANGED <<job, payment, receipt, next, jobLock>>
  BY DEF TakeNumber
<1>7. SettlementTypeOK' /\ OthersKept(r)
  BY <1>1, <1>5, <1>6 DEF SettlementSound, SettlementTypeOK, OthersKept, CashConstants
<1>8. RequestSound(r)' /\ cashTx'[r].answer # "recorded"
  BY <1>2, <1>3, <1>5, <1>6 DEF RequestSound
<1> QED  BY <1>6, <1>7, <1>8, OneRequest
-----------------------------------------------------------------------------
(* The commit: the new receipt has the next number.                        *)
LEMMA CommitSettlementSound ==
  ASSUME SettlementSound, CashConstants, NEW r \in Request, Commit(r)
  PROVE  SettlementSound'
<1> DEFINE j == cashTx[r].job
           e == cashTx[r].event
<1>1. /\ cashTx[r] \in CashRequest
      /\ cashTx[r].at = "numbered"
      /\ RequestSound(r)
      /\ next \in Nat \ {0}
  BY DEF SettlementSound, SettlementTypeOK, Commit, At
<1>2. j \in Job /\ e \in Tender /\ cashTx[r].number = next
  BY <1>1 DEF CashRequest, RequestSound
<1>3. jobLock[j] = r /\ job[j] = "completed" /\ receipt[j][e] = 0 /\ seqLock = r
  BY <1>1 DEF RequestSound
<1>4. /\ payment' = [payment EXCEPT ![j] = "paid"]
      /\ receipt' = [receipt EXCEPT ![j][e] = next]
      /\ next' = next + 1
      /\ Finish(r, "recorded", next)
      /\ job' = job
  BY <1>2 DEF Commit
<1> HIDE DEF j, e
<1>5. /\ cashTx' \in [Request -> CashRequest]
      /\ jobLock' \in [Job -> Request \cup {Nobody}]
      /\ seqLock' \in Request \cup {Nobody}
      /\ Ended(r, cashTx'[r], "recorded", next)
      /\ OthersKept(r)
  BY <1>1, <1>4, FinishEnds DEF SettlementSound, Answer
<1>6. /\ receipt' \in [Job -> [Tender -> Nat]]
      /\ receipt'[j][e] = next
      /\ \A i \in Job, f \in Tender : i # j \/ f # e => receipt'[i][f] = receipt[i][f]
  BY <1>1, <1>2, <1>4 DEF SettlementSound, SettlementTypeOK
<1>7. /\ payment' \in [Job -> {"unpaid", "paid"}]
      /\ payment'[j] = "paid"
      /\ \A i \in Job : i # j => payment'[i] = payment[i]
  BY <1>2, <1>4 DEF SettlementSound, SettlementTypeOK
<1>8. SettlementTypeOK'
  BY <1>1, <1>4, <1>5, <1>6, <1>7 DEF SettlementSound, SettlementTypeOK
<1>9. ASSUME NEW q \in Request
      PROVE  RequestSound(q)'
  <2>1. CASE q = r
    BY <2>1, <1>1, <1>5 DEF RequestSound, Ended
  <2>2. CASE q # r
    <3>1. cashTx'[q] = cashTx[q] /\ RequestSound(q) /\ cashTx[q].job \in Job /\ cashTx[q].event \in Tender
      BY <2>2, <1>5 DEF OthersKept, SettlementSound, SettlementTypeOK, CashRequest
    <3>2. jobLock[cashTx[q].job] = q => cashTx[q].job # j /\ jobLock'[cashTx[q].job] = q
      BY <2>2, <3>1, <1>3, <1>5 DEF OthersKept
    <3>3. cashTx[q].at # "numbered"
      BY <2>2, <3>1, <1>3 DEF RequestSound
    <3> QED  BY <3>1, <3>2, <3>3, <1>4, <1>6 DEF RequestSound
  <2> QED  BY <2>1, <2>2
<1>10. PaidIsReceipted'
  <2>1. ASSUME NEW i \in Job, NEW f \in Tender, receipt'[i][f] # 0
        PROVE  job'[i] # "under_way" /\ payment'[i] = "paid"
    BY <2>1, <1>3, <1>4, <1>6, <1>7 DEF SettlementSound, PaidIsReceipted
  <2>2. ASSUME NEW i \in Job, payment'[i] = "paid"
        PROVE  \E f \in Tender : receipt'[i][f] # 0
    <3>1. CASE i = j
      BY <3>1, <1>1, <1>2, <1>6
    <3>2. CASE i # j
      <4>1. PICK f \in Tender : receipt[i][f] # 0
        BY <2>2, <3>2, <1>7 DEF SettlementSound, PaidIsReceipted
      <4> QED  BY <4>1, <3>2, <1>6
    <3> QED  BY <3>1, <3>2
  <2> QED  BY <2>1, <2>2 DEF PaidIsReceipted
<1>11. OneReceiptPerEvent'
  <2>1. ASSUME NEW q \in Request, cashTx'[q].answer = "recorded"
        PROVE  receipt'[cashTx'[q].job][cashTx'[q].event] = cashTx'[q].number
    <3>1. CASE q = r
      BY <3>1, <1>5, <1>6 DEF Ended, j, e
    <3>2. CASE q # r
      <4>1. /\ cashTx'[q] = cashTx[q]
            /\ cashTx[q].job \in Job
            /\ cashTx[q].event \in Tender
            /\ receipt[cashTx[q].job][cashTx[q].event] = cashTx[q].number
        BY <2>1, <3>2, <1>5 DEF OthersKept, SettlementSound, SettlementTypeOK, CashRequest, OneReceiptPerEvent
      <4>2. cashTx[q].job # j \/ cashTx[q].event # e
        BY <4>1, <1>3, <2>1, <3>2 DEF SettlementSound, RequestSound
      <4> QED  BY <4>1, <4>2, <1>6
    <3> QED  BY <3>1, <3>2
  <2> QED  BY <2>1 DEF OneReceiptPerEvent
<1>12. \A p \in Job \X Tender :
         /\ p # <<j, e>> => Number(p)' = Number(p)
         /\ p = <<j, e>> => Number(p)' = next
  BY <1>6 DEF Number
<1>13. Receipts' = Receipts \cup {<<j, e>>} /\ <<j, e>> \notin Receipts
  BY <1>1, <1>2, <1>3, <1>12 DEF Receipts, Number
<1>14. \A p \in Receipts : p # <<j, e>> /\ p \in Job \X Tender /\ Number(p) \in Nat
  BY <1>13 DEF Receipts, Number, SettlementSound, SettlementTypeOK
<1>15. Numbered'
  <2>1. \A p, q \in Receipts' : Number(p)' = Number(q)' => p = q
    BY <1>1, <1>2, <1>12, <1>13, <1>14 DEF SettlementSound, Numbered
  <2>2. \A p \in Receipts' : Number(p)' < next'
    BY <1>1, <1>2, <1>4, <1>12, <1>13, <1>14 DEF SettlementSound, Numbered
  <2>3. ASSUME NEW n \in 1 .. next' - 1
        PROVE  \E p \in Receipts' : Number(p)' = n
    <3>1. CASE n = next
      BY <3>1, <1>2, <1>12, <1>13
    <3>2. CASE n # next
      <4>1. n \in 1 .. next - 1
        BY <3>2, <1>1, <1>4
      <4>2. PICK p \in Receipts : Number(p) = n
        BY <4>1 DEF SettlementSound, Numbered
      <4> QED  BY <4>2, <1>12, <1>13, <1>14
    <3> QED  BY <3>1, <3>2
  <2> QED  BY <2>1, <2>2, <2>3 DEF Numbered
<1> QED  BY <1>8, <1>9, <1>10, <1>11, <1>15 DEF SettlementSound
-----------------------------------------------------------------------------
LEMMA SettlementInitSound == SettlementInit => SettlementSound
<1> SUFFICES ASSUME SettlementInit  PROVE SettlementSound
  OBVIOUS
<1>1. Fresh \in CashRequest /\ Fresh.at = "new" /\ Fresh.answer = "none"
  <2>1. (CHOOSE j \in Job : TRUE) \in Job /\ (CHOOSE e \in Tender : TRUE) \in Tender
    BY CashConstants
  <2> QED  BY <2>1 DEF Fresh, CashRequest, Stage, Answer
<1> HIDE DEF Fresh
<1>2. /\ cashTx = [r \in Request |-> Fresh]
      /\ \A j \in Job, e \in Tender : receipt[j][e] = 0
      /\ next = 1
      /\ \A j \in Job : payment[j] = "unpaid"
  BY DEF SettlementInit
<1>3. SettlementTypeOK
  BY <1>1, <1>2 DEF SettlementInit, SettlementTypeOK
<1>4. \A r \in Request : RequestSound(r)
  BY <1>1, <1>2 DEF RequestSound
<1>5. PaidIsReceipted /\ OneReceiptPerEvent
  BY <1>1, <1>2 DEF PaidIsReceipted, OneReceiptPerEvent
<1>6. Numbered
  BY <1>2 DEF Numbered, Receipts
<1> QED  BY <1>3, <1>4, <1>5, <1>6 DEF SettlementSound

LEMMA SettlementStepSound ==
  ASSUME SettlementSound, [SettlementNext]_settlementVars
  PROVE  SettlementSound'
<1>1. CASE UNCHANGED settlementVars
  BY <1>1 DEF settlementVars, SettlementSound, SettlementTypeOK, RequestSound, PaidIsReceipted, OneReceiptPerEvent,
              Numbered, Receipts, Number
<1>2. ASSUME NEW r \in Request, Fail(r)
      PROVE  SettlementSound'
  BY <1>2, RollbackSettlementSound, CashConstants DEF Fail, Answer
<1> QED
  BY <1>1, <1>2, CashConstants, LastStatusSound, AskSound, LockJobSound, CheckSound,
     TakeNumberSound, CommitSettlementSound
  DEF SettlementNext

LEMMA SettlementAlwaysSound == SettlementSpec => []SettlementSound
  BY SettlementInitSound, SettlementStepSound, PTL DEF SettlementSpec
-----------------------------------------------------------------------------
(* In every reachable state the rows, locks and requests have their types. *)
THEOREM CashTypes == SettlementSpec => []SettlementTypeOK
<1>1. SettlementSound => SettlementTypeOK
  BY DEF SettlementSound
<1> QED  BY <1>1, SettlementAlwaysSound, PTL

(* A payment is paid exactly when there is a transaction with an invoice,  *)
(* whatever fails in record_cash, and its job is under way no longer: it   *)
(* is completed, or a late review has cancelled it.  While a request is    *)
(* about to issue a receipt, its job is completed.                         *)
THEOREM PaidTogether == SettlementSpec => []PaidWithReceipt
<1>1. SettlementSound => PaidWithReceipt
  BY DEF SettlementSound, RequestSound, PaidWithReceipt, RecordedIsCompleted
<1> QED  BY <1>1, SettlementAlwaysSound, PTL

(* However often a device repeats an event, it is told one receipt.        *)
THEOREM OneReceipt == SettlementSpec => []OneReceiptPerEvent
<1>1. SettlementSound => OneReceiptPerEvent
  BY DEF SettlementSound
<1> QED  BY <1>1, SettlementAlwaysSound, PTL

(* Numbers that are distinct and fill 1 .. next - 1 are as many as that.   *)
LEMMA NumberedIsConsecutive ==
  ASSUME SettlementSound
  PROVE  NumbersAreConsecutive
<1>1. next \in Nat \ {0} /\ Numbered
  BY DEF SettlementSound, SettlementTypeOK
<1>2. \A p \in Receipts : Number(p) \in 1 .. next - 1
  BY <1>1 DEF Receipts, Number, Numbered, SettlementSound, SettlementTypeOK
<1>3. {Number(p) : p \in Receipts} = 1 .. next - 1
  BY <1>1, <1>2 DEF Numbered
<1> DEFINE f == [n \in 1 .. next - 1 |-> CHOOSE p \in Receipts : Number(p) = n]
<1>4. \A n \in 1 .. next - 1 : f[n] \in Receipts /\ Number(f[n]) = n
  BY <1>1 DEF Numbered
<1>5. \A p \in Receipts : f[Number(p)] = p
  BY <1>1, <1>2, <1>4 DEF Numbered
<1> HIDE DEF f
<1>6. f \in [1 .. next - 1 -> Receipts]
  BY <1>4 DEF f
<1>7. f \in Bijection(1 .. next - 1, Receipts)
  <2>1. \A a, b \in 1 .. next - 1 : f[a] = f[b] => a = b
    BY <1>4
  <2>2. \A p \in Receipts : \E n \in 1 .. next - 1 : f[n] = p
    BY <1>2, <1>5
  <2> QED  BY <1>6, <2>1, <2>2 DEF Bijection, Injection, Surjection, IsInjective
<1>8. Cardinality(Receipts) = next - 1
  <2>1. next - 1 \in Nat
    BY <1>1
  <2>2. ExistsBijection(1 .. next - 1, Receipts)
    BY <1>7 DEF ExistsBijection
  <2> QED  BY <2>1, <2>2, FS_CountingElements
<1> QED  BY <1>3, <1>8 DEF NumbersAreConsecutive, Number

(* The invoices of a year are numbered from 1 without gaps or repetitions, *)
(* for any number of devices and failures.                                 *)
THEOREM NumbersConsecutive == SettlementSpec => []NumbersAreConsecutive
  BY SettlementAlwaysSound, NumberedIsConsecutive, PTL

(* What a step tells a device.                                             *)
LEMMA Told ==
  ASSUME SettlementTypeOK, NEW r \in Request, NEW q \in Request, NEW answer \in Answer,
         NEW number \in Nat, Finish(q, answer, number), cashTx'[r].answer # cashTx[r].answer
  PROVE  r = q /\ cashTx'[r].answer = answer
<1>1. Ended(q, cashTx'[q], answer, number) /\ OthersKept(q)
  BY FinishEnds, CashConstants
<1> QED  BY <1>1 DEF Ended, OthersKept

LEMMA Untold ==
  ASSUME SettlementTypeOK, NEW r \in Request, NEW q \in Request,
         Ask(q) \/ LockJob(q) \/ TakeNumber(q) \/ cashTx' = [cashTx EXCEPT ![q].at = "checked"]
  PROVE  cashTx'[r].answer = cashTx[r].answer
<1>1. cashTx[q] \in CashRequest
  BY DEF SettlementTypeOK
<1>2. CASE Ask(q)
  <2>1. PICK j \in Job, e \in Tender :
          cashTx' = [cashTx EXCEPT ![q] = [@ EXCEPT !.at = "asked", !.job = j, !.event = e,
                                            !.seen = payment[j]]]
    BY <1>2 DEF Ask
  <2> DEFINE t == [cashTx[q] EXCEPT !.at = "asked", !.job = j, !.event = e,
                                !.seen = payment[j]]
  <2>2. t.answer = cashTx[q].answer
    BY <1>1 DEF CashRequest
  <2>3. cashTx' = [cashTx EXCEPT ![q] = t]
    BY <2>1
  <2> HIDE DEF t
  <2>4. cashTx'[q] = t /\ \A p \in Request \ {q} : cashTx'[p] = cashTx[p]
    BY <2>3 DEF SettlementTypeOK
  <2> QED  BY <2>2, <2>4
<1>3. CASE LockJob(q)
  BY <1>1, <1>3 DEF LockJob, SettlementTypeOK, CashRequest
<1>4. CASE TakeNumber(q)
  BY <1>1, <1>4 DEF TakeNumber, SettlementTypeOK, CashRequest
<1>5. CASE cashTx' = [cashTx EXCEPT ![q].at = "checked"]
  BY <1>1, <1>5 DEF SettlementTypeOK, CashRequest
<1> QED  BY <1>2, <1>3, <1>4, <1>5

(* A device that repeats a recorded event is not told that another payment *)
(* was made: record_cash looks for the event before it looks at the        *)
(* payment.                                                                *)
THEOREM RepetitionRecognised == SettlementSpec => RepetitionIsRecognised
<1> DEFINE ToldRightly ==
      \A r \in Request :
        /\ cashTx'[r].answer = "already_paid"
        /\ cashTx[r].answer # "already_paid"
        => receipt[cashTx[r].job][cashTx[r].event] = 0
<1>1. ASSUME SettlementSound, SettlementNext
      PROVE  ToldRightly
  <2> SUFFICES ASSUME NEW r \in Request, cashTx'[r].answer = "already_paid",
                      cashTx[r].answer # "already_paid"
               PROVE  receipt[cashTx[r].job][cashTx[r].event] = 0
    OBVIOUS
  <2>1. SettlementTypeOK
    BY <1>1 DEF SettlementSound
  <2>2. PICK q \in Request :
          \/ Ask(q) \/ LockJob(q) \/ Check(q) \/ TakeNumber(q) \/ Commit(q) \/ Fail(q)
    BY <1>1 DEF SettlementNext, Complete, ApproveCancellation
  <2>3. Check(q) \/ Commit(q) \/ Fail(q)
    BY <2>1, <2>2, Untold
  <2>4. cashTx[q] \in CashRequest
    BY <2>1 DEF SettlementTypeOK
  <2>5. CASE Commit(q)
    BY <2>1, <2>4, <2>5, Told DEF Commit, CashRequest, Answer
  <2>6. CASE Fail(q)
    BY <2>1, <2>6, Told DEF Fail, Rollback, Answer
  <2>7. CASE Check(q)
    <3> DEFINE n == receipt[cashTx[q].job][cashTx[q].event]
    <3>1. CASE n # 0
      <4>1. n \in Nat
        BY <2>1, <2>4 DEF SettlementTypeOK, CashRequest
      <4>2. Finish(q, "recorded", n)
        BY <2>7, <3>1 DEF Check
      <4> HIDE DEF n
      <4> QED  BY <4>1, <4>2, <2>1, Told DEF Answer
    <3>2. CASE n = 0
      <4>1. \/ \E answer \in {"already_paid", "rejected"} : Finish(q, answer, 0)
            \/ cashTx' = [cashTx EXCEPT ![q].at = "checked"]
        BY <2>7, <3>2 DEF Check, Rollback
      <4>2. \E answer \in {"already_paid", "rejected"} : Finish(q, answer, 0)
        BY <4>1, <2>1, Untold
      <4>3. r = q
        BY <4>2, <2>1, Told DEF Answer
      <4> QED  BY <3>2, <4>3
    <3> QED  BY <3>1, <3>2
  <2> QED  BY <2>3, <2>5, <2>6, <2>7
<1>2. SettlementSound /\ [SettlementNext]_settlementVars => [ToldRightly]_settlementVars
  BY <1>1
<1> QED  BY <1>2, SettlementAlwaysSound, PTL DEF SettlementSpec, RepetitionIsRecognised

(* Only the commit of a request writes receipts, and it holds the lock of  *)
(* its job since it found it completed.                                    *)
LEMMA ReceiptIsWritten ==
  ASSUME SettlementSound, SettlementNext, NEW j \in Job, NEW e \in Tender,
         receipt[j][e] = 0, receipt'[j][e] # 0
  PROVE  job[j] = "completed" /\ job'[j] = "completed"
<1>1. PICK r \in Request : Commit(r)
  BY DEF SettlementNext, Complete, ApproveCancellation, Ask, LockJob, Check, TakeNumber, Fail, Rollback
<1>2. cashTx[r] \in CashRequest /\ RequestSound(r) /\ cashTx[r].at = "numbered"
  BY <1>1 DEF SettlementSound, SettlementTypeOK, Commit, At
<1>3. receipt' = [receipt EXCEPT ![cashTx[r].job][cashTx[r].event] = cashTx[r].number] /\ job' = job
  BY <1>1 DEF Commit
<1>4. j = cashTx[r].job
  BY <1>2, <1>3 DEF SettlementSound, SettlementTypeOK, CashRequest
<1> QED  BY <1>2, <1>3, <1>4 DEF RequestSound

(* A receipt is issued only while its job is completed, for any number of  *)
(* devices, although record_cash reads the status early and a review that  *)
(* is late may cancel the job at any other time.                           *)
THEOREM CashOnlyForCompleted == SettlementSpec => CashForCompletedWork
<1> DEFINE Completed ==
      \A j \in Job, e \in Tender :
        receipt[j][e] = 0 /\ receipt'[j][e] # 0
          => job[j] = "completed" /\ job'[j] = "completed"
<1>1. SettlementSound /\ [SettlementNext]_settlementVars => [Completed]_settlementVars
  BY ReceiptIsWritten
<1> QED  BY <1>1, SettlementAlwaysSound, PTL DEF SettlementSpec, CashForCompletedWork
-----------------------------------------------------------------------------
(* To the owner: Finance.                                                   *)

(* A handover in progress: it locks collected payments in the order of      *)
(* their ids, and once it has checked the links it holds them all.          *)
HandoverSound(p) ==
  tx[p].kind = "handover" =>
    /\ tx[p].locked \subseteq tx[p].payments
    /\ tx[p].payments \subseteq collected
    /\ \A c \in tx[p].locked, d \in Missing(p) : c < d
    /\ tx[p].checked => Missing(p) = {} /\ \A c \in tx[p].payments : ~Linked(c)

LocksExclusive ==
  \A p, q \in Session : \A c \in Payment : Holds(p, c) /\ Holds(q, c) => p = q

CashSound == (\A p \in Session : HandoverSound(p)) /\ LocksExclusive

(* A request about a file: its expense is there, and what it was told of    *)
(* the storage is still so.                                                 *)
FileSound(p) ==
  /\ tx[p].kind = "upload" => expense[EvidenceOf[tx[p].file]].status # "none"
  /\ tx[p].kind \in {"asked", "confirm"} => object[tx[p].file] = tx[p].info

EvidenceSound(v) ==
  /\ evidence[v] # "none" => expense[EvidenceOf[v]].status # "none"
  /\ evidence[v] = "ready" =>
       object[v] = "valid" /\ expense[EvidenceOf[v]].evidence = "complete"

ReceiptSound(x) ==
  expense[x].receipt # NoEvidence =>
    EvidenceOf[expense[x].receipt] = x /\ evidence[expense[x].receipt] = "ready"

FilesSound ==
  /\ \A p \in Session : FileSound(p)
  /\ \A v \in Evidence : EvidenceSound(v)
  /\ \A x \in Expense : ReceiptSound(x)

(* The inductive invariant: the two halves of the module share nothing but  *)
(* the sessions.                                                            *)
Sound == TypeOK /\ CashSound /\ FilesSound
-----------------------------------------------------------------------------
(* Transactions.                                                            *)

LEMMA Kinds ==
  ASSUME TypeOK, NEW p \in Session
  PROVE  /\ tx[p].kind = "handover" => tx[p] \in Handover
         /\ tx[p].kind = "upload" => tx[p] \in Upload
         /\ tx[p].kind \in {"asked", "confirm"} => tx[p] \in Confirm
<1>1. tx[p] \in Transaction
  BY DEF TypeOK
<1>2. CASE tx[p] = Idle
  BY <1>2 DEF Idle
<1>3. CASE tx[p] \in Handover
  BY <1>3 DEF Handover
<1>4. CASE tx[p] \in Upload
  BY <1>4 DEF Upload
<1>5. CASE tx[p] \in Confirm
  BY <1>5 DEF Confirm
<1> QED  BY <1>1, <1>2, <1>3, <1>4, <1>5 DEF Transaction

LEMMA Step ==
  ASSUME TypeOK, NEW p \in Session, NEW t \in Transaction, tx' = [tx EXCEPT ![p] = t]
  PROVE  /\ tx' \in [Session -> Transaction]
         /\ tx'[p] = t
         /\ \A q \in Session \ {p} : tx'[q] = tx[q]
  BY DEF TypeOK

(* A session that begins or ends nothing about cash.                        *)
LEMMA CashUntouched ==
  ASSUME TypeOK, CashSound, NEW p \in Session, UNCHANGED <<rec, link>>,
         collected \subseteq collected', tx'[p].kind # "handover",
         \A q \in Session \ {p} : tx'[q] = tx[q]
  PROVE  CashSound'
<1>1. ASSUME NEW q \in Session
      PROVE  HandoverSound(q)'
  BY DEF CashSound, HandoverSound, Missing, Linked
<1>2. LocksExclusive'
  BY DEF CashSound, LocksExclusive, Holds
<1> QED  BY <1>1, <1>2 DEF CashSound

LEMMA FilesUntouched ==
  ASSUME FilesSound, NEW p \in Session, UNCHANGED files, FileSound(p)',
         \A q \in Session \ {p} : tx'[q] = tx[q]
  PROVE  FilesSound'
<1>1. ASSUME NEW q \in Session
      PROVE  FileSound(q)'
  BY DEF FilesSound, FileSound, files
<1>2. /\ \A v \in Evidence : EvidenceSound(v)'
      /\ \A x \in Expense : ReceiptSound(x)'
  BY DEF FilesSound, EvidenceSound, ReceiptSound, files
<1> QED  BY <1>1, <1>2 DEF FilesSound

LEMMA EndSound ==
  ASSUME Sound, NEW p \in Session, End(p)
  PROVE  /\ tx' \in [Session -> Transaction]
         /\ UNCHANGED cash => CashSound'
         /\ UNCHANGED files => FilesSound'
         /\ \A q \in Session \ {p} : tx'[q] = tx[q]
         /\ tx'[p].kind = "idle"
<1>1. /\ tx' \in [Session -> Transaction]
      /\ tx'[p] = Idle
      /\ \A q \in Session \ {p} : tx'[q] = tx[q]
  BY Step DEF Sound, End, Transaction
<1>2. tx'[p].kind = "idle" /\ FileSound(p)'
  BY <1>1 DEF Idle, FileSound
<1> QED  BY <1>1, <1>2, CashUntouched, FilesUntouched DEF Sound, cash
-----------------------------------------------------------------------------
(* The inductive invariant holds in the beginning ...                       *)
THEOREM InitSound == CashAssumption /\ EvidenceAssumption /\ Init => Sound
<1> SUFFICES ASSUME CashAssumption, EvidenceAssumption, Init
             PROVE  Sound
  OBVIOUS
<1>1. TypeOK
  <2>1. rec \in [Event -> CashReconciliation]
    BY DEF Init, NoReconciliation, CashReconciliation, Sums
  <2>2. expense \in [Expense -> ExpenseRow]
    BY DEF Init, NoExpense, ExpenseRow
  <2>3. tx \in [Session -> Transaction]
    BY DEF Init, Transaction
  <2> QED  BY <2>1, <2>2, <2>3 DEF Init, TypeOK
<1>2. \A p \in Session : tx[p].kind = "idle"
  BY DEF Init, Idle
<1>3. CashSound
  BY <1>2 DEF CashSound, HandoverSound, LocksExclusive, Holds
<1>4. FilesSound
  <2>1. \A v \in Evidence : EvidenceSound(v)
    BY DEF Init, EvidenceSound
  <2>2. \A x \in Expense : ReceiptSound(x)
    BY DEF Init, ReceiptSound, NoExpense
  <2> QED  BY <1>2, <2>1, <2>2 DEF FilesSound, FileSound
<1> QED  BY <1>1, <1>3, <1>4 DEF Sound
-----------------------------------------------------------------------------
(* Handovers.                                                               *)

LEMMA RecordCashSound ==
  ASSUME Sound, NEW c \in Payment, RecordCash(c)
  PROVE  Sound'
<1>1. TypeOK'
  BY DEF Sound, RecordCash, TypeOK, files
<1>2. CashSound'
  BY DEF Sound, RecordCash, CashSound, HandoverSound, LocksExclusive, Holds, Missing, Linked
<1>3. FilesSound'
  BY DEF Sound, RecordCash, FilesSound, FileSound, EvidenceSound, ReceiptSound, files
<1> QED  BY <1>1, <1>2, <1>3 DEF Sound

LEMMA BeginReconciliationSound ==
  ASSUME Sound, NEW p \in Session, NEW e \in Event, NEW s, NEW payments \in SUBSET collected,
         NEW declared \in Declared, BeginReconciliation(p, e, s, payments, declared)
  PROVE  Sound'
<1> DEFINE t == [kind |-> "handover", event |-> e, payments |-> payments,
                 declared |-> declared, locked |-> {}, checked |-> FALSE]
<1>1. t \in Transaction
  BY DEF Sound, TypeOK, Transaction, Handover
<1>2. t.kind = "handover" /\ t.payments = payments /\ t.locked = {} /\ ~t.checked
  OBVIOUS
<1>3. tx' = [tx EXCEPT ![p] = t] /\ UNCHANGED <<cash, files>>
  BY DEF BeginReconciliation, Begin
<1> HIDE DEF t
<1>4. /\ tx' \in [Session -> Transaction]
      /\ tx'[p] = t
      /\ \A q \in Session \ {p} : tx'[q] = tx[q]
  BY <1>1, <1>3, Step DEF Sound
<1>5. TypeOK'
  BY <1>3, <1>4 DEF Sound, TypeOK, cash, files
<1>6. ASSUME NEW q \in Session
      PROVE  HandoverSound(q)'
  BY <1>2, <1>3, <1>4 DEF Sound, CashSound, HandoverSound, Missing, Linked, cash
<1>7. LocksExclusive'
  BY <1>2, <1>4 DEF Sound, CashSound, LocksExclusive, Holds
<1>8. FilesSound'
  <2>1. FileSound(p)'
    BY <1>2, <1>4 DEF FileSound
  <2> QED  BY <2>1, <1>3, <1>4, FilesUntouched DEF Sound
<1> QED  BY <1>5, <1>6, <1>7, <1>8 DEF Sound, CashSound

LEMMA LockPaymentSound ==
  ASSUME Sound, CashAssumption, NEW p \in Session, NEW c \in Payment, LockPayment(p, c)
  PROVE  Sound'
<1> DEFINE t == [tx[p] EXCEPT !.locked = @ \cup {c}]
<1>0. tx[p].kind = "handover" /\ NextRow(p, c) /\ \A q \in Session : ~Holds(q, c)
  BY DEF LockPayment
<1>1. tx[p] \in Handover
  BY <1>0, Kinds DEF Sound
<1>2. /\ t \in Handover
      /\ t.kind = "handover" /\ t.payments = tx[p].payments /\ t.checked = tx[p].checked
      /\ t.locked = tx[p].locked \cup {c}
  BY <1>1 DEF Handover
<1>3. tx' = [tx EXCEPT ![p] = t] /\ UNCHANGED <<cash, files>>
  BY DEF LockPayment
<1> HIDE DEF t
<1>4. /\ tx' \in [Session -> Transaction]
      /\ tx'[p] = t
      /\ \A q \in Session \ {p} : tx'[q] = tx[q]
  BY <1>2, <1>3, Step DEF Sound, Transaction
<1>5. TypeOK'
  BY <1>3, <1>4 DEF Sound, TypeOK, cash, files
<1>6. HandoverSound(p)'
  <2>1. HandoverSound(p) /\ tx[p].payments \subseteq Payment
    BY <1>1 DEF Sound, CashSound, Handover
  <2>2. Missing(p)' = Missing(p) \ {c} /\ c \in Missing(p)
    BY <1>0, <1>2, <1>4 DEF Missing, NextRow
  <2>3. ASSUME NEW d \in Missing(p)'
        PROVE  c < d
    <3>1. c <= d /\ d # c
      BY <1>0, <2>2 DEF NextRow
    <3>2. c \in Nat /\ d \in Nat
      BY <2>1, <2>2 DEF Missing, CashAssumption
    <3> QED  BY <3>1, <3>2
  <2>4. \A b \in tx'[p].locked, d \in Missing(p)' : b < d
    BY <1>0, <1>2, <1>4, <2>1, <2>2, <2>3 DEF HandoverSound
  <2>5. tx[p].checked => FALSE
    BY <1>0, <2>1, <2>2 DEF HandoverSound
  <2> QED  BY <1>0, <1>2, <1>3, <1>4, <2>1, <2>2, <2>4, <2>5 DEF HandoverSound, Missing, cash
<1>7. ASSUME NEW q \in Session, q # p
      PROVE  HandoverSound(q)'
  BY <1>7, <1>3, <1>4 DEF Sound, CashSound, HandoverSound, Missing, Linked, cash
<1>8. LocksExclusive'
  BY <1>0, <1>2, <1>4 DEF Sound, CashSound, LocksExclusive, Holds
<1>9. FilesSound'
  <2>1. FileSound(p)'
    BY <1>2, <1>4 DEF FileSound
  <2> QED  BY <2>1, <1>3, <1>4, FilesUntouched DEF Sound
<1> QED  BY <1>5, <1>6, <1>7, <1>8, <1>9 DEF Sound, CashSound

LEMMA CheckLinksSound ==
  ASSUME Sound, NEW p \in Session, CheckLinks(p)
  PROVE  Sound'
<1> DEFINE t == [tx[p] EXCEPT !.checked = TRUE]
<1>0. /\ tx[p].kind = "handover" /\ Missing(p) = {}
      /\ \A c \in tx[p].payments : ~Linked(c)
  BY DEF CheckLinks
<1>1. tx[p] \in Handover
  BY <1>0, Kinds DEF Sound
<1>2. /\ t \in Handover
      /\ t.kind = "handover" /\ t.payments = tx[p].payments /\ t.locked = tx[p].locked
  BY <1>1 DEF Handover
<1>3. tx' = [tx EXCEPT ![p] = t] /\ UNCHANGED <<cash, files>>
  BY DEF CheckLinks
<1> HIDE DEF t
<1>4. /\ tx' \in [Session -> Transaction]
      /\ tx'[p] = t
      /\ \A q \in Session \ {p} : tx'[q] = tx[q]
  BY <1>2, <1>3, Step DEF Sound, Transaction
<1>5. TypeOK'
  BY <1>3, <1>4 DEF Sound, TypeOK, cash, files
<1>6. ASSUME NEW q \in Session
      PROVE  HandoverSound(q)'
  BY <1>0, <1>2, <1>3, <1>4 DEF Sound, CashSound, HandoverSound, Missing, Linked, cash
<1>7. LocksExclusive'
  BY <1>0, <1>2, <1>4 DEF Sound, CashSound, LocksExclusive, Holds
<1>8. FilesSound'
  <2>1. FileSound(p)'
    BY <1>2, <1>4 DEF FileSound
  <2> QED  BY <2>1, <1>3, <1>4, FilesUntouched DEF Sound
<1> QED  BY <1>5, <1>6, <1>7, <1>8 DEF Sound, CashSound

(* The links that a commit adds are of payments whose rows it holds, so no  *)
(* other checked handover has them.                                         *)
LEMMA CommitReconciliationSound ==
  ASSUME Sound, NEW p \in Session, CommitReconciliation(p)
  PROVE  Sound'
<1> DEFINE t == tx[p]
           r == [status |-> "confirmed", payments |-> t.payments,
                 expected |-> Total(t.payments), declared |-> t.declared]
<1>0. /\ t.kind = "handover" /\ t.checked
      /\ rec' = [rec EXCEPT ![t.event] = r]
      /\ link' = link \cup ({t.event} \X t.payments)
      /\ End(p)
      /\ UNCHANGED <<collected, files>>
  BY DEF CommitReconciliation
<1>1. t \in Handover
  BY <1>0, Kinds DEF Sound
<1>2. t.event \in Event /\ t.payments \in SUBSET Payment /\ t.declared \in Declared
  BY <1>1 DEF Handover
<1>3. r \in CashReconciliation
  BY <1>2 DEF CashReconciliation, Sums
<1>4. /\ tx' \in [Session -> Transaction]
      /\ \A q \in Session \ {p} : tx'[q] = tx[q]
      /\ tx'[p].kind = "idle"
      /\ FilesSound'
  BY <1>0, EndSound
<1>5. TypeOK'
  <2>1. rec' \in [Event -> CashReconciliation]
    BY <1>0, <1>2, <1>3 DEF Sound, TypeOK
  <2>2. link' \subseteq Event \X Payment
    BY <1>0, <1>2 DEF Sound, TypeOK
  <2> QED  BY <1>0, <1>4, <2>1, <2>2 DEF Sound, TypeOK, files
<1>6. ASSUME NEW q \in Session
      PROVE  HandoverSound(q)'
  <2>1. CASE q = p
    BY <2>1, <1>4 DEF HandoverSound
  <2>2. CASE q # p
    <3>1. tx'[q] = tx[q] /\ HandoverSound(q) /\ HandoverSound(p)
      BY <2>2, <1>4 DEF Sound, CashSound
    <3>2. ASSUME tx[q].kind = "handover", tx[q].checked, NEW c \in tx[q].payments
          PROVE  ~Linked(c)'
      <4>1. tx[q] \in Handover
        BY <3>2, Kinds DEF Sound
      <4>2. c \in Payment /\ Holds(q, c) /\ ~Linked(c)
        BY <3>1, <3>2, <4>1 DEF HandoverSound, Missing, Holds, Handover
      <4>3. c \in t.payments => Holds(p, c)
        BY <3>1, <1>0 DEF HandoverSound, Missing, Holds
      <4>4. c \notin t.payments
        BY <4>2, <4>3, <2>2 DEF Sound, CashSound, LocksExclusive
      <4> QED  BY <4>2, <4>4, <1>0 DEF Linked
    <3> QED  BY <3>1, <3>2, <1>0 DEF HandoverSound, Missing
  <2> QED  BY <2>1, <2>2
<1>7. LocksExclusive'
  BY <1>4 DEF Sound, CashSound, LocksExclusive, Holds
<1> QED  BY <1>4, <1>5, <1>6, <1>7 DEF Sound, CashSound

LEMMA VoidReconciliationSound ==
  ASSUME Sound, NEW e \in Event, VoidReconciliation(e)
  PROVE  Sound'
<1>1. /\ rec' = [rec EXCEPT ![e].status = "voided"]
      /\ link' = link \ ({e} \X Payment)
      /\ UNCHANGED <<collected, files, tx>>
  BY DEF VoidReconciliation
<1>2. TypeOK'
  <2>1. [rec[e] EXCEPT !.status = "voided"] \in CashReconciliation
    BY DEF Sound, TypeOK, CashReconciliation
  <2>2. rec' \in [Event -> CashReconciliation]
    BY <1>1, <2>1 DEF Sound, TypeOK
  <2> QED  BY <1>1, <2>2 DEF Sound, TypeOK, files
<1>3. CashSound'
  <2>1. \A c : Linked(c)' => Linked(c)
    BY <1>1 DEF Linked
  <2> QED  BY <1>1, <2>1 DEF Sound, CashSound, HandoverSound, LocksExclusive, Holds, Missing
<1>4. FilesSound'
  BY <1>1 DEF Sound, FilesSound, FileSound, EvidenceSound, ReceiptSound, files
<1> QED  BY <1>2, <1>3, <1>4 DEF Sound

LEMMA AbortSound ==
  ASSUME Sound, NEW p \in Session, Abort(p)
  PROVE  Sound'
<1>1. End(p) /\ UNCHANGED <<cash, files>>
  BY DEF Abort
<1>2. tx' \in [Session -> Transaction] /\ CashSound' /\ FilesSound'
  BY <1>1, EndSound
<1>3. TypeOK'
  BY <1>1, <1>2 DEF Sound, TypeOK, cash, files
<1> QED  BY <1>2, <1>3 DEF Sound
-----------------------------------------------------------------------------
(* Expenses and files.                                                      *)

LEMMA CreateExpenseSound ==
  ASSUME Sound, EvidenceAssumption, NEW x \in Expense,
         NEW told \in {"complete", "missing_evidence", "not_required"}, CreateExpense(x, told)
  PROVE  Sound'
<1> DEFINE r == [status |-> "active", evidence |-> told, receipt |-> NoEvidence]
<1>1. /\ expense[x].status = "none"
      /\ expense' = [expense EXCEPT ![x] = r]
      /\ UNCHANGED <<cash, evidence, object, tx>>
  BY DEF CreateExpense
<1>2. r \in ExpenseRow /\ r.status = "active" /\ r.receipt = NoEvidence
  BY DEF ExpenseRow
<1> HIDE DEF r
<1>3. /\ expense' \in [Expense -> ExpenseRow]
      /\ expense'[x] = r
      /\ \A y \in Expense \ {x} : expense'[y] = expense[y]
  BY <1>1, <1>2 DEF Sound, TypeOK
<1>4. TypeOK'
  BY <1>1, <1>3 DEF Sound, TypeOK, cash
<1>5. CashSound'
  BY <1>1 DEF Sound, CashSound, HandoverSound, LocksExclusive, Holds, Missing, Linked, cash
<1>6. ASSUME NEW p \in Session
      PROVE  FileSound(p)'
  <2>1. tx[p].kind = "upload" => EvidenceOf[tx[p].file] \in Expense
    BY Kinds DEF Sound, Upload, EvidenceAssumption
  <2> QED  BY <2>1, <1>1, <1>2, <1>3 DEF Sound, FilesSound, FileSound
<1>7. ASSUME NEW v \in Evidence
      PROVE  EvidenceSound(v)'
  <2>1. EvidenceOf[v] \in Expense
    BY DEF EvidenceAssumption
  <2> QED  BY <2>1, <1>1, <1>2, <1>3 DEF Sound, TypeOK, FilesSound, EvidenceSound
<1>8. \A y \in Expense : ReceiptSound(y)'
  BY <1>1, <1>2, <1>3 DEF Sound, FilesSound, ReceiptSound
<1> QED  BY <1>4, <1>5, <1>6, <1>7, <1>8 DEF Sound, FilesSound

LEMMA VoidExpenseSound ==
  ASSUME Sound, EvidenceAssumption, NEW x \in Expense, VoidExpense(x)
  PROVE  Sound'
<1> DEFINE r == [expense[x] EXCEPT !.status = "voided"]
<1>1. /\ expense' = [expense EXCEPT ![x] = r]
      /\ UNCHANGED <<cash, evidence, object, tx>>
  BY DEF VoidExpense
<1>2. /\ r \in ExpenseRow
      /\ r.status = "voided" /\ r.evidence = expense[x].evidence /\ r.receipt = expense[x].receipt
  BY DEF Sound, TypeOK, ExpenseRow
<1> HIDE DEF r
<1>3. /\ expense' \in [Expense -> ExpenseRow]
      /\ expense'[x] = r
      /\ \A y \in Expense \ {x} : expense'[y] = expense[y]
  BY <1>1, <1>2 DEF Sound, TypeOK
<1>4. TypeOK'
  BY <1>1, <1>3 DEF Sound, TypeOK, cash
<1>5. CashSound'
  BY <1>1 DEF Sound, CashSound, HandoverSound, LocksExclusive, Holds, Missing, Linked, cash
<1>6. ASSUME NEW p \in Session
      PROVE  FileSound(p)'
  <2>1. tx[p].kind = "upload" => EvidenceOf[tx[p].file] \in Expense
    BY Kinds DEF Sound, Upload, EvidenceAssumption
  <2> QED  BY <2>1, <1>1, <1>2, <1>3 DEF Sound, FilesSound, FileSound
<1>7. ASSUME NEW v \in Evidence
      PROVE  EvidenceSound(v)'
  <2>1. EvidenceOf[v] \in Expense
    BY DEF EvidenceAssumption
  <2> QED  BY <2>1, <1>1, <1>2, <1>3 DEF Sound, FilesSound, EvidenceSound
<1>8. \A y \in Expense : ReceiptSound(y)'
  BY <1>1, <1>2, <1>3 DEF Sound, FilesSound, ReceiptSound
<1> QED  BY <1>4, <1>5, <1>6, <1>7, <1>8 DEF Sound, FilesSound

LEMMA BeginUploadSound ==
  ASSUME Sound, NEW p \in Session, NEW v \in Evidence, BeginUpload(p, v)
  PROVE  Sound'
<1> DEFINE t == [kind |-> "upload", file |-> v]
<1>1. t \in Transaction /\ t.kind = "upload" /\ t.file = v
  BY DEF Transaction, Upload
<1>2. /\ expense[EvidenceOf[v]].status = "active"
      /\ tx' = [tx EXCEPT ![p] = t]
      /\ UNCHANGED <<cash, files>>
  BY DEF BeginUpload, Begin
<1> HIDE DEF t
<1>3. /\ tx' \in [Session -> Transaction]
      /\ tx'[p] = t
      /\ \A q \in Session \ {p} : tx'[q] = tx[q]
  BY <1>1, <1>2, Step DEF Sound
<1>4. TypeOK'
  BY <1>2, <1>3 DEF Sound, TypeOK, cash, files
<1>5. FileSound(p)'
  BY <1>1, <1>2, <1>3 DEF FileSound, files
<1>6. CashSound'
  BY <1>1, <1>2, <1>3, CashUntouched DEF Sound, cash
<1> QED  BY <1>2, <1>3, <1>4, <1>5, <1>6, FilesUntouched DEF Sound

LEMMA CommitUploadSound ==
  ASSUME Sound, EvidenceAssumption, NEW p \in Session, CommitUpload(p)
  PROVE  Sound'
<1>1. /\ tx[p].kind = "upload"
      /\ evidence[tx[p].file] = "none"
      /\ evidence' = [evidence EXCEPT ![tx[p].file] = "pending"]
      /\ End(p)
      /\ UNCHANGED <<cash, expense, object>>
  BY DEF CommitUpload
<1>2. tx[p].file \in Evidence
  BY <1>1, Kinds DEF Sound, Upload
<1>3. /\ tx' \in [Session -> Transaction]
      /\ \A q \in Session \ {p} : tx'[q] = tx[q]
      /\ tx'[p].kind = "idle"
      /\ CashSound'
  BY <1>1, EndSound
<1>4. TypeOK'
  BY <1>1, <1>3 DEF Sound, TypeOK, cash
<1>5. ASSUME NEW q \in Session
      PROVE  FileSound(q)'
  BY <1>1, <1>3 DEF Sound, FilesSound, FileSound
<1>6. \A v \in Evidence : EvidenceSound(v)'
  BY <1>1, <1>2 DEF Sound, TypeOK, FilesSound, FileSound, EvidenceSound
<1>7. ASSUME NEW x \in Expense
      PROVE  ReceiptSound(x)'
  <2>1. expense[x].receipt \in Evidence \cup {NoEvidence}
    BY DEF Sound, TypeOK, ExpenseRow
  <2> QED  BY <2>1, <1>1, <1>2 DEF Sound, TypeOK, FilesSound, ReceiptSound
<1> QED  BY <1>3, <1>4, <1>5, <1>6, <1>7 DEF Sound, FilesSound

LEMMA StoreSound ==
  ASSUME Sound, NEW v \in Evidence, NEW content \in {"valid", "invalid"}, Store(v, content)
  PROVE  Sound'
<1>1. /\ object[v] = "none"
      /\ object' = [object EXCEPT ![v] = content]
      /\ UNCHANGED <<cash, expense, evidence, tx>>
  BY DEF Store
<1>2. TypeOK'
  BY <1>1 DEF Sound, TypeOK, cash
<1>3. CashSound'
  BY <1>1 DEF Sound, CashSound, HandoverSound, LocksExclusive, Holds, Missing, Linked, cash
<1>4. ASSUME NEW p \in Session
      PROVE  FileSound(p)'
  <2>1. tx[p].kind \in {"asked", "confirm"} =>
          tx[p].file \in Evidence /\ tx[p].info \in {"valid", "invalid"}
    BY Kinds DEF Sound, Confirm
  <2> QED  BY <2>1, <1>1 DEF Sound, TypeOK, FilesSound, FileSound
<1>5. \A u \in Evidence : EvidenceSound(u)'
  BY <1>1 DEF Sound, TypeOK, FilesSound, EvidenceSound
<1>6. \A x \in Expense : ReceiptSound(x)'
  BY <1>1 DEF Sound, FilesSound, ReceiptSound
<1> QED  BY <1>2, <1>3, <1>4, <1>5, <1>6 DEF Sound, FilesSound

LEMMA AskObjectSound ==
  ASSUME Sound, NEW p \in Session, NEW v \in Evidence, AskObject(p, v)
  PROVE  Sound'
<1> DEFINE t == [kind |-> "asked", file |-> v, info |-> object[v], receipt |-> NoEvidence]
<1>1. /\ object[v] # "none"
      /\ tx' = [tx EXCEPT ![p] = t]
      /\ UNCHANGED <<cash, files>>
  BY DEF AskObject, Begin
<1>2. /\ t \in Transaction
      /\ t.kind = "asked" /\ t.file = v /\ t.info = object[v]
  BY <1>1 DEF Sound, TypeOK, Transaction, Confirm
<1> HIDE DEF t
<1>3. /\ tx' \in [Session -> Transaction]
      /\ tx'[p] = t
      /\ \A q \in Session \ {p} : tx'[q] = tx[q]
  BY <1>1, <1>2, Step DEF Sound
<1>4. TypeOK'
  BY <1>1, <1>3 DEF Sound, TypeOK, cash, files
<1>5. FileSound(p)'
  BY <1>1, <1>2, <1>3 DEF FileSound, files
<1>6. CashSound'
  BY <1>1, <1>2, <1>3, CashUntouched DEF Sound, cash
<1> QED  BY <1>1, <1>3, <1>4, <1>5, <1>6, FilesUntouched DEF Sound

LEMMA LockEvidenceSound ==
  ASSUME Sound, EvidenceAssumption, NEW p \in Session, LockEvidence(p)
  PROVE  Sound'
<1> DEFINE t == [tx[p] EXCEPT !.kind = "confirm",
                              !.receipt = expense[EvidenceOf[tx[p].file]].receipt]
<1>1. /\ tx[p].kind = "asked"
      /\ tx' = [tx EXCEPT ![p] = t]
      /\ UNCHANGED <<cash, files>>
  BY DEF LockEvidence
<1>2. tx[p] \in Confirm
  BY <1>1, Kinds DEF Sound
<1>3. expense[EvidenceOf[tx[p].file]].receipt \in Evidence \cup {NoEvidence}
  BY <1>2 DEF Sound, TypeOK, Confirm, ExpenseRow, EvidenceAssumption
<1>4. /\ t \in Transaction
      /\ t.kind = "confirm" /\ t.file = tx[p].file /\ t.info = tx[p].info
  BY <1>2, <1>3 DEF Transaction, Confirm
<1> HIDE DEF t
<1>5. /\ tx' \in [Session -> Transaction]
      /\ tx'[p] = t
      /\ \A q \in Session \ {p} : tx'[q] = tx[q]
  BY <1>1, <1>4, Step DEF Sound
<1>6. TypeOK'
  BY <1>1, <1>5 DEF Sound, TypeOK, cash, files
<1>7. FileSound(p)'
  BY <1>1, <1>4, <1>5 DEF Sound, FilesSound, FileSound, files
<1>8. CashSound'
  BY <1>1, <1>4, <1>5, CashUntouched DEF Sound, cash
<1> QED  BY <1>1, <1>5, <1>6, <1>7, <1>8, FilesUntouched DEF Sound

LEMMA ConfirmEvidenceSound ==
  ASSUME Sound, EvidenceAssumption, NEW p \in Session, ConfirmEvidence(p)
  PROVE  Sound'
<1> DEFINE v == tx[p].file
           x == EvidenceOf[v]
           c == IF tx[p].receipt = NoEvidence THEN v ELSE expense[x].receipt
           r == [expense[x] EXCEPT !.evidence = "complete", !.receipt = c]
<1>1. /\ tx[p].kind = "confirm" /\ tx[p].info = "valid"
      /\ evidence[v] = "pending"
      /\ evidence' = [evidence EXCEPT ![v] = "ready"]
      /\ expense' = [expense EXCEPT ![x] = r]
      /\ End(p)
      /\ UNCHANGED <<cash, object>>
  BY DEF ConfirmEvidence
<1>2. v \in Evidence /\ x \in Expense /\ v # NoEvidence
  BY <1>1, Kinds DEF Sound, Confirm, EvidenceAssumption
<1>3. /\ r \in ExpenseRow
      /\ r.status = expense[x].status /\ r.evidence = "complete"
      /\ r.receipt \in {v, expense[x].receipt}
  <2>1. expense[x] \in ExpenseRow
    BY <1>2 DEF Sound, TypeOK
  <2>2. c \in {v, expense[x].receipt} /\ c \in Evidence \cup {NoEvidence}
    BY <1>2, <2>1 DEF ExpenseRow
  <2> HIDE DEF c
  <2> QED  BY <2>1, <2>2 DEF ExpenseRow
<1>4. object[v] = "valid"
  BY <1>1 DEF Sound, FilesSound, FileSound
<1> HIDE DEF r
<1>5. /\ expense' \in [Expense -> ExpenseRow]
      /\ expense'[x] = r
      /\ \A y \in Expense \ {x} : expense'[y] = expense[y]
  BY <1>1, <1>2, <1>3 DEF Sound, TypeOK
<1>6. /\ evidence' \in [Evidence -> {"none", "pending", "ready"}]
      /\ evidence'[v] = "ready"
      /\ \A u \in Evidence \ {v} : evidence'[u] = evidence[u]
  BY <1>1, <1>2 DEF Sound, TypeOK
<1>7. /\ tx' \in [Session -> Transaction]
      /\ \A q \in Session \ {p} : tx'[q] = tx[q]
      /\ tx'[p].kind = "idle"
      /\ CashSound'
  BY <1>1, EndSound
<1>8. TypeOK'
  BY <1>1, <1>5, <1>6, <1>7 DEF Sound, TypeOK, cash
<1>9. ASSUME NEW y \in Expense
      PROVE  expense'[y].status = expense[y].status
  BY <1>3, <1>5
<1>10. ASSUME NEW q \in Session
       PROVE  FileSound(q)'
  <2>1. tx[q].kind = "upload" => EvidenceOf[tx[q].file] \in Expense
    BY Kinds DEF Sound, Upload, EvidenceAssumption
  <2> QED  BY <2>1, <1>1, <1>7, <1>9 DEF Sound, FilesSound, FileSound
<1>11. ASSUME NEW u \in Evidence
       PROVE  EvidenceSound(u)'
  <2>1. EvidenceOf[u] \in Expense /\ EvidenceSound(u) /\ EvidenceSound(v)
    BY <1>2 DEF Sound, FilesSound, EvidenceAssumption
  <2>2. EvidenceOf[u] = x => expense'[EvidenceOf[u]].evidence = "complete"
    BY <1>3, <1>5
  <2>3. EvidenceOf[u] # x => expense'[EvidenceOf[u]] = expense[EvidenceOf[u]]
    BY <2>1, <1>5
  <2>4. CASE u = v
    BY <2>4, <2>1, <2>2, <1>1, <1>2, <1>4, <1>9 DEF EvidenceSound
  <2>5. CASE u # v
    BY <2>5, <2>1, <2>2, <2>3, <1>1, <1>6, <1>9 DEF EvidenceSound
  <2> QED  BY <2>4, <2>5
<1>12. ASSUME NEW y \in Expense
       PROVE  ReceiptSound(y)'
  <2>1. expense[y].receipt \in Evidence \cup {NoEvidence} /\ ReceiptSound(y)
    BY DEF Sound, TypeOK, ExpenseRow, FilesSound
  <2>2. CASE expense'[y].receipt = v /\ y = x
    BY <2>2, <1>6 DEF ReceiptSound
  <2>3. CASE expense'[y].receipt = expense[y].receipt
    BY <2>1, <2>3, <1>6 DEF ReceiptSound
  <2> QED  BY <2>2, <2>3, <1>3, <1>5
<1> QED  BY <1>7, <1>8, <1>10, <1>11, <1>12 DEF Sound, FilesSound
-----------------------------------------------------------------------------
(* Theorems.                                                                *)

(* ... and every step keeps it ...                                          *)
THEOREM NextSound == CashAssumption /\ EvidenceAssumption /\ Sound /\ [Next]_vars => Sound'
<1> SUFFICES ASSUME CashAssumption, EvidenceAssumption, Sound, [Next]_vars
             PROVE  Sound'
  OBVIOUS
<1>1. CASE NextCash
  <2>1. CASE \E c \in Payment : RecordCash(c)
    BY <2>1, RecordCashSound
  <2>2. CASE \E p \in Session, e \in Event, s \in {Collector[c] : c \in Payment},
               payments \in SUBSET collected, declared \in Declared :
               BeginReconciliation(p, e, s, payments, declared)
    BY <2>2, BeginReconciliationSound
  <2>3. CASE \E p \in Session, c \in Payment : LockPayment(p, c)
    BY <2>3, LockPaymentSound
  <2>4. CASE \E p \in Session : CheckLinks(p)
    BY <2>4, CheckLinksSound
  <2>5. CASE \E p \in Session : CommitReconciliation(p)
    BY <2>5, CommitReconciliationSound
  <2>6. CASE \E e \in Event : VoidReconciliation(e)
    BY <2>6, VoidReconciliationSound
  <2> QED  BY <1>1, <2>1, <2>2, <2>3, <2>4, <2>5, <2>6 DEF NextCash
<1>2. CASE NextFiles
  <2>1. CASE \E x \in Expense, told \in {"complete", "missing_evidence", "not_required"} :
               CreateExpense(x, told)
    BY <2>1, CreateExpenseSound
  <2>2. CASE \E x \in Expense : VoidExpense(x)
    BY <2>2, VoidExpenseSound
  <2>3. CASE \E p \in Session, v \in Evidence : BeginUpload(p, v)
    BY <2>3, BeginUploadSound
  <2>4. CASE \E p \in Session, v \in Evidence : AskObject(p, v)
    BY <2>4, AskObjectSound
  <2>5. CASE \E p \in Session : CommitUpload(p)
    BY <2>5, CommitUploadSound
  <2>6. CASE \E p \in Session : LockEvidence(p)
    BY <2>6, LockEvidenceSound
  <2>7. CASE \E p \in Session : ConfirmEvidence(p)
    BY <2>7, ConfirmEvidenceSound
  <2>8. CASE \E v \in Evidence, content \in {"valid", "invalid"} : Store(v, content)
    BY <2>8, StoreSound
  <2> QED  BY <1>2, <2>1, <2>2, <2>3, <2>4, <2>5, <2>6, <2>7, <2>8 DEF NextFiles
<1>3. CASE \E p \in Session : Abort(p)
  BY <1>3, AbortSound
<1>4. CASE UNCHANGED vars
  <2>1. UNCHANGED <<collected, rec, link, expense, evidence, object, tx>>
    BY <1>4 DEF vars, cash, files
  <2> QED
    BY <2>1 DEF Sound, TypeOK, CashSound, HandoverSound, LocksExclusive, Holds, Missing,
                Linked, FilesSound, FileSound, EvidenceSound, ReceiptSound
<1> QED  BY <1>1, <1>2, <1>3, <1>4 DEF Next

(* ... so it holds always.                                                  *)
THEOREM AlwaysSound == Spec => []Sound
<1>1. Init => Sound
  BY InitSound, CashAssumption, EvidenceAssumption
<1>2. Sound /\ [Next]_vars => Sound'
  BY NextSound, CashAssumption, EvidenceAssumption
<1> QED  BY <1>1, <1>2, PTL DEF Spec

(* Every reachable state has its types; the sum that a handover expects is  *)
(* the sum of payments.                                                     *)
THEOREM FinanceTypes == Spec => []TypeOK
<1>1. Sound => TypeOK
  BY DEF Sound
<1> QED  BY <1>1, AlwaysSound, PTL

(* The payments of a checked handover stay free until its commit, and no    *)
(* two checked ones share a payment, for any number of managers.            *)
THEOREM CheckedStaysFree == Spec => []CheckedCashIsFree
<1>1. ASSUME Sound
      PROVE  CheckedCashIsFree
  <2> SUFFICES ASSUME NEW p \in Session, tx[p].kind = "handover", tx[p].checked
               PROVE  /\ tx[p].payments \subseteq Pending
                      /\ \A q \in Session \ {p} :
                           tx[q].kind = "handover" /\ tx[q].checked =>
                             tx[p].payments \cap tx[q].payments = {}
    BY DEF CheckedCashIsFree
  <2>1. tx[p].payments \subseteq Pending
    BY <1>1 DEF Sound, CashSound, HandoverSound, Pending
  <2>2. ASSUME NEW q \in Session \ {p}, tx[q].kind = "handover", tx[q].checked,
               NEW c \in tx[p].payments, c \in tx[q].payments
        PROVE  FALSE
    <3>1. Holds(p, c) /\ Holds(q, c)
      BY <1>1, <2>2 DEF Sound, CashSound, HandoverSound, Missing, Holds
    <3>2. c \in Payment
      BY <1>1, Kinds DEF Sound, Handover
    <3> QED  BY <1>1, <3>1, <3>2 DEF Sound, CashSound, LocksExclusive
  <2> QED  BY <2>1, <2>2
<1> QED  BY <1>1, AlwaysSound, PTL

(* Two handovers never wait for each other: each locks its payments in the  *)
(* order of their ids.                                                      *)
THEOREM NoDeadlock == Spec => []NoHandoverDeadlock
<1>1. ASSUME Sound, CashAssumption
      PROVE  NoHandoverDeadlock
  <2> SUFFICES ASSUME NEW p \in Session, NEW q \in Session, Waits(p, q), Waits(q, p)
               PROVE  FALSE
    BY DEF NoHandoverDeadlock
  <2>1. PICK c \in Payment : NextRow(p, c) /\ Holds(q, c)
    BY DEF Waits
  <2>2. PICK d \in Payment : NextRow(q, d) /\ Holds(p, d)
    BY DEF Waits
  <2>3. d < c /\ c < d
    BY <1>1, <2>1, <2>2 DEF Sound, CashSound, HandoverSound, NextRow, Holds
  <2>4. c \in Nat /\ d \in Nat
    BY <1>1 DEF CashAssumption
  <2> QED  BY <2>3, <2>4
<1>2. Sound => NoHandoverDeadlock
  BY <1>1, CashAssumption
<1> QED  BY <1>2, AlwaysSound, PTL

(* Evidence that counts was checked and is still what the storage has, and  *)
(* the receipt of an expense is a file of its voucher.                      *)
THEOREM ReadyChecked == Spec => []ReadyIsChecked
<1>1. ASSUME Sound
      PROVE  ReadyIsChecked
  <2>1. \A v \in Evidence : evidence[v] = "ready" =>
          object[v] = "valid" /\ expense[EvidenceOf[v]].evidence = "complete"
    BY <1>1 DEF Sound, FilesSound, EvidenceSound
  <2>2. ASSUME NEW x \in Expense, ExpenseView(x).receipt
        PROVE  expense[x].receipt \in Voucher(x)
    <3>1. expense[x].receipt # NoEvidence
      BY <2>2 DEF ExpenseView
    <3>2. expense[x].receipt \in Evidence
      BY <1>1, <3>1 DEF Sound, TypeOK, ExpenseRow
    <3> QED  BY <1>1, <3>1, <3>2 DEF Sound, FilesSound, ReceiptSound, Voucher
  <2> QED  BY <2>1, <2>2 DEF ReadyIsChecked
<1> QED  BY <1>1, AlwaysSound, PTL

(* A confirmed handover keeps its payments and its sums for ever, and is    *)
(* voided at most once.                                                     *)
THEOREM HistoryKept == Spec => HandoverHistoryKept
<1>1. ASSUME Sound, [Next]_vars, NEW e \in Event, rec[e].status # "none"
      PROVE  \/ rec'[e] = rec[e]
             \/ rec[e].status = "confirmed" /\ rec'[e] = [rec[e] EXCEPT !.status = "voided"]
  <2>1. CASE UNCHANGED rec
    BY <2>1
  <2>2. CASE \E p \in Session : CommitReconciliation(p)
    <3>1. PICK p \in Session : CommitReconciliation(p)
      BY <2>2
    <3>2. rec[tx[p].event].status = "none"
      BY <3>1 DEF CommitReconciliation
    <3>3. \E r : rec' = [rec EXCEPT ![tx[p].event] = r]
      BY <3>1 DEF CommitReconciliation
    <3> QED  BY <1>1, <3>2, <3>3 DEF Sound, TypeOK
  <2>3. CASE \E f \in Event : VoidReconciliation(f)
    <3>1. PICK f \in Event : VoidReconciliation(f)
      BY <2>3
    <3>2. rec[f].status = "confirmed" /\ rec' = [rec EXCEPT ![f].status = "voided"]
      BY <3>1 DEF VoidReconciliation
    <3>3. rec \in [Event -> CashReconciliation]
      BY <1>1 DEF Sound, TypeOK
    <3>4. CASE e = f
      BY <3>2, <3>3, <3>4
    <3>5. CASE e # f
      BY <3>2, <3>3, <3>5
    <3> QED  BY <3>4, <3>5
  <2>4. CASE NextCash
    BY <2>1, <2>2, <2>3, <2>4
       DEF NextCash, RecordCash, BeginReconciliation, LockPayment, CheckLinks, cash
  <2>5. CASE NextFiles
    BY <2>1, <2>5
       DEF NextFiles, CreateExpense, VoidExpense, BeginUpload, AskObject, CommitUpload,
           LockEvidence, ConfirmEvidence, Store, cash
  <2>6. CASE \E p \in Session : Abort(p)
    BY <2>1, <2>6 DEF Abort, cash
  <2>7. CASE UNCHANGED vars
    BY <2>1, <2>7 DEF vars, cash
  <2> QED  BY <1>1, <2>4, <2>5, <2>6, <2>7 DEF Next
<1>2. Sound /\ [Next]_vars =>
        [\A e \in Event : rec[e].status # "none" =>
           \/ rec'[e] = rec[e]
           \/ rec[e].status = "confirmed" /\ rec'[e] = [rec[e] EXCEPT !.status = "voided"]]_vars
  BY <1>1
<1> QED  BY <1>2, AlwaysSound, PTL DEF Spec, HandoverHistoryKept
-----------------------------------------------------------------------------
(* The sums.                                                                *)

(* The books: every confirmed handover has its own payments, which were     *)
(* collected and whose sum it expects, and the links are of these alone.    *)
Booked ==
  /\ IsFiniteSet(Confirmed)
  /\ \A e \in Confirmed : /\ rec[e].payments \subseteq collected
                          /\ rec[e].expected = Total(rec[e].payments)
  /\ \A e \in Event, c \in Payment :
       <<e, c>> \in link <=> e \in Confirmed /\ c \in rec[e].payments
  /\ \A e, f \in Confirmed : e # f => rec[e].payments \cap rec[f].payments = {}

LEMMA BookedCommit ==
  ASSUME Sound, Sound', Booked, NEW p \in Session, CommitReconciliation(p)
  PROVE  Booked'
<1>1. PICK t : t = tx[p]
  OBVIOUS
<1>2. PICK r : r = [status |-> "confirmed", payments |-> t.payments,
                    expected |-> Total(t.payments), declared |-> t.declared]
  OBVIOUS
<1>3. /\ t.kind = "handover" /\ t.checked /\ rec[t.event].status = "none"
      /\ \A c \in t.payments : ~Linked(c)
      /\ rec' = [rec EXCEPT ![t.event] = r]
      /\ link' = link \cup ({t.event} \X t.payments)
      /\ collected' = collected
  BY <1>1, <1>2 DEF CommitReconciliation
<1>4. t \in Handover /\ t.payments \subseteq collected
  BY <1>1, <1>3, Kinds DEF Sound, CashSound, HandoverSound
<1>5. t.event \in Event /\ t.payments \in SUBSET Payment
  BY <1>4 DEF Handover
<1>6. /\ r.status = "confirmed" /\ r.payments = t.payments
      /\ r.expected = Total(r.payments)
  BY <1>2
<1>7. rec \in [Event -> CashReconciliation] /\ link \subseteq Event \X Payment
  BY DEF Sound, TypeOK
<1>8. /\ rec'[t.event] = r
      /\ \A e \in Event \ {t.event} : rec'[e] = rec[e]
  BY <1>3, <1>5, <1>7
<1>9. Confirmed' = Confirmed \cup {t.event} /\ t.event \notin Confirmed
  BY <1>3, <1>5, <1>6, <1>8 DEF Confirmed
<1>10. IsFiniteSet(Confirmed')
  BY <1>9, FS_AddElement DEF Booked
<1>11. \A e \in Confirmed : e \in Event /\ e # t.event /\ rec'[e] = rec[e]
  BY <1>8, <1>9 DEF Confirmed
<1>12. \A e \in Confirmed : rec[e].payments \cap t.payments = {}
  <2> SUFFICES ASSUME NEW e \in Confirmed, NEW c \in t.payments, c \in rec[e].payments
               PROVE  FALSE
    OBVIOUS
  <2>2. <<e, c>> \in link
    BY <1>5, <1>11 DEF Booked
  <2> QED  BY <1>3, <1>11, <2>2 DEF Linked
<1>13. \A e \in Confirmed' : /\ rec'[e].payments \subseteq collected'
                            /\ rec'[e].expected = Total(rec'[e].payments)
  BY <1>3, <1>4, <1>6, <1>8, <1>9, <1>11 DEF Booked
<1>14. ASSUME NEW e \in Event, NEW c \in Payment
       PROVE  <<e, c>> \in link' <=> e \in Confirmed' /\ c \in rec'[e].payments
  <2>1. <<e, c>> \in link' <=> <<e, c>> \in link \/ (e = t.event /\ c \in t.payments)
    BY <1>3
  <2>2. <<e, c>> \in link <=> e \in Confirmed /\ c \in rec[e].payments
    BY DEF Booked
  <2> QED  BY <2>1, <2>2, <1>6, <1>8, <1>9, <1>11
<1>15. \A e, f \in Confirmed' : e # f => rec'[e].payments \cap rec'[f].payments = {}
  BY <1>6, <1>8, <1>9, <1>11, <1>12 DEF Booked
<1> QED  BY <1>10, <1>13, <1>14, <1>15 DEF Booked, Total

LEMMA BookedVoid ==
  ASSUME Sound, Booked, NEW e \in Event, VoidReconciliation(e)
  PROVE  Booked'
<1>1. /\ rec[e].status = "confirmed"
      /\ rec' = [rec EXCEPT ![e].status = "voided"]
      /\ link' = link \ ({e} \X Payment)
      /\ collected' = collected
  BY DEF VoidReconciliation
<1>2. rec \in [Event -> CashReconciliation]
  BY DEF Sound, TypeOK
<1>3. /\ rec'[e].status = "voided"
      /\ \A f \in Event \ {e} : rec'[f] = rec[f]
  BY <1>1, <1>2 DEF CashReconciliation
<1>4. Confirmed' = Confirmed \ {e} /\ Confirmed \subseteq Event
  BY <1>3 DEF Confirmed
<1>5. IsFiniteSet(Confirmed')
  BY <1>4, FS_Subset DEF Booked
<1> QED  BY <1>1, <1>3, <1>4, <1>5 DEF Booked, Total

LEMMA BookedNext == Sound /\ Sound' /\ Booked /\ [Next]_vars => Booked'
<1> SUFFICES ASSUME Sound, Sound', Booked, [Next]_vars
             PROVE  Booked'
  OBVIOUS
<1>1. CASE \E p \in Session : CommitReconciliation(p)
  BY <1>1, BookedCommit
<1>2. CASE \E e \in Event : VoidReconciliation(e)
  BY <1>2, BookedVoid
<1>3. CASE UNCHANGED <<rec, link>> /\ collected \subseteq collected'
  BY <1>3 DEF Booked, Confirmed, Total
<1>4. \/ \E p \in Session : CommitReconciliation(p)
      \/ \E e \in Event : VoidReconciliation(e)
      \/ UNCHANGED <<rec, link>> /\ collected \subseteq collected'
  <2>1. CASE NextCash
    BY <2>1 DEF NextCash, RecordCash, BeginReconciliation, LockPayment, CheckLinks, cash
  <2>2. CASE NextFiles
    BY <2>2 DEF NextFiles, CreateExpense, VoidExpense, BeginUpload, AskObject, CommitUpload,
                LockEvidence, ConfirmEvidence, Store, cash
  <2>3. CASE UNCHANGED vars \/ \E p \in Session : Abort(p)
    BY <2>3 DEF vars, cash, Abort
  <2> QED  BY <2>1, <2>2, <2>3 DEF Next
<1> QED  BY <1>1, <1>2, <1>3, <1>4

LEMMA BookedAlways == Spec => []Booked
<1>1. Init => Booked
  <2> SUFFICES ASSUME Init
               PROVE  Booked
    OBVIOUS
  <2>1. Confirmed = {}
    BY DEF Init, Confirmed, NoReconciliation
  <2> QED  BY <2>1, FS_EmptySet DEF Init, Booked
<1>2. Sound /\ Sound' /\ Booked /\ [Next]_vars => Booked'
  BY BookedNext
<1> QED  BY <1>1, <1>2, AlwaysSound, PTL DEF Spec

(* Sums of amounts.                                                         *)
LEMMA TotalType ==
  ASSUME CashAssumption, NEW C \in SUBSET Payment
  PROVE  IsFiniteSet(C) /\ Total(C) \in Int /\ \A c \in C : Amount[c] \in Int
<1>1. IsFiniteSet(Payment) /\ Amount \in [Payment -> Nat \ {0}]
  BY DEF CashAssumption
<1>2. IsFiniteSet(C)
  BY <1>1, FS_Subset
<1>3. \A c \in C : Amount[c] \in Int
  BY <1>1
<1> QED  BY <1>2, <1>3, SumType DEF Total

(* What was collected is pending, or in exactly one confirmed handover.     *)
LEMMA CollectedIsParted ==
  ASSUME CashAssumption, Sound, Booked
  PROVE  /\ Total(Pending) \in Int
         /\ SumFunction([e \in Confirmed |-> rec[e].expected]) \in Int
         /\ Total(collected)
              = Total(Pending) + SumFunction([e \in Confirmed |-> rec[e].expected])
<1>1. PICK part : part = [e \in Confirmed |-> rec[e].payments]
  OBVIOUS
<1>2. PICK expected : expected = [e \in Confirmed |-> rec[e].expected]
  OBVIOUS
<1>3. PICK handed : handed = UNION {part[e] : e \in Confirmed}
  OBVIOUS
<1>4. IsFiniteSet(Confirmed) /\ collected \subseteq Payment /\ Confirmed \subseteq Event
  BY DEF Booked, Sound, TypeOK, Confirmed
<1>5. \A e \in Confirmed : part[e] \subseteq collected /\ expected[e] = Total(part[e])
  BY <1>1, <1>2 DEF Booked
<1>6. Parted(Confirmed, part, Amount, expected)
  <2>1. \A e \in Confirmed : IsFiniteSet(part[e]) /\ \A c \in part[e] : Amount[c] \in Int
    BY <1>4, <1>5, TotalType
  <2>2. \A e, f \in Confirmed : e # f => part[e] \cap part[f] = {}
    BY <1>1 DEF Booked
  <2> QED  BY <1>5, <2>1, <2>2 DEF Parted, Total
<1>7. /\ IsFiniteSet(handed)
      /\ SumFunctionOnSet(Amount, handed) = SumFunctionOnSet(expected, Confirmed)
  BY <1>3, <1>4, <1>6, SumParts
<1>8. \A c \in collected : Linked(c) <=> c \in handed
  <2>1. \A c \in collected : Linked(c) <=> \E e \in Event : e \in Confirmed /\ c \in rec[e].payments
    BY <1>4 DEF Booked, Linked
  <2> QED  BY <1>1, <1>3, <1>4, <2>1
<1>9. handed \subseteq collected /\ Pending \subseteq collected
  BY <1>3, <1>5 DEF Pending
<1>10. collected = Pending \cup handed /\ Pending \cap handed = {}
  BY <1>8, <1>9 DEF Pending
<1>11. PICK pending : pending = Pending
  OBVIOUS
<1>12. /\ IsFiniteSet(pending) /\ IsFiniteSet(handed) /\ pending \cap handed = {}
       /\ \A c \in pending \cup handed : Amount[c] \in Int
       /\ SumFunctionOnSet(Amount, pending) \in Int /\ SumFunctionOnSet(Amount, handed) \in Int
  BY <1>4, <1>9, <1>10, <1>11, TotalType DEF Total
<1>13. SumFunctionOnSet(Amount, pending \cup handed)
         = SumFunctionOnSet(Amount, pending) + SumFunctionOnSet(Amount, handed)
  BY <1>12, SumUnion
<1>14. SumFunction(expected) = SumFunctionOnSet(expected, Confirmed)
  BY <1>2 DEF SumFunction
<1> QED  BY <1>2, <1>7, <1>10, <1>11, <1>12, <1>13, <1>14 DEF Total

(* The pending cash of the collectors is all the pending cash.              *)
LEMMA PendingIsParted ==
  ASSUME CashAssumption, Sound
  PROVE  Total(Pending) = SumFunction([s \in {Collector[c] : c \in Payment} |-> PendingCash(s)])
<1>1. PICK S : S = {Collector[c] : c \in Payment}
  OBVIOUS
<1>2. PICK part : part = [s \in S |-> {c \in Pending : Collector[c] = s}]
  OBVIOUS
<1>3. PICK total : total = [s \in S |-> PendingCash(s)]
  OBVIOUS
<1>4. IsFiniteSet(S)
  BY <1>1, FiniteImage DEF CashAssumption
<1>5. Pending \subseteq Payment
  BY DEF Pending, Sound, TypeOK
<1>6. \A s \in S : part[s] \in SUBSET Payment /\ total[s] = Total(part[s])
  BY <1>2, <1>3, <1>5 DEF PendingCash
<1>7. Parted(S, part, Amount, total)
  <2>1. \A s \in S : IsFiniteSet(part[s]) /\ \A c \in part[s] : Amount[c] \in Int
    BY <1>6, TotalType
  <2>2. \A s, u \in S : s # u => part[s] \cap part[u] = {}
    BY <1>2
  <2> QED  BY <1>6, <2>1, <2>2 DEF Parted, Total
<1>8. SumFunctionOnSet(Amount, UNION {part[s] : s \in S}) = SumFunctionOnSet(total, S)
  BY <1>4, <1>7, SumParts
<1>9. UNION {part[s] : s \in S} = Pending
  <2>1. \A c \in Pending : Collector[c] \in S
    BY <1>1, <1>5
  <2>2. \A s \in S : part[s] = {c \in Pending : Collector[c] = s}
    BY <1>2
  <2> QED  BY <2>1, <2>2
<1>10. SumFunction(total) = SumFunctionOnSet(total, S)
  BY <1>3 DEF SumFunction
<1> QED  BY <1>1, <1>3, <1>8, <1>9, <1>10 DEF Total

(* All the cash is accounted for, for any payments, amounts and managers:   *)
(* what was collected, with what handovers found short or over, is pending  *)
(* or declared, and the collectors' parts add up to what is pending.        *)
THEOREM CashAccounted == Spec => []CashIsAccounted
<1>1. ASSUME Sound, Booked
      PROVE  CashIsAccounted
  <2>1. PICK expected : expected = [e \in Confirmed |-> rec[e].expected]
    OBVIOUS
  <2>2. PICK declared : declared = [e \in Confirmed |-> rec[e].declared]
    OBVIOUS
  <2>3. PICK difference : difference = [e \in Confirmed |-> ReconciliationView(e).difference]
    OBVIOUS
  <2>4. PICK S : S = Confirmed
    OBVIOUS
  <2>5. IsFiniteSet(S)
    BY <1>1, <2>4 DEF Booked
  <2>6. \A e \in S : rec[e].declared \in Int /\ rec[e].expected \in Int
    <3>1. ASSUME NEW e \in S
          PROVE  rec[e].declared \in Int /\ rec[e].expected \in Int
      <4>1. e \in Event /\ rec[e] \in CashReconciliation
        BY <1>1, <2>4 DEF Confirmed, Sound, TypeOK
      <4>2. \A n \in Declared \cup {0} : n \in Int
        BY CashAssumption DEF CashAssumption
      <4>3. rec[e].declared \in Declared \cup {0} /\ rec[e].payments \in SUBSET Payment
        BY <4>1 DEF CashReconciliation
      <4>4. rec[e].expected = Total(rec[e].payments)
        BY <1>1, <2>4 DEF Booked
      <4>5. Total(rec[e].payments) \in Int
        BY <4>3, CashAssumption, TotalType
      <4>6. rec[e].expected \in Int
        BY <4>4, <4>5
      <4>7. rec[e].declared \in Int
        BY <4>2, <4>3
      <4> QED  BY <4>6, <4>7
    <3> QED  BY <3>1
  <2>7. \A e \in S : /\ expected[e] \in Int /\ difference[e] \in Int
                     /\ declared[e] = expected[e] + difference[e]
    BY <2>1, <2>2, <2>3, <2>4, <2>6 DEF ReconciliationView
  <2>8. SumFunctionOnSet(declared, S)
          = SumFunctionOnSet(expected, S) + SumFunctionOnSet(difference, S)
    BY <2>5, <2>7, SumPlus
  <2>9. SumFunctionOnSet(expected, S) \in Int /\ SumFunctionOnSet(difference, S) \in Int
    BY <2>5, <2>7, SumType
  <2>10. /\ SumFunction(expected) = SumFunctionOnSet(expected, S)
         /\ SumFunction(declared) = SumFunctionOnSet(declared, S)
         /\ SumFunction(difference) = SumFunctionOnSet(difference, S)
    BY <2>1, <2>2, <2>3, <2>4 DEF SumFunction
  <2>11. Total(Pending) \in Int /\ Total(collected) = Total(Pending) + SumFunction(expected)
    BY <1>1, <2>1, CashAssumption, CollectedIsParted
  <2>12. Total(collected) + SumFunction(difference) = Total(Pending) + SumFunction(declared)
    BY <2>8, <2>9, <2>10, <2>11
  <2> QED  BY <1>1, <2>2, <2>3, <2>12, CashAssumption, PendingIsParted
           DEF CashIsAccounted, FinanceOverview
<1> QED  BY <1>1, AlwaysSound, BookedAlways, PTL
=============================================================================
