------------------------------- MODULE MCCash -------------------------------
(* The way of the cash: payments of two jobs that four requests record,     *)
(* three payments of two collectors that are handed over, and two files of  *)
(* one expense.  The three sorts of requests write no row in common, so     *)
(* that a behaviour has requests of one sort only.                          *)
EXTENDS CashSettlement, Finance

MCPayment == 1 .. 3

MCAmount == <<2, 3, 1>>

MCCollector == <<"s1", "s1", "s2">>

MCEvidenceOf == [v \in Evidence |-> CHOOSE x \in Expense : TRUE]

Settling == (\E j \in Job : job[j] # "under_way") \/ (\E r \in Request : cashTx[r] # Fresh)

HandingOver == collected # {}

Spending == \E x \in Expense : expense[x].status # "none"

MCNext ==
  \/ /\ ~HandingOver /\ ~Spending
     /\ SettlementNext
     /\ UNCHANGED vars
  \/ /\ ~Settling
     /\ Next
     /\ ~(HandingOver /\ Spending)'
     /\ UNCHANGED settlementVars

MCInit == SettlementInit /\ Init

MCSpec == MCInit /\ [][MCNext]_<<settlementVars, vars>>
=============================================================================
