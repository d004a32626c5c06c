---------------------------- MODULE MCInventory -----------------------------
(* Constants for model-checking Inventory.                                 *)
EXTENDS Inventory, TLC

CONSTANTS soap, wax, store, van, j1, wash, polish, k1, k2, k3, k4, team, helpers, crew, helper,
          s1, s2

ToTeam == [j \in Job |-> team]

ToHelper == [j \in Job |-> helper]

Memberships == [e \in {crew, helper} |-> IF e = crew THEN {team} ELSE {helpers}]

TwoServices == [j \in Job |-> <<wash, polish>>]

(* Both services use soap, the second one may use wax too.                 *)
Recipes ==
  {[v \in Service |-> [i \in Item |-> IF i = soap THEN 1 ELSE 0]],
   [v \in Service |-> [i \in Item |-> IF i = soap THEN 2 ELSE IF v = polish THEN 1 ELSE 0]]}

Plain(key, kind, at, lines) ==
  [key |-> key, kind |-> kind, at |-> at, to |-> NoLocation, job |-> NoJob, actor |-> "manager",
   expense |-> FALSE, lines |-> lines]

(* A receipt of two lines of one item, its key used again for a write-off, *)
(* a transfer to the van, the usage for the job by its team or by the      *)
(* employee it is assigned to, and a count.                                *)
Requests ==
  {[Plain(k1, "receipt", store, <<<<soap, 1>>, <<wax, 1>>, <<soap, 1>>>>) EXCEPT !.expense = TRUE],
   Plain(k1, "wastage", store, <<<<soap, 1>>>>),
   [Plain(k2, "transfer", store, <<<<soap, 1>>, <<wax, 1>>>>) EXCEPT !.to = van],
   [Plain(k3, "usage", van, <<<<soap, 1>>, <<wax, 1>>>>) EXCEPT !.job = j1, !.actor = crew],
   [Plain(k3, "usage", van, <<<<soap, 1>>>>) EXCEPT !.job = j1, !.actor = helper],
   Plain(k4, "stock_count", store, <<<<soap, 2>>, <<wax, 0>>>>)}
=============================================================================
