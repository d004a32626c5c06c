----------------------------- MODULE MCRewards -----------------------------
(* Two bookings, of one vehicle and of two; a credit that is worth a reward *)
(* and a debit by hand.  The first booking has a key of its own and the     *)
(* coupon, and is the one that is reviewed; the second may come under       *)
(* either key, takes one reward at most, and is the one that is cancelled,  *)
(* or not, by a request made before its work is done.  The debit comes, or  *)
(* the programme is switched off, before the second booking is there; a     *)
(* record expires in behaviours without adjustments and review.             *)
EXTENDS Rewards, TLC

CONSTANTS b1, b2, k1, k2

MCBooking == {b1, b2}

MCLines == (b1 :> 1) @@ (b2 :> 2)

MCManual == <<3, -1>>

MCRequest(t) ==
  CASE t.kind = "create" -> IF t.booking = b1 THEN t.key = k1
                          ELSE t.percent = 0 /\ Cardinality(t.rewards) <= 1
    [] t.kind = "review" -> t.booking = b1
    [] OTHER -> TRUE

MCNext ==
  /\ Next
  /\ \A p \in Session : MCRequest(tx'[p])
  /\ booking'[b1].request = "none" /\ ~booking'[b2].reviewed
  /\ booking'[b2].request # booking[b2].request =>
       booking[b2].job = "open" \/ booking'[b2].status = "cancelled"
  /\ record'[k2].status # "expired"
  /\ record'[k1].status = "expired" =>
       /\ changes' = 0 /\ ~booking'[b1].reviewed
       /\ log' \cap {Adjusted(1), Adjusted(2)} = {}
  /\ ~(changes' = 1 /\ Adjusted(2) \in log')
  /\ changes' # changes => ~settings'.enabled
  /\ changes' # changes \/ Adjusted(2) \in log' \ log => booking[b2].status = "none"

MCSpec == Init /\ [][MCNext]_vars

MCSymmetry == Permutations(Session)
=============================================================================
