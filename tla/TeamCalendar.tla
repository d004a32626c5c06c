---------------------------- MODULE TeamCalendar ----------------------------
(***************************************************************************)
(* What the scheduler promises of a business day, whatever its requests    *)
(* read and lock: a team's time is granted only when nobody has it.  A     *)
(* claim that has lapsed may still become a booking, but only if its time  *)
(* is free at that moment.                                                 *)
(***************************************************************************)
EXTENDS Integers

CONSTANTS
  Claim,     \* identities of claims
  Team,      \* mobile teams
  Time,      \* instants at which a claim may start
  Length     \* duration of a claim

VARIABLE claim

Status == {"none", "live", "lapsed", "booked"}

Granted(c) == claim[c].status \in {"live", "booked"}

Overlap(s, t) == s < t + Length /\ t < s + Length

Free(c, team, start) ==
  \A d \in Claim \ {c} :
    Granted(d) /\ claim[d].team = team => ~Overlap(claim[d].start, start)

Grant(c, team, start) ==
  /\ claim[c].status = "none"
  /\ Free(c, team, start)
  /\ claim' = [claim EXCEPT ![c] = [status |-> "live", team |-> team, start |-> start]]

Lapse(c) ==
  /\ claim[c].status = "live"
  /\ claim' = [claim EXCEPT ![c].status = "lapsed"]

Book(c) ==
  /\ claim[c].status \in {"live", "lapsed"}
  /\ Free(c, claim[c].team, claim[c].start)
  /\ claim' = [claim EXCEPT ![c].status = "booked"]

Init ==
  /\ claim \in [Claim -> [status : {"none"}, team : Team, start : Time]]

Next ==
  \E c \in Claim :
    \/ \E team \in Team, start \in Time : Grant(c, team, start)
    \/ Lapse(c)
    \/ Book(c)

Spec == Init /\ [][Next]_claim

(* No team is promised twice for one moment.                               *)
NoOverlap ==
  \A c, d \in Claim :
    /\ c # d
    /\ Granted(c) /\ Granted(d)
    /\ claim[c].team = claim[d].team
    => ~Overlap(claim[c].start, claim[d].start)
=============================================================================
