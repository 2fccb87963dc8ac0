------------------------------ MODULE AuditTrail ------------------------------
(***************************************************************************)
(* What the report store promises, as attest.rs and docs/PHASE_PIPELINE    *)
(* describe it: an append-only trail of published reports in name order.   *)
(* A report is published once, after every report already published, and   *)
(* never changes. It continues the newest report or restarts the chain.    *)
(***************************************************************************)
EXTENDS Naturals

CONSTANTS Seconds, Nothing

VARIABLE trail   \* second -> Nothing or the report published there

Init == trail = [s \in Seconds |-> Nothing]

Newest(s) == trail[s] # Nothing /\ \A t \in Seconds : t > s => trail[t] = Nothing

Restarts(r) == r.prev = 0 /\ r.len = 1

Continues(r) ==
  \E s \in Seconds : Newest(s) /\ r.prev = trail[s].id /\ r.len = trail[s].len + 1

Publish(s) ==
  /\ \A t \in Seconds : t >= s => trail[t] = Nothing
  /\ trail'[s] # Nothing
  /\ Restarts(trail'[s]) \/ Continues(trail'[s])
  /\ \A t \in Seconds \ {s} : trail'[t] = trail[t]

Next == \E s \in Seconds : Publish(s)

Spec == Init /\ [][Next]_trail
=============================================================================
