------------------------------- MODULE Lifecycle -------------------------------
(***************************************************************************)
(* What the event store promises of each run: it is announced once, closed *)
(* once, in this order, and what was written stays.  A run that is closed  *)
(* without having been announced stays that way.                           *)
(***************************************************************************)
CONSTANT RunIds
VARIABLE state

States == {"unseen", "open", "closed", "headless"}

TypeOK == state \in [RunIds -> States]
Init == state = [r \in RunIds |-> "unseen"]

Move(r, from, to) ==
  /\ state[r] = from
  /\ state' = [state EXCEPT ![r] = to]

Next ==
  \E r \in RunIds :
    \/ Move(r, "unseen", "open")
    \/ Move(r, "open", "closed")
    \/ Move(r, "unseen", "headless")

Spec == Init /\ [][Next]_state
=============================================================================
