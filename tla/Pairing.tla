------------------------------ MODULE Pairing ------------------------------
(***************************************************************************)
(* What a cross-endpoint matcher promises, whatever it stores and whenever  *)
(* it cleans up: arrivals wait at their endpoint; a match joins an arrival  *)
(* with one waiting arrival of the other endpoint that has the same key and *)
(* uses it up; the earlier of the two timestamps wins; and an arrival is    *)
(* given up only when a newer one of the same key replaces it or when its   *)
(* slot is below the horizon, which only moves forward.                     *)
(***************************************************************************)
EXTENDS Integers

CONSTANTS Key, SlotOf, Time

VARIABLES
  waiting,   \* per endpoint, the <<key, time>> arrivals still usable
  horizon,   \* arrivals of lower slots may be forgotten
  matched,
  faster     \* per endpoint, the matches it won

vars == <<waiting, horizon, matched, faster>>

Endpoint == {1, 2}
Other(e) == 3 - e

Init ==
  /\ waiting = [e \in Endpoint |-> {}]
  /\ horizon = 0
  /\ matched = 0
  /\ faster = [e \in Endpoint |-> 0]

\* Endpoint e may lose arrivals below the new horizon, and those in `excused`.
Forgets(e, excused) ==
  \A a \in waiting[e] \ (waiting'[e] \cup excused) : SlotOf[a[1]] < horizon'

\* An arrival that finds no partner waits.
Hold(e, k, t) ==
  /\ <<k, t>> \in waiting'[e]
  /\ waiting'[e] \subseteq waiting[e] \cup {<<k, t>>}
  /\ waiting'[Other(e)] \subseteq waiting[Other(e)]
  /\ \A a \in waiting'[Other(e)] : a[1] # k
  /\ Forgets(e, {a \in waiting[e] : a[1] = k})
  /\ Forgets(Other(e), {})
  /\ UNCHANGED <<matched, faster>>

\* An arrival that finds one uses it up and is not kept itself.
Pair(e, k, t) ==
  \E a \in waiting[Other(e)] :
    /\ a[1] = k
    /\ waiting'[Other(e)] \subseteq waiting[Other(e)] \ {a}
    /\ waiting'[e] \subseteq waiting[e]
    /\ Forgets(e, {})
    /\ Forgets(Other(e), {a})
    /\ matched' = matched + 1
    /\ faster' = [f \in Endpoint |->
         IF (f = e /\ t < a[2]) \/ (f # e /\ a[2] < t) THEN faster[f] + 1 ELSE faster[f]]

\* Cleaning up on its own.
Forget ==
  /\ \A e \in Endpoint : waiting'[e] \subseteq waiting[e] /\ Forgets(e, {})
  /\ UNCHANGED <<matched, faster>>

Next ==
  /\ horizon' >= horizon
  /\ \/ \E e \in Endpoint, k \in Key, t \in Time : Hold(e, k, t) \/ Pair(e, k, t)
     \/ Forget

Spec == Init /\ [][Next]_vars

============================================================================
