--------------------------- MODULE ReceiverLife -----------------------------
(***************************************************************************)
(* What the rest of the program may rely on in a receiver thread, and all   *)
(* that module Pipeline assumes of one: it looks at the shutdown flag       *)
(* before every connection attempt and before every poll, hands over at     *)
(* most one event per poll, and once finished it stays finished.            *)
(***************************************************************************)
EXTENDS Integers

VARIABLES
  shutdown,
  life,      \* "outer", "connecting", "inner", "poll" or "finished"
  events     \* events handed over

vars == <<shutdown, life, events>>

Init == shutdown = FALSE /\ life = "outer" /\ events = 0

Goes(from, to) == life = from /\ life' = to

\* Between connections and between polls the flag decides.
Outer ==
  /\ Goes("outer", IF shutdown THEN "finished" ELSE "connecting")
  /\ UNCHANGED <<shutdown, events>>
Inner ==
  /\ Goes("inner", IF shutdown THEN "finished" ELSE "poll")
  /\ UNCHANGED <<shutdown, events>>

Connect ==
  /\ \E to \in {"inner", "outer", "finished"} : Goes("connecting", to)
  /\ UNCHANGED <<shutdown, events>>

Poll ==
  /\ \/ \E to \in {"inner", "outer", "finished"} :
          Goes("poll", to) /\ UNCHANGED events
     \/ Goes("poll", "inner") /\ events' = events + 1
  /\ UNCHANGED shutdown

Shutdown == shutdown' = TRUE /\ UNCHANGED <<life, events>>

Next == Outer \/ Inner \/ Connect \/ Poll \/ Shutdown

Spec == Init /\ [][Next]_vars

============================================================================
