----------------------------- MODULE MCTrackers -----------------------------
(***************************************************************************)
(* Trackers with a slot subscription of either label, alone and beside an   *)
(* entries subscription, and with the transactions and accounts of one and  *)
(* of two commitments.                                                      *)
(***************************************************************************)
EXTENDS Trackers

Base == [solo |-> TRUE, solo_streams |-> <<"slots">>, commitments |-> <<"processed">>,
         programs |-> <<"orca">>, per_filter |-> 1, with_transactions |-> FALSE,
         with_blocks |-> FALSE, entries |-> {}]

\* A run against two endpoints with two commitments: endpoint 1 has a slot
\* subscription and the accounts of each commitment.
DualConfigs ==
  {[Base EXCEPT !.solo = FALSE, !.commitments = <<"processed", "confirmed">>]}

\* The same with one commitment and entries.
EntriesConfigs == {[Base EXCEPT !.solo = FALSE, !.entries = {1}]}

MCConfigs ==
  {Base, [Base EXCEPT !.commitments = <<"confirmed", "processed">>],
   [Base EXCEPT !.solo_streams = <<"accounts", "transactions">>]}
    \cup DualConfigs \cup EntriesConfigs

MCKey == {"t1", "t2", "t4"}
MCKeySlot == [k \in MCKey |-> CASE k = "t1" -> 1 [] k = "t2" -> 2 [] k = "t4" -> 4]

============================================================================
