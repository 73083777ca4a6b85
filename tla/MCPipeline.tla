---------------------------- MODULE MCPipeline -----------------------------
(***************************************************************************)
(* Pipeline with one subscription at each endpoint, and in solo mode with   *)
(* two subscriptions at endpoint 1.                                         *)
(***************************************************************************)
EXTENDS Pipeline

PairSub == {"slots1", "slots2"}
PairSlotSub == PairSub
PairRings == [e \in Endpoint |-> IF e = 1 THEN <<"slots1">> ELSE <<"slots2">>]
PairMaxSent == [s \in PairSub |-> IF s = "slots1" THEN 2 ELSE 1]

SoloSub == {"slots1", "main1"}
SoloRings == [e \in Endpoint |-> IF e = 1 THEN <<"slots1", "main1">> ELSE <<>>]
SoloSlotSub == {"slots1"}
SoloMaxSent == [s \in SoloSub |-> 1]
\* Stopping does not need both rings busy: the second stays empty.
QuietMaxSent == [s \in SoloSub |-> IF s = "slots1" THEN 1 ELSE 0]

============================================================================
