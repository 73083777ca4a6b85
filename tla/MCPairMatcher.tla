-------------------------- MODULE MCPairMatcher ----------------------------
(***************************************************************************)
(* PairMatcher on three keys.  With Window = 1, slot 1 is on the edge of    *)
(* the window when slot 2 is the highest, and both are outside it, two      *)
(* entries for one pass to take out, when slot 4 is.                        *)
(***************************************************************************)
EXTENDS PairMatcher

MCKey == {"a", "b", "c"}
MCSlotOf == [k \in MCKey |-> CASE k = "a" -> 1 [] k = "b" -> 2 [] k = "c" -> 4]
MCTime == {1, 2}

============================================================================
