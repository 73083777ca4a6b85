-------------------------- MODULE MCAccountMatcher --------------------------
(***************************************************************************)
(* Two writes of one program, in slots a window apart, one of a program     *)
(* that is ahead of it, and one of an owner without a name.                 *)
(***************************************************************************)
EXTENDS AccountMatcher

MCWrite == {"w1", "w4", "other9", "stray2"}
MCSlotOf == [w \in MCWrite |->
  CASE w = "w1" -> 1 [] w = "w4" -> 4 [] w = "other9" -> 9 [] w = "stray2" -> 2]
MCOwner == {"raydium", "orca", "nobody"}
MCOwnerOf == [w \in MCWrite |->
  CASE w = "other9" -> "orca" [] w = "stray2" -> "nobody" [] OTHER -> "raydium"]
MCNameOf == [o \in MCOwner |-> IF o = "nobody" THEN "unknown" ELSE o]

============================================================================
