----------------------------- MODULE MCSession ------------------------------
(***************************************************************************)
(* One setup per question: slots in any order, the identities of two        *)
(* commitments, raw records on a failing disk, and the ping tasks.          *)
(***************************************************************************)
EXTENDS Session

Slot(stage, n) == Event("slot", stage, n, NoId, "processed")
Other(kind, id, commitment) == Event(kind, NoId, 1, id, commitment)

Plain == [solo |-> FALSE, raw_records |-> FALSE, with_transactions |-> FALSE,
          with_blocks |-> FALSE, updates |-> {}, max_updates |-> 0, max_pings |-> 0]

MCSetups == {
  [Plain EXCEPT !.updates = {Slot("processed", 0), Slot("processed", 1), Slot("processed", 2)},
                !.max_updates = 3],
  [Plain EXCEPT !.updates = {Slot("dead", 1), Slot("confirmed", 1), Event("slot", "confirmed", 1, NoId, NoLevel),
                             Other("entry", "e", NoLevel), Other("account", "a", "processed")},
                !.max_updates = 2],
  [Plain EXCEPT !.updates = {Other("block", "b", "processed"), Other("block", "b", "confirmed"),
                            Other("transaction", "t", "processed"), Other("transaction", "t", "confirmed")},
                !.max_updates = 2, !.with_transactions = TRUE, !.with_blocks = TRUE],
  [Plain EXCEPT !.updates = {Slot("processed", 1)}, !.max_updates = 2, !.raw_records = TRUE],
  [Plain EXCEPT !.solo = TRUE, !.updates = {Slot("processed", 1), Slot("unknown", 2), Other("control", NoId, NoLevel),
                                           Other("transaction", Broken, "processed")},
                !.max_updates = 4, !.raw_records = TRUE],
  [Plain EXCEPT !.max_pings = 2],
  [Plain EXCEPT !.solo = TRUE, !.max_pings = 3]}

=============================================================================
