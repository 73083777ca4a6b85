---------------------------- MODULE CrossStream -----------------------------
(***************************************************************************)
(* The pairing of a transaction with its account updates within one         *)
(* endpoint, src/src/crossstream.rs, as a record and the operators that     *)
(* update it.  A key is (slot, signature).  Unlike the cross-endpoint       *)
(* matcher it evicts after every event.                                     *)
(***************************************************************************)
EXTENDS Integers

CONSTANTS
  Key,
  KeySlot,       \* the slot inside each key
  CrossWindow    \* the 64 slots of TxAccountPairer::evict

NewCross == [tx |-> {}, account |-> {}, high |-> 0, sampled |-> [k \in Key |-> 0]]

CrossCutoff(high) == IF high > CrossWindow THEN high - CrossWindow ELSE 0

\* Variant: the slot on the edge of the window is evicted as well.
EvictedAtEdge(c) ==
  [c EXCEPT !.tx = {k \in @ : KeySlot[k] > CrossCutoff(c.high)},
            !.account = {k \in @ : KeySlot[k] > CrossCutoff(c.high)}]

\* Variant: the account updates are not swept.
EvictedTxOnly(c) ==
  [c EXCEPT !.tx = {k \in @ : KeySlot[k] >= CrossCutoff(c.high)}]

Evicted(c) ==
  [c EXCEPT !.tx = {k \in @ : KeySlot[k] >= CrossCutoff(c.high)},
            !.account = {k \in @ : KeySlot[k] >= CrossCutoff(c.high)}]

WithWater(c, k) == [c EXCEPT !.high = IF KeySlot[k] > @ THEN KeySlot[k] ELSE @]

\* A sample if the other stream holds the key, otherwise hold it here.
ObserveTx(c, k) ==
  Evicted(WithWater(IF k \in c.account
                    THEN [c EXCEPT !.account = @ \ {k}, !.sampled[k] = @ + 1]
                    ELSE [c EXCEPT !.tx = @ \cup {k}], k))
ObserveAccount(c, k) ==
  Evicted(WithWater(IF k \in c.tx
                    THEN [c EXCEPT !.tx = @ \ {k}, !.sampled[k] = @ + 1]
                    ELSE [c EXCEPT !.account = @ \cup {k}], k))

============================================================================
