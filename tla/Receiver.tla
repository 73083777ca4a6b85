------------------------------ MODULE Receiver ------------------------------
(***************************************************************************)
(* One receiver thread, receiver_thread_main of src/src/run.rs: connect,    *)
(* subscribe, poll the stream, hand decoded events to the ring, reconnect   *)
(* when the stream ends, and give up after the same error has come back     *)
(* MaxSame times in a row.  An error is its text, the only thing compared;  *)
(* connecting, subscribing and the stream share one count.                  *)
(*                                                                          *)
(* The server and the network choose the outcome of every call.  An attempt *)
(* to subscribe has no timeout and may never return.                        *)
(***************************************************************************)
EXTENDS Integers, Sequences

CONSTANTS
  Error,        \* error texts
  MaxSame,      \* MAX_CONSECUTIVE_SAME_ERROR
  MaxCount      \* bound: events, decode errors and stream ends, each

ASSUME MaxSameAssumption == MaxSame \in Nat \ {0}
ASSUME MaxCountAssumption == MaxCount \in Nat

VARIABLES
  shutdown,
  pc,
  last_error_text,
  same_error_count,
  events,         \* events handed to try_send
  decode_errors,
  disconnects,
  \* History variables, read by no action.
  ends,           \* streams that ended, with a status or without
  recent          \* the last MaxSame failures since the last event, newest last

stats == <<events, decode_errors, disconnects>>
vars == <<shutdown, pc, last_error_text, same_error_count, stats, ends, recent>>

None == "none"
ASSUME ErrorAssumption == None \notin Error

Init ==
  /\ shutdown = FALSE
  /\ pc = "outer"
  /\ last_error_text = None
  /\ same_error_count = 0
  /\ events = 0 /\ decode_errors = 0 /\ disconnects = 0
  /\ ends = 0
  /\ recent = <<>>

Goes(from, to) == pc = from /\ pc' = to

----------------------------------------------------------------------------
(* The error count.                                                         *)

\* The count after one more failure with text `err`.
CountAfter(err) == IF err = last_error_text THEN same_error_count + 1 ELSE 1

\* Variant: the count is not restarted by a different error.
FailsCumulative(err, retry) ==
  /\ last_error_text' = err
  /\ same_error_count' = same_error_count + 1
  /\ recent' = (IF Len(recent) = MaxSame THEN Tail(recent) ELSE recent) \o <<err>>
  /\ pc' = IF same_error_count + 1 >= MaxSame THEN "finished" ELSE retry

\* A failure: give up if the same text has been seen often enough, otherwise
\* go on to `retry`.
Fails(err, retry) ==
  /\ last_error_text' = err
  /\ same_error_count' = CountAfter(err)
  /\ recent' = (IF Len(recent) = MaxSame THEN Tail(recent) ELSE recent) \o <<err>>
  /\ pc' = IF CountAfter(err) >= MaxSame THEN "finished" ELSE retry

NoFailure == UNCHANGED <<last_error_text, same_error_count, recent>>

----------------------------------------------------------------------------
(* Connecting.                                                              *)

Outer ==
  /\ Goes("outer", IF shutdown THEN "finished" ELSE "connect")
  /\ NoFailure
  /\ UNCHANGED <<shutdown, stats, ends>>

Connected ==
  /\ Goes("connect", "subscribe")
  /\ NoFailure
  /\ UNCHANGED <<shutdown, stats, ends>>

ConnectFails(err) ==
  /\ pc = "connect"
  /\ Fails(err, "pause")
  /\ UNCHANGED <<shutdown, stats, ends>>

Subscribed ==
  /\ Goes("subscribe", "inner")
  /\ NoFailure
  /\ UNCHANGED <<shutdown, stats, ends>>

SubscribeFails(err) ==
  /\ pc = "subscribe"
  /\ Fails(err, "pause")
  /\ UNCHANGED <<shutdown, stats, ends>>

\* The two seconds before the next attempt; the flag is not looked at.
PauseEnds ==
  /\ Goes("pause", "outer")
  /\ NoFailure
  /\ UNCHANGED <<shutdown, stats, ends>>

----------------------------------------------------------------------------
(* Polling the stream.                                                      *)

\* Variant: the flag is not looked at between polls.
InnerUnchecked ==
  /\ Goes("inner", "poll")
  /\ NoFailure
  /\ UNCHANGED <<shutdown, stats, ends>>

Inner ==
  /\ Goes("inner", IF shutdown THEN "finished" ELSE "poll")
  /\ NoFailure
  /\ UNCHANGED <<shutdown, stats, ends>>

\* Nothing within STREAM_POLL_TIMEOUT, or a ping or an empty update.
NothingToSend ==
  /\ Goes("poll", "inner")
  /\ NoFailure
  /\ UNCHANGED <<shutdown, stats, ends>>

\* A decoded event forgets the errors and is handed over; the result of
\* try_send is ignored.
EventDecoded ==
  /\ Goes("poll", "inner") /\ events < MaxCount
  /\ last_error_text' = None
  /\ same_error_count' = 0
  /\ recent' = <<>>
  /\ events' = events + 1
  /\ UNCHANGED <<shutdown, decode_errors, disconnects, ends>>

DecodeFails ==
  /\ Goes("poll", "inner") /\ decode_errors < MaxCount
  /\ decode_errors' = decode_errors + 1
  /\ NoFailure
  /\ UNCHANGED <<shutdown, events, disconnects, ends>>

\* The stream ends without a status: back to connecting at once.
StreamEnds ==
  /\ Goes("poll", "outer") /\ ends < MaxCount
  /\ ends' = ends + 1
  /\ NoFailure
  /\ UNCHANGED <<shutdown, stats>>

\* It ends with a status: counted, and back to connecting at once unless the
\* receiver gives up.
StreamFails(err) ==
  /\ pc = "poll" /\ ends < MaxCount
  /\ Fails(err, "outer")
  /\ ends' = ends + 1
  /\ disconnects' = disconnects + 1
  /\ UNCHANGED <<shutdown, events, decode_errors>>

----------------------------------------------------------------------------
Shutdown ==
  /\ shutdown' = TRUE
  /\ UNCHANGED <<pc, last_error_text, same_error_count, stats, ends, recent>>

Step ==
  \/ Outer \/ Connected \/ Subscribed \/ PauseEnds
  \/ Inner \/ NothingToSend \/ EventDecoded \/ DecodeFails \/ StreamEnds
  \/ \E err \in Error : ConnectFails(err) \/ SubscribeFails(err) \/ StreamFails(err)

Next == Step \/ Shutdown

Spec == Init /\ [][Next]_vars

\* Polls time out, pauses end and attempts to connect come back; a call to
\* subscribe may hang.
Fair == WF_vars(pc # "subscribe" /\ Step)

----------------------------------------------------------------------------
(* Properties.                                                              *)

TypeOK ==
  /\ shutdown \in BOOLEAN
  /\ pc \in {"outer", "connect", "subscribe", "pause", "inner", "poll", "finished"}
  /\ last_error_text \in Error \cup {None}
  /\ same_error_count \in 0..MaxSame
  /\ events \in Nat /\ decode_errors \in Nat /\ disconnects \in Nat /\ ends \in Nat
  /\ recent \in Seq(Error) /\ Len(recent) <= MaxSame

\* The receiver gives a subscription up exactly when its last MaxSame failures
\* had one text and no event came between them, whether they happened in
\* connecting, subscribing or on the stream, and whatever else the stream did.
SameErrorRepeated ==
  Len(recent) = MaxSame /\ \A i \in 1..MaxSame : recent[i] = recent[1]
GivesUpExactly ==
  /\ SameErrorRepeated => pc = "finished"
  /\ pc = "finished" => SameErrorRepeated \/ shutdown

\* Once told to stop the receiver finishes, whatever the server does, unless a
\* call to subscribe hangs: the one await without a timeout.
FinishesUnlessHung == Fair => (shutdown ~> pc \in {"finished", "subscribe"})

\* The thread module Pipeline assumes.
Life == INSTANCE ReceiverLife WITH
  life <- IF pc \in {"connect", "subscribe"} THEN "connecting"
          ELSE IF pc = "pause" THEN "outer" ELSE pc
ImplementsLife == Life!Spec

============================================================================
