--------------------------- MODULE PipelineProofs ---------------------------
(***************************************************************************)
(* Proofs about Pipeline, for any plan, any ring capacity, any share of a   *)
(* pass, with and without raw records, and any number of events.            *)
(*                                                                          *)
(* The invariant is built in layers.  Types and places (TypeOK, AtRings)    *)
(* make the counters of a subscription well defined; the ledger and the     *)
(* lock need nothing else; what the result holds (ReportInv) needs the      *)
(* ledger; the last look at the rings (LookInv) is independent of both.     *)
(***************************************************************************)
EXTENDS Pipeline, TLAPS

----------------------------------------------------------------------------
(* The rings of the two endpoints.                                          *)

\* The dispatcher of a subscription is the one that has its ring.
LEMMA RingFacts ==
  ASSUME NEW e \in Endpoint, NEW i \in 1..Len(Rings[e])
  PROVE  Rings[e][i] \in Sub /\ EndpointOf(Rings[e][i]) = e
<1>1. Rings[e] \in Seq(Sub) /\ Rings[1] \in Seq(Sub) /\ Rings[2] \in Seq(Sub)
  BY RingsAssumption DEF Endpoint
<1>2. CASE e = 1
  BY <1>1, <1>2 DEF EndpointOf
<1>3. CASE e = 2
  <2>1. ~\E j \in 1..Len(Rings[1]) : Rings[1][j] = Rings[2][i]
    BY <1>3, RingsAssumption
  <2>2. QED
    BY <1>1, <1>3, <2>1 DEF EndpointOf
<1>4. QED
  BY <1>2, <1>3 DEF Endpoint

LEMMA EndpointFacts ==
  ASSUME NEW s \in Sub
  PROVE  /\ EndpointOf(s) \in Endpoint
         /\ \E i \in 1..Len(Rings[EndpointOf(s)]) : Rings[EndpointOf(s)][i] = s
<1>1. EndpointOf(s) \in Endpoint
  BY DEF EndpointOf, Endpoint
<1>2. PICK e \in Endpoint : \E i \in 1..Len(Rings[e]) : Rings[e][i] = s
  BY RingsAssumption
<1>3. e = EndpointOf(s)
  BY <1>2, RingFacts
<1>4. QED
  BY <1>1, <1>2, <1>3

----------------------------------------------------------------------------
(* Types and places.                                                        *)

\* A dispatcher with an event in hand is at one of its rings.
AtRings ==
  \A e \in Endpoint :
    dpc[e] \in {"match", "lock", "write", "count"} => cur[e] <= Len(Rings[e])

\* TypeOK by the thread that writes: receivers, dispatchers, coordinator.
RxTypes ==
  /\ rx \in [Sub -> {"outer", "connecting", "inner", "poll", "overflow", "finished"}]
  /\ dropped \in [Sub -> Nat]
  /\ sent \in [Sub -> Nat] /\ lost \in [Sub -> Nat] /\ late \in [Sub -> Nat]
PlaceTypes ==
  /\ dpc \in [Endpoint -> {"drain", "match", "lock", "write", "count", "finished"}]
  /\ cur \in [Endpoint -> Nat \ {0}]
  /\ \A e \in Endpoint : cur[e] <= Len(Rings[e]) + 1
  /\ AtRings
CountTypes ==
  /\ received \in [Sub -> Nat]
  /\ observed \in [Sub -> Nat] /\ counted \in [Sub -> Nat]
  /\ drained \in [Endpoint -> 0..DrainBudget]
  /\ got_any \in [Endpoint -> BOOLEAN] /\ seen_shutdown \in [Endpoint -> BOOLEAN]
  /\ raw_lock \in Endpoint \cup {None}
  /\ total_slots \in Nat
CoordTypes ==
  /\ cpc \in {"loop", "reclaim1", "reclaim2", "receivers", "flush", "received",
              "dropped", "unwrap", "write", "done"}
  /\ reclaimed \in SUBSET Endpoint
  /\ stuck \in SUBSET Sub
  /\ report \in [kept : BOOLEAN, received : [Sub -> Nat], dropped : [Sub -> Nat],
                 counted : [Sub -> Nat], observed : [Sub -> Nat]]
SharedTypes == shutdown \in BOOLEAN /\ elapsed \in BOOLEAN /\ ring \in [Sub -> 0..Capacity]

Types == RxTypes /\ PlaceTypes /\ CountTypes /\ CoordTypes /\ SharedTypes

LEMMA TypesAreTypeOK == Types <=> TypeOK /\ AtRings
  BY DEF Types, RxTypes, PlaceTypes, CountTypes, CoordTypes, SharedTypes, TypeOK

LEMMA RingAtFacts ==
  ASSUME PlaceTypes, NEW e \in Endpoint, cur[e] <= Len(Rings[e])
  PROVE  RingAt(e) \in Sub /\ EndpointOf(RingAt(e)) = e
<1>1. Rings[e] \in Seq(Sub)
  BY RingsAssumption
<1>2. cur[e] \in 1..Len(Rings[e])
  BY <1>1 DEF PlaceTypes
<1>3. QED
  BY <1>2, RingFacts DEF RingAt

\* A dispatcher with an event in hand or taking one is at a ring of its own.
LEMMA HandFacts ==
  ASSUME PlaceTypes, NEW e \in Endpoint,
         dpc[e] \in {"match", "lock", "write", "count"} \/ Recv(e)
  PROVE  RingAt(e) \in Sub /\ EndpointOf(RingAt(e)) = e
  BY RingAtFacts DEF PlaceTypes, AtRings, Recv, AtRing

----------------------------------------------------------------------------
(* What each thread leaves alone.                                           *)

LEMMA ReceiverFrame ==
  ASSUME NEW s \in Sub, Receiver(s)
  PROVE  UNCHANGED <<shutdown, elapsed, dispatcherVars, coordVars>>
  BY DEF Receiver, RxOuter, RxConnect, RxInner, RxPoll, TrySend, CountDrop

LEMMA DispatcherFrame ==
  ASSUME NEW e \in Endpoint, Dispatcher(e)
  PROVE  UNCHANGED <<shutdown, elapsed, rxVars, coordVars>>
  BY DEF Dispatcher, Recv, NextRing, Match, LockRaw, WriteRaw, Count, EndPass

LEMMA CoordinatorFrame ==
  ASSUME Coordinator
  PROVE  UNCHANGED <<ring, elapsed, rxVars, dispatcherVars>>
  BY DEF Coordinator, CoordStop, Reclaim, AwaitReceivers, FlushRaw, ReadReceived,
         ReadDropped, Unwrap, WriteResult

\* Every step is a step of one thread, the signal, the clock, or nothing.
LEMMA StepCases ==
  ASSUME [Next]_vars
  PROVE  \/ \E s \in Sub : Receiver(s)
         \/ \E e \in Endpoint : Dispatcher(e)
         \/ Sigint \/ DurationElapses \/ Coordinator
         \/ UNCHANGED vars
  BY DEF Next

----------------------------------------------------------------------------
(* The types are kept.                                                      *)

LEMMA TypesInit == Init => Types
<1>1. SUFFICES ASSUME Init PROVE Types
  OBVIOUS
<1>2. \A e \in Endpoint : Len(Rings[e]) \in Nat
  BY RingsAssumption
<1>3. 0 \in 0..Capacity /\ 0 \in 0..DrainBudget
  BY CapacityAssumption, DrainBudgetAssumption
<1>4. RxTypes
  BY <1>1 DEF Init, RxTypes
<1>5. PlaceTypes
  BY <1>1, <1>2 DEF Init, PlaceTypes, AtRings
<1>6. CountTypes
  BY <1>1, <1>3 DEF Init, CountTypes
<1>7. CoordTypes
  BY <1>1 DEF Init, CoordTypes, Empty
<1>8. SharedTypes
  BY <1>1, <1>3 DEF Init, SharedTypes
<1>9. QED
  BY <1>4, <1>5, <1>6, <1>7, <1>8 DEF Types

LEMMA ReceiverTypes ==
  ASSUME Types, NEW s \in Sub, Receiver(s)
  PROVE  Types'
<1>1. Capacity \in Nat
  BY CapacityAssumption
<1>2. RxTypes' /\ ring' \in [Sub -> 0..Capacity]
  <2>1. CASE RxOuter(s)
    BY <2>1 DEF Types, RxTypes, SharedTypes, RxOuter, RxGoes
  <2>2. CASE RxConnect(s)
    BY <2>2 DEF Types, RxTypes, SharedTypes, RxConnect, RxGoes
  <2>3. CASE RxInner(s)
    BY <2>3 DEF Types, RxTypes, SharedTypes, RxInner, RxGoes
  <2>4. CASE RxPoll(s)
    BY <2>4 DEF Types, RxTypes, SharedTypes, RxPoll, RxGoes
  <2>5. CASE TrySend(s)
    BY <2>5, <1>1 DEF Types, RxTypes, SharedTypes, TrySend, RxGoes
  <2>6. CASE CountDrop(s)
    BY <2>6 DEF Types, RxTypes, SharedTypes, CountDrop, RxGoes
  <2>7. QED
    BY <2>1, <2>2, <2>3, <2>4, <2>5, <2>6 DEF Receiver
<1>3. UNCHANGED <<shutdown, elapsed, dispatcherVars, coordVars>>
  BY ReceiverFrame
<1>4. PlaceTypes' /\ CountTypes' /\ CoordTypes'
  BY <1>3 DEF Types, PlaceTypes, AtRings, CountTypes, CoordTypes, dispatcherVars, coordVars
<1>5. QED
  BY <1>2, <1>3, <1>4 DEF Types, SharedTypes

LEMMA DispatcherTypes ==
  ASSUME Types, NEW e \in Endpoint, Dispatcher(e)
  PROVE  Types'
<1>1. Capacity \in Nat /\ DrainBudget \in Nat /\ Len(Rings[e]) \in Nat
  BY CapacityAssumption, DrainBudgetAssumption, RingsAssumption
<1>2. UNCHANGED <<shutdown, elapsed, rxVars, coordVars>>
  BY DispatcherFrame
<1>3. RxTypes' /\ CoordTypes'
  BY <1>2 DEF Types, RxTypes, CoordTypes, rxVars, coordVars
<1>4. PlaceTypes /\ CountTypes /\ ring \in [Sub -> 0..Capacity]
  BY DEF Types, SharedTypes
<1>5. dpc[e] \in {"match", "lock", "write", "count"} \/ Recv(e) => RingAt(e) \in Sub
  BY <1>4, HandFacts
<1>6. PlaceTypes'
  <2> USE <1>4 DEF PlaceTypes, AtRings
  <2>1. CASE Recv(e)
    BY <2>1 DEF Recv, AtRing
  <2>2. CASE NextRing(e)
    <3>1. /\ dpc' = dpc /\ dpc[e] = "drain" /\ cur[e] <= Len(Rings[e])
          /\ cur' = [cur EXCEPT ![e] = cur[e] + 1]
      BY <2>2 DEF NextRing, AtRing
    <3>2. cur' \in [Endpoint -> Nat \ {0}]
      BY <3>1
    <3>3. \A f \in Endpoint : cur'[f] <= Len(Rings[f]) + 1
      BY <3>1, <1>1
    <3>4. \A f \in Endpoint :
            dpc'[f] \in {"match", "lock", "write", "count"} => cur'[f] <= Len(Rings[f])
      BY <3>1
    <3>5. QED
      BY <3>1, <3>2, <3>3, <3>4
  <2>3. CASE Match(e)
    BY <2>3 DEF Match
  <2>4. CASE LockRaw(e)
    BY <2>4 DEF LockRaw
  <2>5. CASE WriteRaw(e)
    BY <2>5 DEF WriteRaw
  <2>6. CASE Count(e)
    BY <2>6 DEF Count
  <2>7. CASE EndPass(e)
    <3>1. /\ dpc[e] = "drain"
          /\ dpc' = dpc \/ dpc' = [dpc EXCEPT ![e] = "finished"]
          /\ cur' = [cur EXCEPT ![e] = 1]
      BY <2>7 DEF EndPass
    <3>2. cur' \in [Endpoint -> Nat \ {0}]
      BY <3>1
    <3>3. \A f \in Endpoint : cur'[f] <= Len(Rings[f]) + 1
      BY <3>1, <1>1
    <3>4. dpc' \in [Endpoint -> {"drain", "match", "lock", "write", "count", "finished"}]
      BY <3>1
    <3>5. \A f \in Endpoint :
            dpc'[f] \in {"match", "lock", "write", "count"} => cur'[f] <= Len(Rings[f])
      BY <3>1
    <3>6. QED
      BY <3>2, <3>3, <3>4, <3>5
  <2>8. QED
    BY <2>1, <2>2, <2>3, <2>4, <2>5, <2>6, <2>7 DEF Dispatcher
<1>7. CountTypes' /\ ring' \in [Sub -> 0..Capacity]
  <2> USE <1>4 DEF CountTypes
  <2>1. CASE Recv(e)
    <3>1. received' \in [Sub -> Nat]
      BY <2>1, <1>5 DEF Recv
    <3>2. drained' \in [Endpoint -> 0..DrainBudget] /\ got_any' \in [Endpoint -> BOOLEAN]
      BY <2>1, <1>1 DEF Recv
    <3>3. ring' \in [Sub -> 0..Capacity]
      <4>1. /\ RingAt(e) \in Sub /\ ring[RingAt(e)] > 0
            /\ ring' = [ring EXCEPT ![RingAt(e)] = ring[RingAt(e)] - 1]
        BY <2>1, <1>5 DEF Recv
      <4> HIDE DEF CountTypes
      <4>2. ring[RingAt(e)] - 1 \in 0..Capacity
        BY <4>1, <1>1
      <4>3. QED
        BY <4>1, <4>2
    <3>4. QED
      BY <2>1, <3>1, <3>2, <3>3 DEF Recv
  <2>2. CASE NextRing(e)
    BY <2>2, <1>1 DEF NextRing
  <2>3. CASE Match(e)
    BY <2>3, <1>5 DEF Match
  <2>4. CASE LockRaw(e)
    BY <2>4 DEF LockRaw
  <2>5. CASE WriteRaw(e)
    BY <2>5 DEF WriteRaw
  <2>6. CASE Count(e)
    BY <2>6, <1>5 DEF Count
  <2>7. CASE EndPass(e)
    <3>1. shutdown \in BOOLEAN
      BY DEF Types, SharedTypes
    <3>2. seen_shutdown' \in [Endpoint -> BOOLEAN] /\ got_any' \in [Endpoint -> BOOLEAN]
      BY <2>7, <3>1 DEF EndPass
    <3>3. QED
      BY <2>7, <3>2 DEF EndPass
  <2>8. QED
    BY <2>1, <2>2, <2>3, <2>4, <2>5, <2>6, <2>7 DEF Dispatcher
<1>8. QED
  BY <1>2, <1>3, <1>6, <1>7 DEF Types, SharedTypes

LEMMA CoordinatorTypes ==
  ASSUME Types, Coordinator
  PROVE  Types'
<1>1. UNCHANGED <<ring, elapsed, rxVars, dispatcherVars>>
  BY CoordinatorFrame
<1>2. RxTypes' /\ PlaceTypes' /\ CountTypes'
  BY <1>1 DEF Types, RxTypes, PlaceTypes, AtRings, CountTypes, rxVars, dispatcherVars
<1>3. CoordTypes' /\ shutdown' \in BOOLEAN
  <2> USE DEF Types, CoordTypes, SharedTypes, CoordGoes
  <2>1. CASE CoordStop
    BY <2>1 DEF CoordStop
  <2>2. CASE Reclaim(1, "reclaim1", "reclaim2") \/ Reclaim(2, "reclaim2", "receivers")
    BY <2>2 DEF Reclaim, Endpoint
  <2>3. CASE AwaitReceivers
    BY <2>3 DEF AwaitReceivers
  <2>4. CASE FlushRaw \/ WriteResult
    BY <2>4 DEF FlushRaw, WriteResult
  <2>5. CASE ReadReceived
    BY <2>5 DEF ReadReceived, CountTypes
  <2>6. CASE ReadDropped
    BY <2>6 DEF ReadDropped, RxTypes
  <2>7. CASE Unwrap
    BY <2>7 DEF Unwrap, CountTypes
  <2>8. QED
    BY <2>1, <2>2, <2>3, <2>4, <2>5, <2>6, <2>7 DEF Coordinator
<1>4. QED
  BY <1>1, <1>2, <1>3 DEF Types, SharedTypes

LEMMA TypesStep == Types /\ [Next]_vars => Types'
<1>1. SUFFICES ASSUME Types, [Next]_vars PROVE Types'
  OBVIOUS
<1>2. CASE Sigint \/ DurationElapses
  BY <1>1, <1>2
     DEF Sigint, DurationElapses, rxVars, dispatcherVars, coordVars,
         Types, RxTypes, PlaceTypes, AtRings, CountTypes, CoordTypes, SharedTypes
<1>3. CASE UNCHANGED vars
  BY <1>1, <1>3
     DEF vars, rxVars, dispatcherVars, coordVars,
         Types, RxTypes, PlaceTypes, AtRings, CountTypes, CoordTypes, SharedTypes
<1>4. QED
  BY <1>1, <1>2, <1>3, StepCases, ReceiverTypes, DispatcherTypes, CoordinatorTypes

----------------------------------------------------------------------------
(* The raw writer's lock.                                                   *)

LEMMA LockStep ==
  ASSUME Types, RawLockHeld, [Next]_vars
  PROVE  RawLockHeld'
<1>1. ASSUME NEW e \in Endpoint, Dispatcher(e) PROVE RawLockHeld'
  <2> USE DEF Types, PlaceTypes, CountTypes, RawLockHeld, Endpoint, None
  <2>1. CASE Recv(e)
    BY <2>1 DEF Recv, AtRing
  <2>2. CASE NextRing(e)
    BY <2>2 DEF NextRing
  <2>3. CASE Match(e)
    BY <2>3 DEF Match
  <2>4. CASE LockRaw(e)
    BY <2>4 DEF LockRaw
  <2>5. CASE WriteRaw(e)
    BY <2>5 DEF WriteRaw
  <2>6. CASE Count(e)
    BY <2>6 DEF Count
  <2>7. CASE EndPass(e)
    BY <2>7 DEF EndPass
  <2>8. QED
    BY <1>1, <2>1, <2>2, <2>3, <2>4, <2>5, <2>6, <2>7 DEF Dispatcher
<1>2. CASE UNCHANGED dispatcherVars
  BY <1>2 DEF RawLockHeld, dispatcherVars
<1>3. QED
  BY <1>1, <1>2, StepCases, ReceiverFrame, CoordinatorFrame
     DEF Sigint, DurationElapses, vars

----------------------------------------------------------------------------
(* The ledger.                                                              *)

LEMMA LedgerReceiver ==
  ASSUME Types, EventLedger, NEW s \in Sub, Receiver(s)
  PROVE  EventLedger'
<1>1. UNCHANGED dispatcherVars
  BY ReceiverFrame
<1>2. SUFFICES ASSUME NEW t \in Sub
               PROVE  sent'[t] = ring'[t] + received'[t] + dropped'[t] + lost'[t]
                                   + IF rx'[t] = "overflow" THEN 1 ELSE 0
  BY <1>1 DEF EventLedger, InHand, RingAt, dispatcherVars
<1>3. sent[t] = ring[t] + received[t] + dropped[t] + lost[t]
                  + IF rx[t] = "overflow" THEN 1 ELSE 0
  BY DEF EventLedger
<1>4. /\ sent[t] \in Nat /\ ring[t] \in Nat /\ received[t] \in Nat
      /\ dropped[t] \in Nat /\ lost[t] \in Nat
  BY CapacityAssumption DEF Types, RxTypes, CountTypes, SharedTypes
<1> USE DEF Types, RxTypes, SharedTypes, RxGoes
<1>5. CASE RxOuter(s)
  BY <1>1, <1>3, <1>5 DEF RxOuter, dispatcherVars
<1>6. CASE RxConnect(s)
  BY <1>1, <1>3, <1>6 DEF RxConnect, dispatcherVars
<1>7. CASE RxInner(s)
  BY <1>1, <1>3, <1>7 DEF RxInner, dispatcherVars
<1>8. CASE RxPoll(s)
  BY <1>1, <1>3, <1>8 DEF RxPoll, dispatcherVars
<1>9. CASE TrySend(s)
  BY <1>1, <1>3, <1>4, <1>9 DEF TrySend, dispatcherVars
<1>10. CASE CountDrop(s)
  BY <1>1, <1>3, <1>4, <1>10 DEF CountDrop, dispatcherVars
<1>11. QED
  BY <1>5, <1>6, <1>7, <1>8, <1>9, <1>10 DEF Receiver

\* Of a dispatcher's steps only those that move an event from one place to the
\* next touch the ledger, and only the ledger of the ring the dispatcher is at.
LEMMA LedgerDispatcher ==
  ASSUME Types, EventLedger, NEW e \in Endpoint, Dispatcher(e)
  PROVE  EventLedger'
<1>1. UNCHANGED rxVars
  BY DispatcherFrame
<1>2. SUFFICES ASSUME NEW t \in Sub
               PROVE  /\ sent'[t] = ring'[t] + received'[t] + dropped'[t] + lost'[t]
                                      + IF rx'[t] = "overflow" THEN 1 ELSE 0
                      /\ received'[t] = observed'[t] + InHand(t, {"match"})'
                      /\ observed'[t] = counted'[t] + InHand(t, {"lock", "write", "count"})'
  BY DEF EventLedger
<1> DEFINE Moved ==
      /\ ring'[t] + received'[t] = ring[t] + received[t]
      /\ received'[t] - received[t]
           = (observed'[t] - observed[t]) + (InHand(t, {"match"})' - InHand(t, {"match"}))
      /\ observed'[t] - observed[t]
           = (counted'[t] - counted[t])
               + (InHand(t, {"lock", "write", "count"})' - InHand(t, {"lock", "write", "count"}))
      /\ ring'[t] \in Int /\ received'[t] \in Int
      /\ observed'[t] \in Int /\ counted'[t] \in Int
<1>3. /\ ring[t] \in Nat /\ received[t] \in Nat /\ observed[t] \in Nat /\ counted[t] \in Nat
      /\ ring \in [Sub -> Nat]
  BY CapacityAssumption DEF Types, CountTypes, SharedTypes
<1>4. EndpointOf(t) \in Endpoint
  BY EndpointFacts
<1>5. dpc \in [Endpoint -> {"drain", "match", "lock", "write", "count", "finished"}]
      /\ cur \in [Endpoint -> Nat \ {0}]
      /\ received \in [Sub -> Nat] /\ observed \in [Sub -> Nat] /\ counted \in [Sub -> Nat]
  BY DEF Types, PlaceTypes, CountTypes
<1>6. \/ UNCHANGED <<ring, received, observed, counted>>
      \/ RingAt(e) \in Sub /\ EndpointOf(RingAt(e)) = e
  BY HandFacts DEF Types, Dispatcher, NextRing, Match, LockRaw, WriteRaw, Count, EndPass
<1>7. ASSUME EndpointOf(t) # e PROVE Moved
  <2>1. /\ dpc'[EndpointOf(t)] = dpc[EndpointOf(t)]
        /\ cur'[EndpointOf(t)] = cur[EndpointOf(t)]
    BY <1>4, <1>5, <1>7
       DEF Dispatcher, Recv, NextRing, Match, LockRaw, WriteRaw, Count, EndPass
  <2>2. \A at : InHand(t, at)' = InHand(t, at)
    BY <2>1 DEF InHand, RingAt
  <2>3. /\ ring'[t] = ring[t] /\ received'[t] = received[t]
        /\ observed'[t] = observed[t] /\ counted'[t] = counted[t]
    BY <1>3, <1>5, <1>6, <1>7
       DEF Dispatcher, Recv, NextRing, Match, LockRaw, WriteRaw, Count, EndPass
  <2>4. InHand(t, {"match"}) \in Int /\ InHand(t, {"lock", "write", "count"}) \in Int
    BY DEF InHand
  <2>5. QED
    BY <1>3, <2>2, <2>3, <2>4
<1>8. ASSUME EndpointOf(t) = e PROVE Moved
  <2>1. \A at : InHand(t, at) = IF dpc[e] \in at /\ RingAt(e) = t THEN 1 ELSE 0
    BY <1>8 DEF InHand
  <2>2. \A at : InHand(t, at)' = IF dpc'[e] \in at /\ RingAt(e)' = t THEN 1 ELSE 0
    BY <1>8 DEF InHand
  <2>3. CASE Recv(e)
    <3>1. /\ RingAt(e)' = RingAt(e) /\ dpc[e] = "drain" /\ dpc'[e] = "match"
          /\ UNCHANGED <<observed, counted>>
      BY <1>5, <2>3 DEF Recv, AtRing, RingAt
    <3>2. IF RingAt(e) = t
          THEN ring[t] > 0 /\ ring'[t] = ring[t] - 1 /\ received'[t] = received[t] + 1
          ELSE ring'[t] = ring[t] /\ received'[t] = received[t]
      BY <1>3, <1>5, <2>3 DEF Recv
    <3>3. QED
      BY <1>3, <2>1, <2>2, <3>1, <3>2
  <2>4. CASE NextRing(e) \/ EndPass(e)
    <3>1. /\ dpc[e] = "drain" /\ dpc'[e] \in {"drain", "finished"}
          /\ UNCHANGED <<ring, received, observed, counted>>
      BY <1>5, <2>4 DEF NextRing, EndPass, AtRing
    <3>2. QED
      BY <1>3, <2>1, <2>2, <3>1
  <2>5. CASE Match(e)
    <3>1. /\ RingAt(e)' = RingAt(e) /\ dpc[e] = "match" /\ dpc'[e] \in {"lock", "count"}
          /\ UNCHANGED <<ring, received, counted>>
      BY <1>5, <2>5 DEF Match, RingAt
    <3>2. observed'[t] = IF RingAt(e) = t THEN observed[t] + 1 ELSE observed[t]
      BY <1>5, <2>5 DEF Match
    <3>3. QED
      BY <1>3, <2>1, <2>2, <3>1, <3>2
  <2>6. CASE LockRaw(e) \/ WriteRaw(e)
    <3>1. /\ RingAt(e)' = RingAt(e)
          /\ dpc[e] \in {"lock", "write"} /\ dpc'[e] \in {"write", "count"}
          /\ UNCHANGED <<ring, received, observed, counted>>
      BY <1>5, <2>6 DEF LockRaw, WriteRaw, RingAt
    <3>2. QED
      BY <1>3, <2>1, <2>2, <3>1
  <2>7. CASE Count(e)
    <3>1. /\ RingAt(e)' = RingAt(e) /\ dpc[e] = "count" /\ dpc'[e] = "drain"
          /\ UNCHANGED <<ring, received, observed>>
      BY <1>5, <2>7 DEF Count, RingAt
    <3>2. counted'[t] = IF RingAt(e) = t THEN counted[t] + 1 ELSE counted[t]
      BY <1>5, <2>7 DEF Count
    <3>3. QED
      BY <1>3, <2>1, <2>2, <3>1, <3>2
  <2>8. QED
    BY <2>3, <2>4, <2>5, <2>6, <2>7 DEF Dispatcher
<1>9. /\ sent[t] \in Int /\ dropped[t] \in Int /\ lost[t] \in Int
      /\ InHand(t, {"match"}) \in Int /\ InHand(t, {"match"})' \in Int
      /\ InHand(t, {"lock", "write", "count"}) \in Int
      /\ InHand(t, {"lock", "write", "count"})' \in Int
  BY DEF Types, RxTypes, InHand
<1>10. /\ sent[t] = ring[t] + received[t] + dropped[t] + lost[t]
                      + IF rx[t] = "overflow" THEN 1 ELSE 0
       /\ received[t] = observed[t] + InHand(t, {"match"})
       /\ observed[t] = counted[t] + InHand(t, {"lock", "write", "count"})
  BY DEF EventLedger
<1>11. Moved
  BY <1>7, <1>8
<1>12. UNCHANGED <<sent, dropped, lost, rx>>
  BY <1>1 DEF rxVars
<1>13. QED
  BY <1>3, <1>9, <1>10, <1>11, <1>12

LEMMA LedgerStep ==
  ASSUME Types, EventLedger, [Next]_vars
  PROVE  EventLedger'
<1>1. CASE UNCHANGED <<ring, rxVars, dispatcherVars>>
  BY <1>1 DEF EventLedger, InHand, RingAt, rxVars, dispatcherVars
<1>2. QED
  BY <1>1, StepCases, LedgerReceiver, LedgerDispatcher, CoordinatorFrame
     DEF Sigint, DurationElapses, vars

----------------------------------------------------------------------------
(* Losses.                                                                  *)

\* A receiver that found its dispatcher gone will find the flag up next.
LossInv ==
  /\ \A e \in Endpoint : Finished(e) => shutdown
  /\ \A s \in Sub : \/ lost[s] = 0
                    \/ lost[s] = 1 /\ shutdown /\ rx[s] \in {"inner", "finished"}

LEMMA LossReceiver ==
  ASSUME Types, LossInv, NEW s \in Sub, Receiver(s)
  PROVE  LossInv'
<1>1. UNCHANGED <<shutdown, dpc>>
  BY ReceiverFrame DEF dispatcherVars
<1>2. SUFFICES ASSUME NEW t \in Sub
               PROVE  \/ lost'[t] = 0
                      \/ lost'[t] = 1 /\ shutdown /\ rx'[t] \in {"inner", "finished"}
  BY <1>1 DEF LossInv, Finished
<1>3. \/ lost[t] = 0
      \/ lost[t] = 1 /\ shutdown /\ rx[t] \in {"inner", "finished"}
  BY DEF LossInv
<1>4. /\ rx \in [Sub -> {"outer", "connecting", "inner", "poll", "overflow", "finished"}]
      /\ lost \in [Sub -> Nat]
  BY DEF Types, RxTypes
<1>5. CASE RxOuter(s)
  BY <1>3, <1>4, <1>5 DEF RxOuter, RxGoes
<1>6. CASE RxConnect(s)
  BY <1>3, <1>4, <1>6 DEF RxConnect, RxGoes
<1>7. CASE RxInner(s)
  BY <1>3, <1>4, <1>7 DEF RxInner, RxGoes
<1>8. CASE RxPoll(s)
  BY <1>3, <1>4, <1>8 DEF RxPoll, RxGoes
<1>9. CASE TrySend(s)
  <2>1. Finished(EndpointOf(s)) => shutdown
    BY EndpointFacts DEF LossInv
  <2>2. QED
    BY <1>3, <1>4, <1>9, <2>1 DEF TrySend, RxGoes
<1>10. CASE CountDrop(s)
  BY <1>3, <1>4, <1>10 DEF CountDrop, RxGoes
<1>11. QED
  BY <1>5, <1>6, <1>7, <1>8, <1>9, <1>10 DEF Receiver

LEMMA LossStep ==
  ASSUME Types, LossInv, [Next]_vars
  PROVE  LossInv'
<1>1. ASSUME NEW e \in Endpoint, Dispatcher(e) PROVE LossInv'
  <2>1. \A f \in Endpoint : dpc'[f] = "finished" => dpc[f] = "finished" \/ shutdown
    BY <1>1 DEF Types, PlaceTypes, Dispatcher, Recv, NextRing, Match, LockRaw, WriteRaw,
                Count, EndPass
  <2>2. UNCHANGED <<shutdown, rx, lost>>
    BY <1>1, DispatcherFrame DEF rxVars
  <2>3. QED
    BY <2>1, <2>2 DEF LossInv, Finished
<1>2. CASE Sigint \/ Coordinator
  <2>1. UNCHANGED <<rxVars, dispatcherVars>> /\ (shutdown => shutdown')
    BY <1>2, CoordinatorFrame
       DEF Sigint, Coordinator, CoordStop, Reclaim, AwaitReceivers, FlushRaw, ReadReceived,
           ReadDropped, Unwrap, WriteResult
  <2>2. QED
    BY <2>1 DEF LossInv, Finished, rxVars, dispatcherVars
<1>3. CASE DurationElapses \/ UNCHANGED vars
  BY <1>3 DEF DurationElapses, vars, LossInv, Finished, rxVars, dispatcherVars
<1>4. QED
  BY <1>1, <1>2, <1>3, StepCases, LossReceiver

----------------------------------------------------------------------------
(* The result.                                                              *)

\* What the coordinator has read so far is what still holds: a dispatcher that
\* was joined and a receiver that was seen to finish take no further step.
ReportInv ==
  /\ \A e \in reclaimed : Finished(e)
  /\ cpc \in {"flush", "received", "dropped", "unwrap", "write", "done"} /\ stuck = {} =>
       \A s \in Sub : rx[s] = "finished"
  /\ cpc \in {"dropped", "unwrap", "write", "done"} /\ reclaimed = Endpoint =>
       \A s \in Sub : report.received[s] = received[s] /\ report.counted[s] = counted[s]
  /\ cpc \in {"unwrap", "write", "done"} /\ stuck = {} =>
       \A s \in Sub : report.dropped[s] = dropped[s]
  /\ cpc \in {"write", "done"} /\ reclaimed = Endpoint => report.kept
  /\ report.kept => \A e \in Endpoint : Finished(e)
  /\ KeptMeansFinal

LEMMA ReportReceiver ==
  ASSUME Types, ReportInv, NEW s \in Sub, Receiver(s)
  PROVE  ReportInv'
<1>1. UNCHANGED <<dispatcherVars, coordVars>>
  BY ReceiverFrame
<1>2. rx[s] # "finished"
  BY DEF Receiver, RxOuter, RxConnect, RxInner, RxPoll, TrySend, CountDrop, RxGoes
<1>3. ~(cpc \in {"flush", "received", "dropped", "unwrap", "write", "done"} /\ stuck = {})
  BY <1>2 DEF ReportInv
<1>4. QED
  BY <1>1, <1>3 DEF ReportInv, KeptMeansFinal, Finished, dispatcherVars, coordVars

LEMMA ReportDispatcher ==
  ASSUME Types, ReportInv, NEW e \in Endpoint, Dispatcher(e)
  PROVE  ReportInv'
<1>1. UNCHANGED <<rxVars, coordVars>>
  BY DispatcherFrame
<1>2. ~Finished(e)
  BY DEF Dispatcher, Recv, NextRing, Match, LockRaw, WriteRaw, Count, EndPass, AtRing, Finished
<1>3. reclaimed # Endpoint /\ ~report.kept
  BY <1>2 DEF ReportInv
<1>4. \A f \in Endpoint : Finished(f) => Finished(f)'
  BY <1>2 DEF Types, PlaceTypes, Finished, Dispatcher, Recv, NextRing, Match, LockRaw,
              WriteRaw, Count, EndPass
<1>5. reclaimed \subseteq Endpoint
  BY DEF Types, CoordTypes
<1>6. QED
  BY <1>1, <1>3, <1>4, <1>5 DEF ReportInv, KeptMeansFinal, rxVars, coordVars

LEMMA ReportCoordinator ==
  ASSUME Types, EventLedger, ReportInv, Coordinator
  PROVE  ReportInv'
<1>1. UNCHANGED <<rxVars, dispatcherVars>>
  BY CoordinatorFrame
<1>2. \A e \in Endpoint : Finished(e)' = Finished(e)
  BY <1>1 DEF Finished, dispatcherVars
<1>3. UNCHANGED <<rx, dropped, received, counted, observed>>
  BY <1>1 DEF rxVars, dispatcherVars
<1>4. reclaimed \subseteq Endpoint
  BY DEF Types, CoordTypes
<1>5. CASE CoordStop
  BY <1>2, <1>3, <1>4, <1>5 DEF CoordStop, CoordGoes, ReportInv, KeptMeansFinal
<1>6. CASE Reclaim(1, "reclaim1", "reclaim2") \/ Reclaim(2, "reclaim2", "receivers")
  BY <1>2, <1>3, <1>4, <1>6 DEF Reclaim, CoordGoes, ReportInv, KeptMeansFinal, Endpoint
<1>7. CASE AwaitReceivers
  BY <1>2, <1>3, <1>4, <1>7 DEF AwaitReceivers, CoordGoes, ReportInv, KeptMeansFinal
<1>8. CASE FlushRaw \/ WriteResult
  BY <1>2, <1>3, <1>4, <1>8 DEF FlushRaw, WriteResult, CoordGoes, ReportInv, KeptMeansFinal
<1>9. CASE ReadReceived
  <2>1. /\ cpc' = "dropped" /\ cpc = "received" /\ UNCHANGED <<reclaimed, stuck>>
        /\ report'.kept = report.kept /\ report'.observed = report.observed
        /\ report'.received = received
        /\ reclaimed = Endpoint => \A s \in Sub : report'.counted[s] = counted[s]
    BY <1>9, EndpointFacts DEF Types, CoordTypes, ReadReceived, CoordGoes
  <2>2. QED
    BY <1>2, <1>3, <1>4, <2>1 DEF ReportInv, KeptMeansFinal
<1>10. CASE ReadDropped
  <2>1. /\ cpc' = "unwrap" /\ cpc = "dropped" /\ UNCHANGED <<reclaimed, stuck>>
        /\ report'.kept = report.kept /\ report'.observed = report.observed
        /\ report'.received = report.received /\ report'.counted = report.counted
        /\ report'.dropped = dropped
    BY <1>10 DEF Types, CoordTypes, ReadDropped, CoordGoes
  <2>2. QED
    BY <1>2, <1>3, <1>4, <2>1 DEF ReportInv, KeptMeansFinal
<1>11. CASE Unwrap
  <2>1. cpc' = "write" /\ cpc = "unwrap" /\ UNCHANGED <<reclaimed, stuck>>
    BY <1>11 DEF Unwrap, CoordGoes
  <2>2. CASE \A e \in Endpoint : Finished(e)
    <3>1. /\ report'.kept /\ report'.observed = observed
          /\ report'.received = report.received /\ report'.counted = report.counted
          /\ report'.dropped = report.dropped
      BY <1>11, <2>2 DEF Types, CoordTypes, Unwrap
    <3>2. \A s \in Sub : InHand(s, {"match"}) = 0
      BY <2>2, EndpointFacts DEF InHand, Finished
    <3>3. \A s \in Sub : observed[s] = received[s]
      BY <3>2 DEF EventLedger, Types, CountTypes
    <3>4. QED
      BY <1>2, <1>3, <1>4, <2>1, <2>2, <3>1, <3>3 DEF ReportInv, KeptMeansFinal
  <2>3. CASE ~\A e \in Endpoint : Finished(e)
    <3>1. report' = report /\ reclaimed # Endpoint /\ ~report.kept
      BY <1>11, <2>3 DEF Unwrap, ReportInv
    <3>2. QED
      BY <1>2, <1>3, <1>4, <2>1, <3>1 DEF ReportInv, KeptMeansFinal
  <2>4. QED
    BY <2>2, <2>3
<1>12. QED
  BY <1>5, <1>6, <1>7, <1>8, <1>9, <1>10, <1>11 DEF Coordinator

LEMMA ReportStep ==
  ASSUME Types, EventLedger, ReportInv, [Next]_vars
  PROVE  ReportInv'
<1>1. CASE Sigint \/ DurationElapses \/ UNCHANGED vars
  BY <1>1 DEF Sigint, DurationElapses, vars, ReportInv, KeptMeansFinal, Finished,
              rxVars, dispatcherVars, coordVars
<1>2. QED
  BY <1>1, StepCases, ReportReceiver, ReportDispatcher, ReportCoordinator

----------------------------------------------------------------------------
(* The last look at the rings.                                              *)

\* In a pass that began after the flag was seen and has found nothing so far,
\* the rings behind the dispatcher hold late events only.
Behind(e) == {i \in 1..Len(Rings[e]) : i < cur[e]}
LookInv ==
  \A e \in Endpoint :
    /\ seen_shutdown[e] => shutdown
    /\ cur[e] > Len(Rings[e]) \/ ~got_any[e] => drained[e] = 0
    /\ ~got_any[e] => dpc[e] \in {"drain", "finished"}
    /\ seen_shutdown[e] /\ ~got_any[e] /\ dpc[e] = "drain" =>
         \A i \in Behind(e) : ring[Rings[e][i]] <= late[Rings[e][i]]

LEMMA LookReceiver ==
  ASSUME Types, LookInv, NEW s \in Sub, Receiver(s)
  PROVE  LookInv'
<1>1. UNCHANGED <<shutdown, dispatcherVars>>
  BY ReceiverFrame
<1>2. ring \in [Sub -> Nat] /\ late \in [Sub -> Nat]
  BY CapacityAssumption DEF Types, RxTypes, SharedTypes
<1>3. ASSUME shutdown, NEW t \in Sub, ring[t] <= late[t]
      PROVE  ring'[t] <= late'[t]
  <2>1. CASE TrySend(s)
    BY <1>2, <1>3, <2>1 DEF TrySend
  <2>2. CASE UNCHANGED <<ring, late>>
    BY <1>3, <2>2
  <2>3. QED
    BY <2>1, <2>2 DEF Receiver, RxOuter, RxConnect, RxInner, RxPoll, CountDrop
<1>4. \A e \in Endpoint : \A i \in Behind(e) : Rings[e][i] \in Sub
  BY RingFacts DEF Behind
<1>5. \A e \in Endpoint : Behind(e)' = Behind(e)
  BY <1>1 DEF Behind, dispatcherVars
<1>6. QED
  BY <1>1, <1>3, <1>4, <1>5 DEF LookInv, dispatcherVars

LEMMA LookDispatcher ==
  ASSUME Types, LookInv, NEW e \in Endpoint, Dispatcher(e)
  PROVE  LookInv'
<1>1. UNCHANGED <<shutdown, late>>
  BY DispatcherFrame DEF rxVars
<1>2. /\ ring \in [Sub -> Nat] /\ late \in [Sub -> Nat]
      /\ DrainBudget \in Nat \ {0}
      /\ Len(Rings[e]) \in Nat
  BY CapacityAssumption, DrainBudgetAssumption, RingsAssumption DEF Types, RxTypes, SharedTypes
<1>3. \A t \in Sub : ring'[t] <= ring[t] /\ ring'[t] \in Int
  <2>1. CASE Recv(e)
    BY <1>2, <2>1 DEF Recv
  <2>2. CASE UNCHANGED ring
    BY <1>2, <2>2
  <2>3. QED
    BY <2>1, <2>2 DEF Dispatcher, NextRing, Match, LockRaw, WriteRaw, Count, EndPass
<1>4. /\ dpc \in [Endpoint -> {"drain", "match", "lock", "write", "count", "finished"}]
      /\ cur \in [Endpoint -> Nat \ {0}]
      /\ drained \in [Endpoint -> 0..DrainBudget]
      /\ got_any \in [Endpoint -> BOOLEAN] /\ seen_shutdown \in [Endpoint -> BOOLEAN]
      /\ dpc[e] \in {"match", "lock", "write", "count"} => cur[e] <= Len(Rings[e])
  BY DEF Types, PlaceTypes, CountTypes, AtRings
<1>5. ASSUME NEW f \in Endpoint, f # e
      PROVE  /\ dpc'[f] = dpc[f] /\ cur'[f] = cur[f] /\ drained'[f] = drained[f]
             /\ got_any'[f] = got_any[f] /\ seen_shutdown'[f] = seen_shutdown[f]
  BY <1>4, <1>5 DEF Dispatcher, Recv, NextRing, Match, LockRaw, WriteRaw, Count, EndPass
<1> DEFINE Looked(f) ==
      /\ seen_shutdown[f] => shutdown
      /\ cur[f] > Len(Rings[f]) \/ ~got_any[f] => drained[f] = 0
      /\ ~got_any[f] => dpc[f] \in {"drain", "finished"}
      /\ seen_shutdown[f] /\ ~got_any[f] /\ dpc[f] = "drain" =>
           \A i \in Behind(f) : ring[Rings[f][i]] <= late[Rings[f][i]]
<1>6. ASSUME NEW f \in Endpoint, f # e PROVE Looked(f)'
  <2>1. Looked(f)
    BY DEF LookInv
  <2>2. Behind(f)' = Behind(f)
    BY <1>5, <1>6 DEF Behind
  <2>3. \A i \in Behind(f) : Rings[f][i] \in Sub
    BY RingFacts DEF Behind
  <2>4. QED
    BY <1>1, <1>2, <1>3, <1>5, <1>6, <2>1, <2>2, <2>3
<1>7. Looked(e)'
  <2>1. Looked(e)
    BY DEF LookInv
  <2>2. CASE Recv(e)
    BY <1>1, <1>2, <1>4, <2>1, <2>2 DEF Recv, AtRing
  <2>3. CASE NextRing(e)
    <3>1. ~got_any[e] => ring[RingAt(e)] = 0
      BY <1>2, <1>4, <2>1, <2>3 DEF NextRing
    <3>2. \A i \in Behind(e)' : i \in Behind(e) \/ Rings[e][i] = RingAt(e)
      BY <1>2, <1>4, <2>3 DEF NextRing, AtRing, Behind, RingAt
    <3>3. RingAt(e) \in Sub
      BY <2>3, RingAtFacts DEF Types, NextRing, AtRing
    <3>4. QED
      BY <1>1, <1>2, <1>4, <2>1, <2>3, <3>1, <3>2, <3>3 DEF NextRing
  <2>4. CASE Match(e) \/ LockRaw(e) \/ WriteRaw(e) \/ Count(e)
    <3>1. got_any[e] /\ cur[e] <= Len(Rings[e])
      BY <1>2, <1>4, <2>1, <2>4 DEF Match, LockRaw, WriteRaw, Count
    <3>2. UNCHANGED <<cur, drained, got_any, seen_shutdown>>
      BY <2>4 DEF Match, LockRaw, WriteRaw, Count
    <3>3. QED
      BY <1>1, <1>2, <1>4, <2>1, <3>1, <3>2
  <2>5. CASE EndPass(e)
    <3>1. Behind(e)' = {}
      BY <1>4, <2>5 DEF EndPass, Behind
    <3>2. QED
      BY <1>1, <1>4, <2>1, <2>5, <3>1 DEF EndPass
  <2>6. QED
    BY <2>2, <2>3, <2>4, <2>5 DEF Dispatcher
<1>8. QED
  BY <1>6, <1>7 DEF LookInv

LEMMA LookStep ==
  ASSUME Types, LookInv, [Next]_vars
  PROVE  LookInv'
<1>1. ASSUME UNCHANGED <<ring, rxVars, dispatcherVars>>, shutdown => shutdown'
      PROVE  LookInv'
  BY <1>1 DEF LookInv, Behind, rxVars, dispatcherVars
<1>2. CASE Sigint \/ DurationElapses \/ UNCHANGED vars
  BY <1>1, <1>2 DEF Sigint, DurationElapses, vars
<1>3. CASE Coordinator
  <2>1. shutdown => shutdown'
    BY <1>3 DEF Coordinator, CoordStop, Reclaim, AwaitReceivers, FlushRaw, ReadReceived,
                ReadDropped, Unwrap, WriteResult
  <2>2. QED
    BY <1>1, <1>3, <2>1, CoordinatorFrame
<1>4. QED
  BY <1>2, <1>3, StepCases, LookReceiver, LookDispatcher

----------------------------------------------------------------------------
(* The inductive invariant.                                                 *)

IInv ==
  /\ Types /\ RawLockHeld /\ EventLedger /\ LossInv /\ ReportInv /\ LookInv

LEMMA IInvInit == Init => IInv
<1>1. SUFFICES ASSUME Init PROVE IInv
  OBVIOUS
<1>2. Types
  BY <1>1, TypesInit
<1>3. RawLockHeld
  BY <1>1 DEF Init, RawLockHeld, Endpoint, None
<1>4. EventLedger
  BY <1>1, EndpointFacts DEF Init, EventLedger, InHand
<1>5. LossInv
  BY <1>1 DEF Init, LossInv, Finished
<1>6. ReportInv
  BY <1>1 DEF Init, ReportInv, KeptMeansFinal, Empty
<1>7. LookInv
  BY <1>1 DEF Init, LookInv, Behind
<1>8. QED
  BY <1>2, <1>3, <1>4, <1>5, <1>6, <1>7 DEF IInv

LEMMA IInvStep == IInv /\ [Next]_vars => IInv'
  BY TypesStep, LockStep, LedgerStep, LossStep, ReportStep, LookStep DEF IInv

THEOREM Invariance == Spec => []IInv
  BY IInvInit, IInvStep, PTL DEF Spec

----------------------------------------------------------------------------
(* What it implies.                                                         *)

\* Every variable keeps its type: a ring never holds more than its capacity
\* (`try_send`), a dispatcher never takes more than its share of a pass.
THEOREM TypesHold == Spec => []TypeOK
  BY Invariance, TypesAreTypeOK, PTL DEF IInv

\* An event that was decoded is in exactly one place, whatever the interleaving
\* of `try_send`, `try_recv`, the counters and `dispatch_event`.
THEOREM LedgerHolds == Spec => []EventLedger
  BY Invariance, PTL DEF IInv

\* The mutex of the raw writer is held by a dispatcher inside `write` only.
THEOREM LockHolds == Spec => []RawLockHeld
  BY Invariance, PTL DEF IInv

\* A receiver loses no event without a count before the shutdown and at most
\* one after it.
THEOREM LossHolds == Spec => []LossOnlyAtTheEnd
<1>1. IInv => LossOnlyAtTheEnd
  BY DEF IInv, LossInv, LossOnlyAtTheEnd
<1>2. QED
  BY <1>1, Invariance, PTL

\* Matchers that `Arc::try_unwrap` gave up hold everything that was received.
THEOREM KeptHolds == Spec => []KeptMeansFinal
<1>1. IInv => KeptMeansFinal
  BY DEF IInv, ReportInv
<1>2. QED
  BY <1>1, Invariance, PTL

\* When every thread was joined the result accounts for every event: the four
\* readings the coordinator takes one after the other agree.
THEOREM ReportHolds == Spec => []CleanReportComplete
<1>1. ASSUME IInv PROVE CleanReportComplete
  <2>1. SUFFICES ASSUME Clean
                 PROVE  /\ report.kept
                        /\ \A s \in Sub :
                             /\ report.received[s] = report.observed[s]
                             /\ report.received[s] = report.counted[s]
                             /\ sent[s] = report.received[s] + report.dropped[s]
                                            + ring[s] + lost[s]
    BY DEF CleanReportComplete
  <2>2. /\ report.kept
        /\ \A s \in Sub :
             /\ rx[s] = "finished"
             /\ report.received[s] = received[s] /\ report.counted[s] = counted[s]
             /\ report.dropped[s] = dropped[s] /\ report.observed[s] = received[s]
    BY <1>1, <2>1 DEF IInv, ReportInv, KeptMeansFinal, Clean
  <2>3. ASSUME NEW s \in Sub
        PROVE  received[s] = counted[s]
    <3>1. InHand(s, {"match"}) = 0 /\ InHand(s, {"lock", "write", "count"}) = 0
      BY <1>1, <2>1, EndpointFacts DEF IInv, ReportInv, Clean, InHand, Finished
    <3>2. received[s] \in Nat /\ observed[s] \in Nat /\ counted[s] \in Nat
      BY <1>1 DEF IInv, Types, CountTypes
    <3>3. QED
      BY <1>1, <3>1, <3>2 DEF IInv, EventLedger
  <2>4. ASSUME NEW s \in Sub
        PROVE  sent[s] = received[s] + dropped[s] + ring[s] + lost[s]
    <3>1. /\ sent[s] \in Nat /\ ring[s] \in Nat /\ received[s] \in Nat
          /\ dropped[s] \in Nat /\ lost[s] \in Nat
      BY <1>1, CapacityAssumption DEF IInv, Types, RxTypes, CountTypes, SharedTypes
    <3>2. QED
      BY <1>1, <2>2, <3>1 DEF IInv, EventLedger
  <2>5. QED
    BY <2>2, <2>3, <2>4
<1>2. QED
  BY <1>1, Invariance, PTL

\* A dispatcher that returns after a pass that found nothing, having seen the
\* flag before that pass, leaves only events that came after the shutdown.
THEOREM SecondLookHolds == Spec => DrainedOnSecondLook
<1>1. ASSUME IInv, [Next]_vars, NEW e \in Endpoint,
             Returns(e), ~got_any[e], seen_shutdown[e], NEW s \in Sub, EndpointOf(s) = e
      PROVE  ring[s] <= late[s]
  <2>1. cur[e] > Len(Rings[e]) /\ dpc[e] = "drain"
    <3>1. \E f \in Endpoint : Dispatcher(f)
      BY <1>1, StepCases, ReceiverFrame, CoordinatorFrame
         DEF Returns, Finished, dispatcherVars, Sigint, DurationElapses, vars
    <3>2. QED
      BY <1>1, <3>1
         DEF IInv, Types, PlaceTypes, Returns, Finished, Dispatcher, Recv, NextRing, Match,
             LockRaw, WriteRaw, Count, EndPass
  <2>2. PICK i \in 1..Len(Rings[e]) : Rings[e][i] = s
    BY <1>1, EndpointFacts
  <2>3. i \in Behind(e)
    <3>1. Len(Rings[e]) \in Nat /\ cur[e] \in Nat
      BY <1>1, RingsAssumption DEF IInv, Types, PlaceTypes
    <3>2. QED
      BY <2>1, <2>2, <3>1 DEF Behind
  <2>4. QED
    BY <1>1, <2>1, <2>2, <2>3 DEF IInv, LookInv
<1>2. IInv /\ [Next]_vars =>
        [\A e \in Endpoint :
           Returns(e) /\ ~got_any[e] /\ seen_shutdown[e] => LeavesOnlyLate(e)]_vars
  BY <1>1 DEF LeavesOnlyLate
<1>3. QED
  BY <1>2, Invariance, PTL DEF Spec, DrainedOnSecondLook

============================================================================
