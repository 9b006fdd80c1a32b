--------------------------- MODULE CANParserProofs ---------------------------
(***************************************************************************)
(* Proofs about CANParser for every set of messages, every frequency,      *)
(* counter width and clock width, and every sequence of calls.             *)
(***************************************************************************)
EXTENDS CANParser, WellFoundedInduction, TLAPS

(***************************************************************************)
(* Arithmetic the parser is built from.                                    *)
(***************************************************************************)

\* std::min of two numbers, as the saturating counters use it.
LEMMA MinPair ==
    ASSUME NEW x \in Int, NEW y \in Int
    PROVE  /\ Min({x, y}) \in {x, y}
           /\ Min({x, y}) <= x
           /\ Min({x, y}) <= y
<1>1. \E z \in {x, y} : \A w \in {x, y} : z <= w
  <2>1. CASE x <= y  BY <2>1
  <2>2. CASE y <= x  BY <2>2
  <2>. QED  BY <2>1, <2>2
<1>. QED  BY <1>1 DEF Min

\* A set of natural numbers that is not empty has a least element, which Min
\* returns: the bus timeout threshold is well defined for any set of messages.
LEMMA MinNat ==
    ASSUME NEW S, S \subseteq Nat, S # {}
    PROVE  Min(S) \in S /\ \A x \in S : Min(S) <= x
<1>. DEFINE Less == {p \in Nat \X Nat : p[1] < p[2]}
<1>1. IsWellFoundedOn(Less, Nat)
  BY NatLessThanWellFounded DEF OpToRel
<1>2. \E x \in S : \A y \in S : ~ (<<y, x>> \in Less)
  <2>. HIDE DEF Less
  <2>. QED  BY <1>1, WFMin
<1>3. \A x, y \in Nat : <<y, x>> \in Less <=> y < x
  OBVIOUS
<1>4. \E x \in S : \A y \in S : x <= y
  <2>1. PICK x \in S : \A y \in S : ~ (<<y, x>> \in Less)
    BY <1>2
  <2>2. \A y \in S : <<y, x>> \in Less <=> y < x
    BY <1>3
  <2>. HIDE DEF Less
  <2>3. \A y \in S : ~ (y < x)
    BY <2>1, <2>2
  <2>4. \A y \in S : x <= y
    BY <2>3
  <2>. QED  BY <2>4
<1>. QED  BY <1>4 DEF Min

\* uint8_t keeps a number below its modulus.
LEMMA ModRange ==
    ASSUME NEW x \in Nat, NEW n \in Nat \ {0}
    PROVE  x % n \in 0 .. n - 1
OBVIOUS

\* Ten periods of any frequency are a natural number of nanoseconds.
LEMMA CheckThresholdType ==
    ASSUME NEW m \in Messages
    PROVE  CheckThreshold(m) \in Nat
<1>1. CASE ~TrackAll /\ Frequency[m] > 0
  <2>1. NanosPerSecond \div Frequency[m] \in Nat
    BY <1>1, ConfigAssumption, TimeAssumption
  <2>. QED  BY <2>1, <1>1 DEF CheckThreshold
<1>2. CASE ~(~TrackAll /\ Frequency[m] > 0)
  BY <1>2 DEF CheckThreshold
<1>. QED  BY <1>1, <1>2

\* The bus timeout threshold is the least of the timeouts, if there are any.
LEMMA BusTimeoutThresholdType ==
    /\ BusTimeoutThreshold \in Nat
    /\ ~TrackAll =>
          /\ \/ BusTimeoutThreshold = NanosMod - 1
             \/ \E m \in Timed : BusTimeoutThreshold = CheckThreshold(m)
<1>. DEFINE Candidates == {CheckThreshold(m) : m \in Timed} \cup {NanosMod - 1}
<1>1. Candidates \subseteq Nat /\ Candidates # {}
  BY CheckThresholdType, TimeAssumption DEF Timed
<1>2. Min(Candidates) \in Candidates
  BY <1>1, MinNat
<1>. QED  BY <1>1, <1>2 DEF BusTimeoutThreshold

LEMMA ElapsedType ==
    ASSUME NEW now \in Times, NEW then \in Times
    PROVE  /\ Elapsed(now, then) \in Times
           /\ then <= now => Elapsed(now, then) = now - then
BY TimeAssumption DEF Elapsed, Times
-----------------------------------------------------------------------------
(***************************************************************************)
(* Types.                                                                  *)
(***************************************************************************)
LEMMA TypeInit == Init => TypeOK
<1>. SUFFICES ASSUME Init PROVE TypeOK
  OBVIOUS
<1>. USE DEF Init
<1>1. /\ vals \in [Messages -> Values]
      /\ all_vals \in [Messages -> Seq(Values)]
      /\ \A m \in Messages : Len(all_vals[m]) <= MaxPending
  BY MessagesAssumption, LimitsAssumption
<1>2. /\ last_seen_nanos \in [Messages -> Times]
      /\ last_nanos \in Times
      /\ last_nonempty_nanos \in Times
      /\ current_nanos \in Times
  BY TimeAssumption DEF Times
<1>3. /\ counter \in [Messages -> 0 .. UINT8 - 1]
      /\ counter_fail \in [Messages -> 0 .. MAX_BAD_COUNTER]
      /\ can_invalid_cnt \in 0 .. CAN_INVALID_CNT
  BY LimitsAssumption
<1>4. \E R \in SUBSET Messages : new_vals \in [R -> Reports]
  <2>1. {} \in SUBSET Messages /\ new_vals \in [{} -> Reports]
    OBVIOUS
  <2>. QED  BY <2>1
<1>. QED  BY <1>1, <1>2, <1>3, <1>4 DEF TypeOK

LEMMA CounterFailAfterType ==
    ASSUME TypeOK, NEW m \in Messages, NEW v
    PROVE  CounterFailAfter(m, v) \in 0 .. MAX_BAD_COUNTER
<1>. DEFINE n == counter_fail[m] + 1
<1>1. counter_fail[m] \in 0 .. MAX_BAD_COUNTER
  BY DEF TypeOK
<1>2. n \in Nat /\ MAX_BAD_COUNTER \in Nat
  BY <1>1, LimitsAssumption
<1>3. Min({n, MAX_BAD_COUNTER}) \in 0 .. MAX_BAD_COUNTER
  <2>. HIDE DEF n
  <2>1. /\ Min({n, MAX_BAD_COUNTER}) \in {n, MAX_BAD_COUNTER}
        /\ Min({n, MAX_BAD_COUNTER}) <= MAX_BAD_COUNTER
    BY <1>2, MinPair
  <2>. QED  BY <2>1, <1>2
<1>. QED  BY <1>1, <1>3, LimitsAssumption DEF CounterFailAfter

LEMMA InvalidCntAfterType ==
    ASSUME TypeOK
    PROVE  InvalidCntAfter \in 0 .. CAN_INVALID_CNT
<1>1. can_invalid_cnt \in 0 .. CAN_INVALID_CNT
  BY DEF TypeOK
<1>2. Min({can_invalid_cnt + 1, CAN_INVALID_CNT}) \in 0 .. CAN_INVALID_CNT
  BY <1>1, MinPair, LimitsAssumption
<1>. QED  BY <1>1, <1>2, LimitsAssumption DEF InvalidCntAfter

\* A frame of a tracked message carries a value and a COUNTER of its width.
LEMMA FrameType ==
    ASSUME NEW f \in Frames, Tracked(f)
    PROVE  f.address \in Messages /\ f.value \in Values /\ f.counter \in Nat
<1>1. PICK m \in Messages : f \in TrackedFrames(m)
  BY DEF Frames, SkippedFrames
<1>2. CounterField(m) \subseteq Nat
  BY ConfigAssumption DEF CounterField
<1>. QED  BY <1>1, <1>2 DEF TrackedFrames

LEMMA HandleFrameType ==
    ASSUME TypeOK, NEW f \in Frames, HandleFrame(f)
    PROVE  TypeOK'
<1>. USE DEF TypeOK
<1>1. CASE Tracked(f)
  <2>. DEFINE m == f.address
  <2>1. m \in Messages /\ f.value \in Values /\ f.counter \in Nat
    BY <1>1, FrameType
  <2>2. Len(all_vals[m]) < MaxPending /\ Parse(f)
    BY <1>1 DEF HandleFrame
  <2>3. /\ vals' \in [Messages -> Values]
        /\ last_seen_nanos' \in [Messages -> Times]
    BY <2>1, <2>2 DEF Parse
  <2>4. /\ all_vals' \in [Messages -> Seq(Values)]
        /\ \A k \in Messages : Len(all_vals'[k]) <= MaxPending
    <3>. DEFINE s == Append(all_vals[m], f.value)
    <3>1. s \in Seq(Values) /\ Len(s) = Len(all_vals[m]) + 1
      BY <2>1
    <3>2. Len(all_vals[m]) \in Nat /\ Len(s) <= MaxPending
      BY <2>1, <2>2, <3>1, LimitsAssumption
    <3>3. all_vals' = all_vals \/ all_vals' = [all_vals EXCEPT ![m] = s]
      BY <2>2 DEF Parse
    <3>. HIDE DEF s
    <3>. QED  BY <2>1, <3>1, <3>2, <3>3
  <2>5. /\ counter' \in [Messages -> 0 .. UINT8 - 1]
        /\ counter_fail' \in [Messages -> 0 .. MAX_BAD_COUNTER]
    <3>1. CounterFailAfter(m, f.counter) \in 0 .. MAX_BAD_COUNTER
      BY <2>1, CounterFailAfterType
    <3>2. f.counter % UINT8 \in 0 .. UINT8 - 1
      BY <2>1, ModRange, LimitsAssumption
    <3>. QED  BY <2>1, <2>2, <3>1, <3>2 DEF Parse, UpdateCounterGeneric
  <2>. QED  BY <2>3, <2>4, <2>5 DEF HandleFrame, validVars
<1>2. CASE ~Tracked(f)
  BY <1>2 DEF HandleFrame, validVars, msgVars
<1>. QED  BY <1>1, <1>2

LEMMA EndCanType ==
    ASSUME TypeOK, EndCan
    PROVE  TypeOK'
<1>. USE DEF TypeOK
<1>1. LastNonempty \in Times
  BY DEF LastNonempty
<1>2. last_nonempty_nanos' \in Times /\ bus_timeout' \in BOOLEAN
  <2>1. Elapsed(last_nanos, LastNonempty) \in Times
    BY <1>1, ElapsedType
  <2>2. (Elapsed(last_nanos, LastNonempty) > BusTimeoutThreshold) \in BOOLEAN
    BY <2>1, BusTimeoutThresholdType DEF Times
  <2>. QED  BY <1>1, <2>2 DEF EndCan, UpdateBusTimeout
<1>3. can_invalid_cnt' \in 0 .. CAN_INVALID_CNT /\ can_valid' \in BOOLEAN
  BY InvalidCntAfterType DEF EndCan, UpdateValid
<1>. QED  BY <1>2, <1>3 DEF EndCan, msgVars

LEMMA QueryLatestType ==
    ASSUME TypeOK, NEW ts, QueryLatest(ts)
    PROVE  /\ all_vals' \in [Messages -> Seq(Values)]
           /\ \A m \in Messages : Len(all_vals'[m]) <= MaxPending
           /\ \E R \in SUBSET Messages : new_vals' \in [R -> Reports]
<1>. USE DEF TypeOK, QueryLatest
<1>1. Reported(ts) \in SUBSET Messages
  BY DEF Reported
<1>2. new_vals' \in [Reported(ts) -> Reports]
  BY <1>1 DEF Reports
<1>3. all_vals' \in [Messages -> Seq(Values)]
  OBVIOUS
<1>4. \A m \in Messages : Len(all_vals'[m]) <= MaxPending
  BY LimitsAssumption
<1>. QED  BY <1>1, <1>2, <1>3, <1>4

LEMMA TypeNext == TypeOK /\ [Next]_vars => TypeOK'
<1>. SUFFICES ASSUME TypeOK, [Next]_vars PROVE TypeOK'
  OBVIOUS
<1>1. CASE UpdateCall
  <2>1. new_vals' \in [{} -> Reports] /\ {} \in SUBSET Messages
    BY <1>1 DEF UpdateCall
  <2>2. current_nanos' \in Times
    BY <1>1, TimeAssumption DEF UpdateCall, Times
  <2>. QED  BY <1>1, <2>1, <2>2 DEF TypeOK, UpdateCall, msgVars, validVars
<1>2. CASE \E t \in Nanos : NextCan(t)
  <2>1. PICK t \in Nanos : NextCan(t)
    BY <1>2
  <2>2. t \in Times
    BY TimeAssumption DEF Times
  <2>. QED  BY <2>1, <2>2 DEF TypeOK, NextCan, msgVars, validVars
<1>3. CASE \E f \in Frames : HandleFrame(f)
  BY <1>3, HandleFrameType
<1>4. CASE EndCan
  BY <1>4, EndCanType
<1>5. CASE Query
  <2>1. QueryLatest(current_nanos)
    BY <1>5 DEF Query
  <2>. QED  BY <1>5, <2>1, QueryLatestType DEF TypeOK, Query, validVars
<1>6. CASE \E ts \in QueryTimes : DirectQuery(ts)
  <2>1. PICK ts \in QueryTimes : DirectQuery(ts)
    BY <1>6
  <2>2. QueryLatest(ts)
    BY <2>1 DEF DirectQuery
  <2>. QED  BY <2>1, <2>2, QueryLatestType DEF TypeOK, DirectQuery, validVars, localVars
<1>7. CASE UNCHANGED vars
  BY <1>7 DEF TypeOK, vars, msgVars, validVars, localVars
<1>. QED  BY <1>1, <1>2, <1>3, <1>4, <1>5, <1>6, <1>7 DEF Next

\* The parser's counters stay in range and its state well typed, for any
\* traffic: saturation (parser.cc:83) and uint8_t truncation (parser.cc:90).
THEOREM TypeCorrect == Spec => []TypeOK
<1>. QED  BY TypeInit, TypeNext, PTL DEF Spec
-----------------------------------------------------------------------------
(***************************************************************************)
(* CycleComplete.                                                          *)
(***************************************************************************)
LEMMA CycleInit == Init => PendingThisCall /\ CycleComplete
BY DEF Init, PendingThisCall, CycleComplete

\* A query since the first timestamp of the call empties every message.
LEMMA QueryEmpties ==
    ASSUME CycleInv, Query
    PROVE  \A m \in Messages : all_vals'[m] = << >>
<1>. SUFFICES ASSUME NEW m \in Messages PROVE all_vals'[m] = << >>
  OBVIOUS
<1>. USE DEF CycleInv, PendingThisCall, Query, QueryLatest
<1>1. CASE all_vals[m] = << >>
  BY <1>1
<1>2. CASE all_vals[m] # << >>
  <2>1. m \in Reported(current_nanos)
    BY <1>2 DEF Reported, Since, TypeOK, Times
  <2>. QED  BY <2>1
<1>. QED  BY <1>1, <1>2

LEMMA CycleNext ==
    ASSUME MonotoneTime, 0 \notin Nanos, CycleInv, [Next]_vars
    PROVE  PendingThisCall'
<1>. USE DEF CycleInv, PendingThisCall
<1>1. CASE UpdateCall
  BY <1>1 DEF UpdateCall, msgVars, TypeOK, Times
<1>2. CASE \E t \in Nanos : NextCan(t)
  <2>1. PICK t \in Nanos : NextCan(t)
    BY <1>2
  <2>2. t \in Times /\ t # 0 /\ last_nanos <= t
    BY <2>1, TimeAssumption DEF Times, NextCan
  <2>. QED  BY <2>1, <2>2 DEF NextCan, msgVars, TypeOK, Times
<1>3. CASE \E f \in Frames : HandleFrame(f)
  <2>1. PICK f \in Frames : HandleFrame(f)
    BY <1>3
  <2>2. UNCHANGED <<pc, current_nanos, last_nanos>> /\ pc = "frames"
    BY <2>1 DEF HandleFrame
  <2>3. \A m \in Messages : all_vals'[m] # << >> => current_nanos <= last_seen_nanos'[m]
    <3>1. CASE Tracked(f)
      BY <2>1, <2>2, <3>1 DEF HandleFrame, Parse, Tracked, TypeOK
    <3>2. CASE ~Tracked(f)
      BY <2>1, <2>2, <3>2 DEF HandleFrame, msgVars
    <3>. QED  BY <3>1, <3>2
  <2>. QED  BY <2>2, <2>3
<1>4. CASE EndCan
  BY <1>4 DEF EndCan, msgVars
<1>5. CASE Query
  BY <1>5, QueryEmpties DEF Query
<1>6. CASE \E ts \in QueryTimes : DirectQuery(ts)
  <2>1. PICK ts \in QueryTimes : DirectQuery(ts)
    BY <1>6
  <2>. QED  BY <2>1 DEF DirectQuery, QueryLatest, localVars
<1>7. CASE UNCHANGED vars
  BY <1>7 DEF vars, msgVars, localVars
<1>. QED  BY <1>1, <1>2, <1>3, <1>4, <1>5, <1>6, <1>7 DEF Next

\* update() leaves no value behind when CanData is handed over in the order of
\* positive timestamps: query_latest's cutoff, the first timestamp of the
\* call, is not above that of any frame the call stored.
THEOREM CycleCompleteHolds ==
    ASSUME MonotoneTime, 0 \notin Nanos
    PROVE  Spec => []CycleComplete
<1>1. Init => CycleInv
  BY TypeInit, CycleInit DEF CycleInv
<1>2. CycleInv /\ [Next]_vars => CycleInv'
  BY TypeNext, CycleNext DEF CycleInv
<1>3. CycleInv => CycleComplete
  BY DEF CycleInv, PendingThisCall, CycleComplete
<1>. QED  BY <1>1, <1>2, <1>3, PTL DEF Spec

\* The values that await a query are those of the call in progress, and no
\* query of that call may overlook them.
THEOREM PendingThisCallHolds ==
    ASSUME MonotoneTime, 0 \notin Nanos
    PROVE  Spec => []PendingThisCall
<1>1. Init => CycleInv
  BY TypeInit, CycleInit DEF CycleInv
<1>2. CycleInv /\ [Next]_vars => CycleInv'
  BY TypeNext, CycleNext DEF CycleInv
<1>3. CycleInv => PendingThisCall
  BY DEF CycleInv
<1>. QED  BY <1>1, <1>2, <1>3, PTL DEF Spec
-----------------------------------------------------------------------------
(***************************************************************************)
(* BusTimeoutCountsAsInvalid.                                              *)
(***************************************************************************)
LEMMA BusInit == Init => SeenOnBus /\ BusTimeoutCountsAsInvalid
BY LimitsAssumption DEF Init, SeenOnBus, BusTimeoutCountsAsInvalid

LEMMA TimedThresholdPositive ==
    ASSUME ~TrackAll, NEW m \in Timed, Frequency[m] <= NanosPerSecond
    PROVE  CheckThreshold(m) > 0
<1>1. m \in Messages /\ Frequency[m] \in Nat /\ Frequency[m] > 0
  BY ConfigAssumption DEF Timed
<1>. DEFINE d == NanosPerSecond \div Frequency[m]
<1>2. d \in Int /\ d >= 1
  BY <1>1, TimeAssumption
<1>3. CheckThreshold(m) = d * 10
  BY <1>1 DEF CheckThreshold
<1>. HIDE DEF d
<1>. QED  BY <1>2, <1>3

\* A bus silent for longer than the least timeout makes the message with that
\* timeout stale.
LEMMA SilentBusIsStale ==
    ASSUME ~TrackAll, \A m \in Messages : Frequency[m] <= NanosPerSecond,
           TypeOK, SeenOnBus, pc = "frames",
           Elapsed(last_nanos, LastNonempty) > BusTimeoutThreshold
    PROVE  \E m \in Messages : Stale(m)
<1>. USE DEF TypeOK
<1>1. LastNonempty \in Times /\ LastNonempty <= last_nanos
  BY DEF LastNonempty, SeenOnBus, Times
<1>2. Elapsed(last_nanos, LastNonempty) = last_nanos - LastNonempty
  BY <1>1, ElapsedType
<1>3. BusTimeoutThreshold # NanosMod - 1
  BY <1>1, <1>2, TimeAssumption DEF Times
<1>4. PICK m \in Timed : BusTimeoutThreshold = CheckThreshold(m)
  BY <1>3, BusTimeoutThresholdType
<1>5. m \in Messages
  BY DEF Timed
<1>6. last_seen_nanos[m] \in Times /\ last_seen_nanos[m] <= LastNonempty
  BY <1>5 DEF SeenOnBus
<1>7. Elapsed(last_nanos, last_seen_nanos[m]) = last_nanos - last_seen_nanos[m]
  <2>1. last_nanos \in Times /\ last_seen_nanos[m] <= last_nanos
    BY <1>1, <1>6 DEF Times
  <2>. QED  BY <1>6, <2>1, ElapsedType
<1>8. TimedOut(m)
  BY <1>1, <1>2, <1>4, <1>5, <1>6, <1>7, CheckThresholdType DEF TimedOut, Times
<1>9. CheckThreshold(m) > 0
  BY <1>5, TimedThresholdPositive
<1>. QED  BY <1>5, <1>8, <1>9 DEF Stale

LEMMA BusNext ==
    ASSUME ~TrackAll, \A m \in Messages : Frequency[m] <= NanosPerSecond, MonotoneTime,
           BusInv, [Next]_vars
    PROVE  SeenOnBus' /\ BusTimeoutCountsAsInvalid'
<1>. USE DEF BusInv, SeenOnBus, BusTimeoutCountsAsInvalid
<1>1. CASE UpdateCall
  BY <1>1 DEF UpdateCall, msgVars, validVars
<1>2. CASE \E t \in Nanos : NextCan(t)
  <2>1. PICK t \in Nanos : NextCan(t)
    BY <1>2
  <2>2. t \in Times /\ last_nanos <= t
    BY <2>1, TimeAssumption DEF Times, NextCan
  <2>. QED  BY <2>1, <2>2 DEF NextCan, LastNonempty, msgVars, validVars, TypeOK, Times
<1>3. CASE \E f \in Frames : HandleFrame(f)
  <2>1. PICK f \in Frames : HandleFrame(f)
    BY <1>3
  <2>2. CASE Tracked(f)
    <3>1. UNCHANGED <<validVars, pc, last_nanos>> /\ pc = "frames" /\ Parse(f)
      BY <2>1, <2>2 DEF HandleFrame
    <3>2. LastNonempty' = last_nanos
      BY <2>1, <2>2, <3>1 DEF HandleFrame, Tracked, LastNonempty
    <3>3. \A m \in Messages : last_seen_nanos[m] <= last_nanos
      BY <3>1 DEF LastNonempty, TypeOK, Times
    <3>4. \A m \in Messages : last_seen_nanos'[m] <= last_nanos
      <4>1. \/ last_seen_nanos' = last_seen_nanos
            \/ last_seen_nanos' = [last_seen_nanos EXCEPT ![f.address] = last_nanos]
        BY <3>1 DEF Parse
      <4>2. last_nanos <= last_nanos
        BY DEF TypeOK, Times
      <4>. QED  BY <3>3, <4>1, <4>2 DEF TypeOK
    <3>. QED  BY <3>1, <3>2, <3>4 DEF validVars
  <2>3. CASE ~Tracked(f)
    <3>1. UNCHANGED <<msgVars, validVars, pc, last_nanos>> /\ pc = "frames"
      BY <2>1, <2>3 DEF HandleFrame
    <3>2. bus_empty' => bus_empty
      BY <2>1 DEF HandleFrame
    <3>3. LastNonempty <= LastNonempty'
      BY <3>1, <3>2 DEF LastNonempty, validVars, TypeOK, Times
    <3>4. LastNonempty \in Int /\ LastNonempty' \in Int
      BY <3>1 DEF LastNonempty, validVars, TypeOK, Times
    <3>. QED  BY <3>1, <3>3, <3>4 DEF msgVars, validVars, TypeOK, Times
  <2>. QED  BY <2>2, <2>3
<1>4. CASE EndCan
  <2>1. SeenOnBus'
    BY <1>4 DEF EndCan, UpdateBusTimeout, LastNonempty, msgVars, TypeOK, Times
  <2>2. ASSUME bus_timeout' PROVE can_invalid_cnt' > 0
    <3>1. Elapsed(last_nanos, LastNonempty) > BusTimeoutThreshold
      BY <1>4, <2>2 DEF EndCan, UpdateBusTimeout
    <3>2. can_invalid_cnt' = Min({can_invalid_cnt + 1, CAN_INVALID_CNT})
      BY <1>4, <3>1, SilentBusIsStale DEF EndCan, UpdateValid, InvalidCntAfter
    <3>. DEFINE n == can_invalid_cnt + 1
    <3>3. n \in Int /\ n > 0 /\ CAN_INVALID_CNT \in Int /\ CAN_INVALID_CNT > 0
      BY LimitsAssumption DEF TypeOK
    <3>. HIDE DEF n
    <3>4. Min({n, CAN_INVALID_CNT}) \in {n, CAN_INVALID_CNT}
      BY <3>3, MinPair
    <3>5. Min({n, CAN_INVALID_CNT}) > 0
      BY <3>3, <3>4
    <3>. QED  BY <3>2, <3>5 DEF n
  <2>. QED  BY <2>1, <2>2
<1>5. CASE Query
  BY <1>5 DEF Query, QueryLatest, validVars
<1>6. CASE \E ts \in QueryTimes : DirectQuery(ts)
  BY <1>6 DEF DirectQuery, QueryLatest, validVars, localVars, LastNonempty
<1>7. CASE UNCHANGED vars
  BY <1>7 DEF vars, msgVars, validVars, localVars, LastNonempty
<1>. QED  BY <1>1, <1>2, <1>3, <1>4, <1>5, <1>6, <1>7 DEF Next

\* bus_timeout is never raised behind can_valid's back, for any messages and
\* frequencies up to one per nanosecond: the fastest message, whose timeout is
\* the threshold, cannot have been seen later than the bus.
THEOREM BusTimeoutCountsAsInvalidHolds ==
    ASSUME ~TrackAll, \A m \in Messages : Frequency[m] <= NanosPerSecond, MonotoneTime
    PROVE  Spec => []BusTimeoutCountsAsInvalid
<1>1. Init => BusInv
  BY TypeInit, BusInit DEF BusInv
<1>2. BusInv /\ [Next]_vars => BusInv'
  BY TypeNext, BusNext DEF BusInv
<1>3. BusInv => BusTimeoutCountsAsInvalid
  BY DEF BusInv
<1>. QED  BY <1>1, <1>2, <1>3, PTL DEF Spec
=============================================================================
