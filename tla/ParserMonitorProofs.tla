------------------------- MODULE ParserMonitorProofs -------------------------
(***************************************************************************)
(* Proofs about the observed parser: that can_valid and the reported       *)
(* values are right in terms of what was really accepted, although the     *)
(* code keeps only the time a message was last seen, with 0 for never, and *)
(* one saturating count for all its messages.                              *)
(***************************************************************************)
EXTENDS ParserMonitor, CANParserProofs

\* last_seen_nanos encodes when a message was last accepted ...
SeenIsAccepted ==
    \A m \in Messages :
        IF accepted_at[m] = Never
        THEN last_seen_nanos[m] = 0
        ELSE accepted_at[m] = last_seen_nanos[m]

\* ... the count of invalid CanData bounds the silence of every message, and a
\* message that was never accepted has been silent for as long as counts ...
SilenceCounted ==
    /\ silent \in [Messages -> 0 .. CAN_INVALID_CNT]
    /\ \A m \in Messages :
          /\ silent[m] <= can_invalid_cnt
          /\ Frequency[m] > 0 /\ accepted_at[m] = Never => silent[m] = CAN_INVALID_CNT

\* ... and can_valid is the verdict of the last CanData.
VerdictStands ==
    can_valid => can_invalid_cnt < CAN_INVALID_CNT /\ (pc # "frames" => CountersValid)

FreshInv ==
    /\ TypeOK
    /\ accepted_at \in [Messages -> Times \cup {Never}]
    /\ SeenIsAccepted
    /\ SilenceCounted
    /\ VerdictStands

\* When timestamps are in order and positive, late and stale are the same, and
\* the code's count is exactly the number of CanData some message was late for.
CauseInv ==
    /\ FreshInv
    /\ late_streak = can_invalid_cnt
    /\ pc = "frames" => last_nanos # 0
    /\ \A m \in Messages :
          /\ last_seen_nanos[m] <= last_nanos
          /\ accepted_at[m] # Never => last_seen_nanos[m] # 0

\* What awaits the query is what the call accepted.
ThisCycleInv ==
    CycleInv /\ (pc # "idle" => this_cycle = all_vals)
-----------------------------------------------------------------------------
LEMMA MonStep == [MonNext]_allVars => [Next]_vars
BY DEF MonNext, Next, MonUpdateCall, MonNextCan, MonHandleFrame, MonEndCan, MonQuery,
       allVars

LEMMA StreakType ==
    ASSUME NEW n \in 0 .. CAN_INVALID_CNT, NEW late \in BOOLEAN
    PROVE  /\ Streak(n, late) \in 0 .. CAN_INVALID_CNT
           /\ late /\ n = CAN_INVALID_CNT => Streak(n, late) = CAN_INVALID_CNT
<1>. DEFINE k == n + 1
<1>1. k \in Int /\ k > 0 /\ CAN_INVALID_CNT \in Int /\ CAN_INVALID_CNT > 0
  BY LimitsAssumption
<1>2. /\ Min({k, CAN_INVALID_CNT}) \in {k, CAN_INVALID_CNT}
      /\ Min({k, CAN_INVALID_CNT}) <= CAN_INVALID_CNT
  <2>. HIDE DEF k
  <2>. QED  BY <1>1, MinPair
<1>3. n = CAN_INVALID_CNT => Min({k, CAN_INVALID_CNT}) = CAN_INVALID_CNT
  BY <1>1, <1>2
<1>. QED  BY <1>1, <1>2, <1>3 DEF Streak

\* A longer streak stays the longer one when both go on.
LEMMA StreakMonotone ==
    ASSUME NEW n \in 0 .. CAN_INVALID_CNT, NEW k \in 0 .. CAN_INVALID_CNT, n <= k
    PROVE  Min({n + 1, CAN_INVALID_CNT}) <= Min({k + 1, CAN_INVALID_CNT})
<1>. DEFINE x == n + 1
            y == k + 1
<1>1. x \in Int /\ y \in Int /\ CAN_INVALID_CNT \in Int /\ x <= y
  BY LimitsAssumption
<1>. HIDE DEF x, y
<1>2. /\ Min({x, CAN_INVALID_CNT}) <= x
      /\ Min({x, CAN_INVALID_CNT}) <= CAN_INVALID_CNT
  BY <1>1, MinPair
<1>3. Min({y, CAN_INVALID_CNT}) \in {y, CAN_INVALID_CNT}
  BY <1>1, MinPair
<1>4. Min({x, CAN_INVALID_CNT}) \in Int
  BY <1>1, MinPair
<1>5. Min({x, CAN_INVALID_CNT}) <= Min({y, CAN_INVALID_CNT})
  BY <1>1, <1>2, <1>3, <1>4
<1>. QED  BY <1>5 DEF x, y

\* A late message is stale, whatever the order of the timestamps: wraparound
\* only makes the code see more messages as timed out.
LEMMA LateIsStale ==
    ASSUME ~TrackAll, \A k \in Messages : Frequency[k] <= NanosPerSecond,
           TypeOK, accepted_at \in [Messages -> Times \cup {Never}], SeenIsAccepted,
           NEW m \in Messages, Late(m)
    PROVE  Stale(m)
<1>1. CheckThreshold(m) \in Nat /\ CheckThreshold(m) > 0
  BY TimedThresholdPositive, CheckThresholdType DEF Late, Timed
<1>2. CASE accepted_at[m] = Never
  BY <1>1, <1>2 DEF SeenIsAccepted, Stale, Missing
<1>3. CASE accepted_at[m] # Never
  <2>1. accepted_at[m] = last_seen_nanos[m] /\ last_seen_nanos[m] \in Times /\ last_nanos \in Times
    BY <1>3 DEF SeenIsAccepted, TypeOK
  <2>2. last_nanos - last_seen_nanos[m] > CheckThreshold(m)
    BY <1>3, <2>1 DEF Late
  <2>3. last_seen_nanos[m] <= last_nanos
    BY <1>1, <2>1, <2>2, TimeAssumption DEF Times
  <2>4. Elapsed(last_nanos, last_seen_nanos[m]) = last_nanos - last_seen_nanos[m]
    BY <2>1, <2>3, ElapsedType
  <2>. QED  BY <1>1, <2>2, <2>4 DEF Stale, TimedOut
<1>. QED  BY <1>2, <1>3
-----------------------------------------------------------------------------
(***************************************************************************)
(* ValidMeansFresh.                                                        *)
(***************************************************************************)
LEMMA FreshInit == MonInit => FreshInv
<1>. SUFFICES ASSUME MonInit PROVE FreshInv
  OBVIOUS
<1>1. TypeOK
  BY TypeInit DEF MonInit
<1>2. SeenIsAccepted /\ accepted_at \in [Messages -> Times \cup {Never}]
  BY DEF MonInit, Init, SeenIsAccepted
<1>3. SilenceCounted
  BY LimitsAssumption DEF MonInit, Init, SilenceCounted
<1>4. VerdictStands
  BY DEF MonInit, Init, VerdictStands
<1>. QED  BY <1>1, <1>2, <1>3, <1>4 DEF FreshInv

\* An accepted frame is recorded as the code records it, and silence is judged
\* only when the CanData ends.
LEMMA FreshHandleFrame ==
    ASSUME FreshInv, TypeOK', NEW f \in Frames, MonHandleFrame(f)
    PROVE  FreshInv'
<1>. USE DEF FreshInv
<1>1. /\ UNCHANGED <<can_valid, can_invalid_cnt, pc, last_nanos, silent>>
      /\ pc = "frames"
  BY DEF MonHandleFrame, HandleFrame, validVars
<1>2. VerdictStands'
  BY <1>1 DEF VerdictStands
<1>3. CASE Tracked(f) /\ Accepts(f)
  <2>. DEFINE m == f.address
  <2>1. m \in Messages /\ last_nanos \in Times
    BY <1>3 DEF Tracked, TypeOK
  <2>2. /\ accepted_at' = [accepted_at EXCEPT ![m] = last_nanos]
        /\ last_seen_nanos' = [last_seen_nanos EXCEPT ![m] = last_nanos]
    BY <1>3 DEF MonHandleFrame, HandleFrame, Parse, Observe
  <2>3. last_nanos # Never
    BY <2>1, TimeAssumption DEF Times, Never
  <2>4. SeenIsAccepted'
    BY <2>1, <2>2, <2>3 DEF SeenIsAccepted, TypeOK
  <2>5. accepted_at' \in [Messages -> Times \cup {Never}]
    BY <2>1, <2>2
  <2>6. SilenceCounted'
    BY <1>1, <2>1, <2>2, <2>3 DEF SilenceCounted
  <2>. QED  BY <1>2, <2>4, <2>5, <2>6
<1>4. CASE ~(Tracked(f) /\ Accepts(f))
  <2>1. UNCHANGED <<accepted_at, last_seen_nanos>>
    BY <1>4 DEF MonHandleFrame, HandleFrame, Parse, Observe, msgVars
  <2>2. SeenIsAccepted'
    BY <2>1 DEF SeenIsAccepted
  <2>3. SilenceCounted'
    BY <1>1, <2>1 DEF SilenceCounted
  <2>. QED  BY <1>2, <2>1, <2>2, <2>3
<1>. QED  BY <1>3, <1>4

LEMMA FreshEndCan ==
    ASSUME ~TrackAll, \A m \in Messages : Frequency[m] <= NanosPerSecond,
           FreshInv, TypeOK', MonEndCan
    PROVE  FreshInv'
<1>. USE DEF FreshInv
<1>1. /\ UNCHANGED <<accepted_at, last_seen_nanos, counter_fail, last_nanos>>
      /\ can_invalid_cnt' = InvalidCntAfter
      /\ can_valid' = (InvalidCntAfter < CAN_INVALID_CNT /\ CountersValid)
      /\ silent' = [m \in Messages |-> Streak(silent[m], Late(m))]
  BY DEF MonEndCan, EndCan, UpdateValid, msgVars
<1>2. SeenIsAccepted'
  BY <1>1 DEF SeenIsAccepted
<1>3. CountersValid' <=> CountersValid
  BY <1>1 DEF CountersValid
<1>4. VerdictStands'
  BY <1>1, <1>3 DEF VerdictStands
<1>5. ASSUME NEW m \in Messages
      PROVE  /\ silent'[m] \in 0 .. CAN_INVALID_CNT
             /\ silent'[m] <= can_invalid_cnt'
             /\ Frequency[m] > 0 /\ accepted_at'[m] = Never => silent'[m] = CAN_INVALID_CNT
  <2>1. /\ silent[m] \in 0 .. CAN_INVALID_CNT
        /\ can_invalid_cnt \in 0 .. CAN_INVALID_CNT
        /\ silent[m] <= can_invalid_cnt
    BY DEF SilenceCounted, TypeOK
  <2>2. Late(m) \in BOOLEAN
    BY DEF Late
  <2>3. silent'[m] = Streak(silent[m], Late(m))
    BY <1>1
  <2>4. silent'[m] \in 0 .. CAN_INVALID_CNT
    BY <2>1, <2>2, <2>3, StreakType
  <2>5. silent'[m] <= can_invalid_cnt'
    <3>1. CASE Late(m)
      <4>1. Stale(m)
        BY <3>1, LateIsStale
      <4>2. can_invalid_cnt' = Min({can_invalid_cnt + 1, CAN_INVALID_CNT})
        BY <1>1, <4>1 DEF InvalidCntAfter
      <4>3. silent'[m] = Min({silent[m] + 1, CAN_INVALID_CNT})
        BY <2>3, <3>1 DEF Streak
      <4>. QED  BY <2>1, <4>2, <4>3, StreakMonotone
    <3>2. CASE ~Late(m)
      <4>1. silent'[m] = 0
        BY <2>3, <3>2 DEF Streak
      <4>2. can_invalid_cnt' \in 0 .. CAN_INVALID_CNT
        BY DEF TypeOK
      <4>. QED  BY <4>1, <4>2
    <3>. QED  BY <3>1, <3>2
  <2>6. ASSUME Frequency[m] > 0, accepted_at'[m] = Never
        PROVE  silent'[m] = CAN_INVALID_CNT
    <3>1. Late(m)
      BY <1>1, <2>6 DEF Late
    <3>2. silent[m] = CAN_INVALID_CNT
      BY <1>1, <2>6 DEF SilenceCounted
    <3>. QED  BY <2>1, <2>2, <2>3, <3>1, <3>2, StreakType
  <2>. QED  BY <2>4, <2>5, <2>6
<1>6. SilenceCounted'
  BY <1>1, <1>5 DEF SilenceCounted
<1>. QED  BY <1>1, <1>2, <1>4, <1>6

LEMMA FreshNext ==
    ASSUME ~TrackAll, \A m \in Messages : Frequency[m] <= NanosPerSecond,
           FreshInv, [MonNext]_allVars
    PROVE  FreshInv'
<1>. DEFINE Kept == UNCHANGED <<accepted_at, last_seen_nanos, silent, can_invalid_cnt,
                               can_valid, counter_fail>>
<1>1. TypeOK'
  BY MonStep, TypeNext DEF FreshInv
<1>2. ASSUME Kept, pc' # "frames" => pc # "frames"
      PROVE  FreshInv'
  BY <1>1, <1>2 DEF FreshInv, SeenIsAccepted, SilenceCounted, VerdictStands, CountersValid
<1>3. CASE MonUpdateCall
  BY <1>2, <1>3 DEF MonUpdateCall, UpdateCall, msgVars, validVars
<1>4. CASE \E t \in Nanos : MonNextCan(t)
  BY <1>2, <1>4 DEF MonNextCan, NextCan, msgVars, validVars
<1>5. CASE \E f \in Frames : MonHandleFrame(f)
  BY <1>1, <1>5, FreshHandleFrame
<1>6. CASE MonEndCan
  BY <1>1, <1>6, FreshEndCan
<1>7. CASE MonQuery
  BY <1>2, <1>7 DEF MonQuery, Query, validVars, monVars
<1>8. CASE \E ts \in QueryTimes : DirectQuery(ts) /\ UNCHANGED monVars
  BY <1>2, <1>8 DEF DirectQuery, validVars, localVars, monVars
<1>9. CASE UNCHANGED allVars
  BY <1>2, <1>9 DEF allVars, vars, msgVars, validVars, localVars, monVars
<1>. QED  BY <1>3, <1>4, <1>5, <1>6, <1>7, <1>8, <1>9 DEF MonNext

\* can_valid means what a client takes it to mean, for any messages, any
\* frequencies up to one per nanosecond and any traffic, timestamps out of
\* order included: the one count the code shares between its messages bounds
\* the silence of each of them.
THEOREM ValidMeansFreshHolds ==
    ASSUME ~TrackAll, \A m \in Messages : Frequency[m] <= NanosPerSecond
    PROVE  MonSpec => []ValidMeansFresh
<1>1. MonInit => FreshInv
  BY FreshInit
<1>2. FreshInv /\ [MonNext]_allVars => FreshInv'
  BY FreshNext
<1>3. FreshInv => ValidMeansFresh
  <2>. SUFFICES ASSUME FreshInv, can_valid, pc # "frames", NEW m \in Messages
                PROVE  /\ silent[m] < CAN_INVALID_CNT
                       /\ Frequency[m] > 0 => accepted_at[m] # Never
                       /\ counter_fail[m] < MAX_BAD_COUNTER
    BY DEF ValidMeansFresh
  <2>1. can_invalid_cnt < CAN_INVALID_CNT /\ CountersValid
    BY DEF FreshInv, VerdictStands
  <2>2. silent[m] < CAN_INVALID_CNT
    BY <2>1, LimitsAssumption DEF FreshInv, SilenceCounted, TypeOK
  <2>3. Frequency[m] > 0 => accepted_at[m] # Never
    BY <2>2, LimitsAssumption DEF FreshInv, SilenceCounted
  <2>. QED  BY <2>1, <2>2, <2>3 DEF CountersValid
<1>. QED  BY <1>1, <1>2, <1>3, PTL DEF MonSpec
-----------------------------------------------------------------------------
(***************************************************************************)
(* InvalidHasCause.                                                        *)
(***************************************************************************)
LEMMA StaleIsLate ==
    ASSUME CauseInv, pc = "frames", NEW m \in Messages, Stale(m)
    PROVE  Late(m)
<1>. USE DEF CauseInv, FreshInv
<1>1. Frequency[m] > 0
  BY DEF Stale, CheckThreshold
<1>2. CASE accepted_at[m] = Never
  BY <1>1, <1>2 DEF Late
<1>3. CASE accepted_at[m] # Never
  <2>1. accepted_at[m] = last_seen_nanos[m] /\ last_seen_nanos[m] # 0
    BY <1>3 DEF SeenIsAccepted
  <2>2. TimedOut(m)
    BY <2>1 DEF Stale, Missing
  <2>3. Elapsed(last_nanos, last_seen_nanos[m]) = last_nanos - last_seen_nanos[m]
    BY ElapsedType DEF TypeOK
  <2>. QED  BY <1>1, <2>1, <2>2, <2>3 DEF Late, TimedOut
<1>. QED  BY <1>2, <1>3

LEMMA CauseInit == MonInit => CauseInv
BY FreshInit, LimitsAssumption DEF MonInit, Init, CauseInv

LEMMA CauseEndCan ==
    ASSUME ~TrackAll, \A m \in Messages : Frequency[m] <= NanosPerSecond,
           CauseInv, MonEndCan
    PROVE  late_streak' = can_invalid_cnt'
<1>1. pc = "frames" /\ can_invalid_cnt' = InvalidCntAfter
  BY DEF MonEndCan, EndCan, UpdateValid
<1>2. (\E m \in Messages : Late(m)) <=> (\E m \in Messages : Stale(m))
  BY <1>1, LateIsStale, StaleIsLate DEF CauseInv, FreshInv
<1>. QED  BY <1>1, <1>2 DEF CauseInv, MonEndCan, Streak, InvalidCntAfter

LEMMA CauseNext ==
    ASSUME ~TrackAll, \A m \in Messages : Frequency[m] <= NanosPerSecond,
           MonotoneTime, 0 \notin Nanos, CauseInv, [MonNext]_allVars
    PROVE  CauseInv'
<1>. DEFINE Kept == UNCHANGED <<accepted_at, last_seen_nanos, late_streak, can_invalid_cnt>>
<1>1. FreshInv'
  BY FreshNext DEF CauseInv
<1>2. ASSUME Kept, last_nanos' = last_nanos, pc' = "frames" => pc = "frames"
      PROVE  CauseInv'
  BY <1>1, <1>2 DEF CauseInv
<1>3. CASE MonUpdateCall
  BY <1>2, <1>3 DEF MonUpdateCall, UpdateCall, msgVars, validVars
<1>4. CASE \E t \in Nanos : MonNextCan(t)
  <2>1. PICK t \in Nanos : MonNextCan(t)
    BY <1>4
  <2>2. Kept /\ last_nanos' = t /\ last_nanos <= t
    BY <2>1 DEF MonNextCan, NextCan, msgVars, validVars
  <2>3. t \in Times /\ t # 0 /\ last_nanos \in Times
    BY TimeAssumption DEF CauseInv, FreshInv, TypeOK, Times
  <2>4. \A m \in Messages : last_seen_nanos'[m] <= last_nanos'
    BY <2>2, <2>3 DEF CauseInv, FreshInv, TypeOK, Times
  <2>. QED  BY <1>1, <2>2, <2>3, <2>4 DEF CauseInv
<1>5. CASE \E f \in Frames : MonHandleFrame(f)
  <2>1. PICK f \in Frames : MonHandleFrame(f)
    BY <1>5
  <2>2. UNCHANGED <<late_streak, can_invalid_cnt, last_nanos, pc>> /\ pc = "frames"
    BY <2>1 DEF MonHandleFrame, HandleFrame, validVars
  <2>3. CASE Tracked(f) /\ Accepts(f)
    <3>1. /\ f.address \in Messages
          /\ accepted_at' = [accepted_at EXCEPT ![f.address] = last_nanos]
          /\ last_seen_nanos' = [last_seen_nanos EXCEPT ![f.address] = last_nanos]
      BY <2>1, <2>3 DEF MonHandleFrame, HandleFrame, Parse, Observe, Tracked
    <3>2. last_nanos # 0 /\ last_nanos <= last_nanos
      BY <2>2 DEF CauseInv, FreshInv, TypeOK, Times
    <3>. QED  BY <1>1, <2>2, <3>1, <3>2 DEF CauseInv, FreshInv, TypeOK
  <2>4. CASE ~(Tracked(f) /\ Accepts(f))
    BY <1>2, <2>1, <2>2, <2>4 DEF MonHandleFrame, HandleFrame, Parse, Observe, msgVars
  <2>. QED  BY <2>3, <2>4
<1>6. CASE MonEndCan
  <2>1. /\ UNCHANGED <<accepted_at, last_seen_nanos, last_nanos>>
        /\ pc' # "frames"
    BY <1>6 DEF MonEndCan, EndCan, msgVars
  <2>. QED  BY <1>1, <1>6, <2>1, CauseEndCan DEF CauseInv
<1>7. CASE MonQuery
  BY <1>2, <1>7 DEF MonQuery, Query, validVars, monVars
<1>8. CASE \E ts \in QueryTimes : DirectQuery(ts) /\ UNCHANGED monVars
  BY <1>2, <1>8 DEF DirectQuery, validVars, localVars, monVars
<1>9. CASE UNCHANGED allVars
  BY <1>2, <1>9 DEF allVars, vars, msgVars, validVars, localVars, monVars
<1>. QED  BY <1>3, <1>4, <1>5, <1>6, <1>7, <1>8, <1>9 DEF MonNext

\* No false alarm when CanData is handed over in the order of positive
\* timestamps: the code's count is the length of the streak of CanData some
\* message was late for, so a parser that is invalid has that streak behind it
\* or a broken counter.
THEOREM InvalidHasCauseHolds ==
    ASSUME ~TrackAll, \A m \in Messages : Frequency[m] <= NanosPerSecond,
           MonotoneTime, 0 \notin Nanos
    PROVE  MonSpec => InvalidHasCause
<1>. DEFINE Caused == EndCan /\ ~can_valid' =>
                         \/ late_streak' = CAN_INVALID_CNT
                         \/ \E m \in Messages : counter_fail[m] = MAX_BAD_COUNTER
<1>1. MonInit => CauseInv
  BY CauseInit
<1>2. CauseInv /\ [MonNext]_allVars => CauseInv'
  BY CauseNext
<1>3. CauseInv /\ [MonNext]_allVars => [Caused]_allVars
  <2>. SUFFICES ASSUME CauseInv, MonNext, EndCan, ~can_valid',
                       late_streak' # CAN_INVALID_CNT
                PROVE  \E m \in Messages : counter_fail[m] = MAX_BAD_COUNTER
    OBVIOUS
  <2>1. MonEndCan
    BY DEF MonNext, EndCan, MonUpdateCall, UpdateCall, MonNextCan, NextCan, MonHandleFrame,
           HandleFrame, MonQuery, Query, DirectQuery
  <2>2. InvalidCntAfter \in 0 .. CAN_INVALID_CNT /\ late_streak' = InvalidCntAfter
    BY <2>1, CauseEndCan, InvalidCntAfterType DEF CauseInv, FreshInv, EndCan, UpdateValid
  <2>3. ~CountersValid
    <3>1. InvalidCntAfter < CAN_INVALID_CNT
      BY <2>2, LimitsAssumption
    <3>2. can_valid' = (InvalidCntAfter < CAN_INVALID_CNT /\ CountersValid)
      BY DEF EndCan, UpdateValid
    <3>. QED  BY <3>1, <3>2
  <2>4. PICK m \in Messages : ~(counter_fail[m] < MAX_BAD_COUNTER)
    BY <2>3 DEF CountersValid
  <2>5. counter_fail[m] = MAX_BAD_COUNTER
    BY <2>4, LimitsAssumption DEF CauseInv, FreshInv, TypeOK
  <2>. QED  BY <2>5
<1>. HIDE DEF Caused
<1>4. MonSpec => [][Caused]_allVars
  BY <1>1, <1>2, <1>3, PTL DEF MonSpec
<1>. QED  BY <1>4 DEF InvalidHasCause, Caused
-----------------------------------------------------------------------------
(***************************************************************************)
(* AllValuesFromThisCycle.                                                 *)
(***************************************************************************)
LEMMA ThisCycleInit == MonInit => ThisCycleInv
BY TypeInit, CycleInit DEF MonInit, Init, ThisCycleInv, CycleInv

LEMMA ThisCycleNext ==
    ASSUME MonotoneTime, 0 \notin Nanos, ThisCycleInv, [MonNext]_allVars
    PROVE  ThisCycleInv'
<1>1. CycleInv'
  BY MonStep, TypeNext, CycleNext DEF ThisCycleInv, CycleInv
<1>2. CASE MonUpdateCall
  <2>1. \A m \in Messages : all_vals[m] = << >>
    BY <1>2 DEF ThisCycleInv, CycleInv, PendingThisCall, MonUpdateCall, UpdateCall
  <2>2. all_vals' = [m \in Messages |-> << >>]
    BY <1>2, <2>1 DEF MonUpdateCall, UpdateCall, msgVars, ThisCycleInv, CycleInv, TypeOK
  <2>. QED  BY <1>1, <1>2, <2>2 DEF MonUpdateCall, ThisCycleInv
<1>3. CASE \E t \in Nanos : MonNextCan(t)
  BY <1>1, <1>3 DEF MonNextCan, NextCan, msgVars, ThisCycleInv
<1>4. CASE \E f \in Frames : MonHandleFrame(f)
  <2>1. PICK f \in Frames : MonHandleFrame(f)
    BY <1>4
  <2>2. pc = "frames" /\ pc' = pc /\ this_cycle = all_vals
    BY <2>1 DEF MonHandleFrame, HandleFrame, ThisCycleInv
  <2>3. CASE Tracked(f) /\ Accepts(f)
    <3>1. /\ all_vals' = [all_vals EXCEPT ![f.address] = Append(@, f.value)]
          /\ this_cycle' = [this_cycle EXCEPT ![f.address] = Append(@, f.value)]
      BY <2>1, <2>3 DEF MonHandleFrame, HandleFrame, Parse, Observe
    <3>. QED  BY <1>1, <2>2, <3>1 DEF ThisCycleInv
  <2>4. CASE ~(Tracked(f) /\ Accepts(f))
    <3>1. UNCHANGED <<all_vals, this_cycle>>
      BY <2>1, <2>4 DEF MonHandleFrame, HandleFrame, Parse, Observe, msgVars
    <3>. QED  BY <1>1, <2>2, <3>1 DEF ThisCycleInv
  <2>. QED  BY <2>3, <2>4
<1>5. CASE MonEndCan
  BY <1>1, <1>5 DEF MonEndCan, EndCan, msgVars, ThisCycleInv
<1>6. CASE MonQuery
  BY <1>1, <1>6 DEF MonQuery, Query, ThisCycleInv
<1>7. CASE \E ts \in QueryTimes : DirectQuery(ts) /\ UNCHANGED monVars
  BY <1>1, <1>7 DEF DirectQuery, localVars, ThisCycleInv
<1>8. CASE UNCHANGED allVars
  BY <1>1, <1>8 DEF allVars, vars, msgVars, localVars, monVars, ThisCycleInv
<1>. QED  BY <1>2, <1>3, <1>4, <1>5, <1>6, <1>7, <1>8 DEF MonNext

\* update() reports exactly what this call accepted, in order and without a
\* value of an earlier cycle, when CanData is handed over in the order of
\* positive timestamps.
THEOREM AllValuesFromThisCycleHolds ==
    ASSUME MonotoneTime, 0 \notin Nanos
    PROVE  MonSpec => AllValuesFromThisCycle
<1>. DEFINE FromThisCycle == Query =>
                          \A m \in Messages :
                             IF m \in DOMAIN new_vals'
                             THEN new_vals'[m].all_values = this_cycle[m]
                             ELSE this_cycle[m] = << >>
<1>1. MonInit => ThisCycleInv
  BY ThisCycleInit
<1>2. ThisCycleInv /\ [MonNext]_allVars => ThisCycleInv'
  BY ThisCycleNext
<1>3. ThisCycleInv /\ [MonNext]_allVars => [FromThisCycle]_allVars
  <2>. SUFFICES ASSUME ThisCycleInv, Query, NEW m \in Messages
                PROVE  IF m \in DOMAIN new_vals'
                       THEN new_vals'[m].all_values = this_cycle[m]
                       ELSE this_cycle[m] = << >>
    OBVIOUS
  <2>1. this_cycle = all_vals
    BY DEF ThisCycleInv, Query
  <2>2. /\ DOMAIN new_vals' = Reported(current_nanos)
        /\ \A k \in Reported(current_nanos) : new_vals'[k].all_values = all_vals[k]
    BY DEF Query, QueryLatest
  <2>3. m \notin Reported(current_nanos) => all_vals[m] = << >>
    BY QueryEmpties DEF ThisCycleInv, Query, QueryLatest
  <2>. QED  BY <2>1, <2>2, <2>3
<1>. HIDE DEF FromThisCycle
<1>4. MonSpec => [][FromThisCycle]_allVars
  BY <1>1, <1>2, <1>3, PTL DEF MonSpec
<1>. QED  BY <1>4 DEF AllValuesFromThisCycle, FromThisCycle
=============================================================================
