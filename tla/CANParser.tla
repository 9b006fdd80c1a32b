------------------------------ MODULE CANParser ------------------------------
(***************************************************************************)
(* The CAN parser of opendbc/can/parser.cc: one CANParser object that      *)
(* watches one bus, keeps a MessageState per message and is driven by      *)
(* update(can_data), a list of CanData = (timestamp, frames).  update() is *)
(* sequential; its two nested loops are cut into one action per iteration  *)
(* so that the environment picks the data as it is consumed:               *)
(*                                                                         *)
(*   idle --UpdateCall--> cans --NextCan--> frames --HandleFrame*-->       *)
(*        frames --EndCan--> cans ... cans --Query--> idle                 *)
(*                                                                         *)
(* Frame contents are abstracted to what the checks tell apart: source     *)
(* bus, address, whether the data fits 64 bytes, whether the received      *)
(* CHECKSUM matches, the received COUNTER, and one value that stands for   *)
(* all the signals of the message (parse() stores all of them or none).    *)
(***************************************************************************)
EXTENDS Integers, Sequences, FiniteSetsExt

CONSTANTS
    Messages,         \* addresses in message_states
    OtherAddress,     \* an address this parser does not track
    Bus, OtherBus,    \* the bus of this parser and another source
    Values, Zero,     \* decoded signal values; Zero is the resize() value
    Nanos,            \* timestamps a CanData may carry
    NanosMod,         \* 2^64: uint64_t timestamps
    NanosPerSecond,   \* 10^9
    Frequency,        \* expected frequency of each message, <= 0 for none
    CounterMod,       \* 1 << size of its COUNTER signal, 0 if it has none
    HasChecksum,      \* messages whose CHECKSUM signal has a calc_checksum
    TrackAll,         \* built by the second constructor (all messages)
    IgnoreChecksum, IgnoreCounter,   \* its two flags
    MAX_BAD_COUNTER, CAN_INVALID_CNT,
    UINT8,            \* 2^8: uint8_t counter
    QueryTimes,       \* last_ts arguments of direct query_latest() calls
    MonotoneTime,     \* callers deliver CanData in timestamp order
    MaxPending        \* bound on Len(all_vals[m]): unbounded in the code

ASSUME MessagesAssumption ==
    /\ OtherAddress \notin Messages
    /\ Bus # OtherBus
    /\ Zero \in Values
ASSUME TimeAssumption ==
    /\ NanosMod \in Nat \ {0}
    /\ Nanos \subseteq 0 .. NanosMod - 1
    /\ NanosPerSecond \in Nat
    /\ QueryTimes \subseteq 0 .. NanosMod - 1
    /\ MonotoneTime \in BOOLEAN
ASSUME ConfigAssumption ==
    /\ Frequency \in [Messages -> Int]
    /\ CounterMod \in [Messages -> Nat]
    /\ HasChecksum \subseteq Messages
    /\ TrackAll \in BOOLEAN /\ IgnoreChecksum \in BOOLEAN /\ IgnoreCounter \in BOOLEAN
    /\ ~TrackAll => ~IgnoreChecksum /\ ~IgnoreCounter
ASSUME LimitsAssumption ==
    /\ MAX_BAD_COUNTER \in Nat \ {0}
    /\ CAN_INVALID_CNT \in Nat \ {0}
    /\ UINT8 \in Nat \ {0}
    /\ MaxPending \in Nat \ {0}

VARIABLES
    \* MessageState, a function of the message
    vals, all_vals, last_seen_nanos, counter, counter_fail,
    \* CANParser
    can_valid, bus_timeout, last_nanos, last_nonempty_nanos, can_invalid_cnt,
    \* locals of update() and UpdateCans(), and the output vector
    pc, current_nanos, bus_empty, new_vals

msgVars   == <<vals, all_vals, last_seen_nanos, counter, counter_fail>>
validVars == <<can_valid, can_invalid_cnt, bus_timeout, last_nonempty_nanos>>
localVars == <<pc, current_nanos, bus_empty, last_nanos>>
vars      == <<msgVars, validVars, localVars, new_vals>>
-----------------------------------------------------------------------------
\* Thresholds fixed by the constructors.
CheckThreshold(m) ==
    IF ~TrackAll /\ Frequency[m] > 0
    THEN (NanosPerSecond \div Frequency[m]) * 10
    ELSE 0

Timed == {m \in Messages : Frequency[m] > 0}

\* Mutant: one period of the fastest message instead of ten.
BusTimeoutAfterOnePeriod ==
    IF TrackAll THEN 0
    ELSE Min({CheckThreshold(m) \div 10 : m \in Timed} \cup {NanosMod - 1})

BusTimeoutThreshold ==
    IF TrackAll THEN 0
    ELSE Min({CheckThreshold(m) : m \in Timed} \cup {NanosMod - 1})

\* now - then on uint64_t.
Elapsed(now, then) ==
    IF then <= now THEN now - then ELSE now - then + NanosMod

\* Frames of other buses, untracked addresses and long frames are skipped.
Tracked(f) == f.src = Bus /\ f.address \in Messages /\ f.fits

\* The frames update() can be handed.  The COUNTER field of message m is
\* CounterMod[m] wide; fields that nothing looks at are not enumerated.
CounterField(m)  == IF CounterMod[m] = 0 THEN {0} ELSE 0 .. CounterMod[m] - 1
ChecksumField(m) == IF m \in HasChecksum THEN BOOLEAN ELSE {TRUE}

TrackedFrames(m) ==
    [src : {Bus}, address : {m}, fits : {TRUE}, checksum_ok : ChecksumField(m),
     counter : CounterField(m), value : Values]

SkippedFrames ==
    {f \in [src : {Bus, OtherBus}, address : Messages \cup {OtherAddress},
            fits : BOOLEAN, checksum_ok : {TRUE}, counter : {0}, value : {Zero}] :
        ~Tracked(f)}

Frames == SkippedFrames \cup UNION {TrackedFrames(m) : m \in Messages}

Init ==
    /\ vals = [m \in Messages |-> Zero]
    /\ all_vals = [m \in Messages |-> << >>]
    /\ last_seen_nanos = [m \in Messages |-> 0]
    /\ counter = [m \in Messages |-> 0]
    /\ counter_fail = [m \in Messages |-> 0]
    /\ can_valid = FALSE
    /\ bus_timeout = FALSE
    /\ last_nanos = 0
    /\ last_nonempty_nanos = 0
    /\ can_invalid_cnt = CAN_INVALID_CNT
    /\ pc = "idle"
    /\ current_nanos = 0
    /\ bus_empty = TRUE
    /\ new_vals = << >>
-----------------------------------------------------------------------------
\* MessageState::update_counter_generic: a leaky bucket over the COUNTER.
ChecksCounter(m) == CounterMod[m] # 0 /\ ~IgnoreCounter

\* Mutants: no std::min; a fault is never forgiven.
CounterFailUnbounded(m, v) ==
    IF (counter[m] + 1) % CounterMod[m] # v THEN counter_fail[m] + 1
    ELSE IF counter_fail[m] > 0 THEN counter_fail[m] - 1 ELSE 0

CounterFailUnforgiving(m, v) ==
    IF (counter[m] + 1) % CounterMod[m] # v
    THEN Min({counter_fail[m] + 1, MAX_BAD_COUNTER})
    ELSE counter_fail[m]

CounterFailAfter(m, v) ==
    IF (counter[m] + 1) % CounterMod[m] # v
    THEN Min({counter_fail[m] + 1, MAX_BAD_COUNTER})
    ELSE IF counter_fail[m] > 0 THEN counter_fail[m] - 1 ELSE 0

\* Mutant: the counter follows only frames that were expected.
UpdateCounterNoResync(m, v) ==
    IF ChecksCounter(m)
    THEN /\ counter_fail' = [counter_fail EXCEPT ![m] = CounterFailAfter(m, v)]
         /\ counter' = [counter EXCEPT ![m] =
                           IF (@ + 1) % CounterMod[m] = v THEN v % UINT8 ELSE @]
    ELSE UNCHANGED <<counter, counter_fail>>

UpdateCounterGeneric(m, v) ==
    IF ChecksCounter(m)
    THEN /\ counter_fail' = [counter_fail EXCEPT ![m] = CounterFailAfter(m, v)]
         /\ counter' = [counter EXCEPT ![m] = v % UINT8]
    ELSE UNCHANGED <<counter, counter_fail>>

CounterFailed(m, v) == ChecksCounter(m) /\ CounterFailAfter(m, v) >= MAX_BAD_COUNTER

ChecksumFailed(m, ok) == ~IgnoreChecksum /\ m \in HasChecksum /\ ~ok

\* MessageState::parse: the counter moves even when the checksum is wrong;
\* the values only when both checks pass.
Accepts(f) ==
    /\ ~ChecksumFailed(f.address, f.checksum_ok)
    /\ ~CounterFailed(f.address, f.counter)

\* Mutant: the partial update tests/test_packer_parser.py:94 tells of.
ParsePartially(f) ==
    LET m == f.address IN
    /\ UpdateCounterGeneric(m, f.counter)
    /\ vals' = [vals EXCEPT ![m] = f.value]
    /\ IF Accepts(f)
       THEN /\ all_vals' = [all_vals EXCEPT ![m] = Append(@, f.value)]
            /\ last_seen_nanos' = [last_seen_nanos EXCEPT ![m] = last_nanos]
       ELSE UNCHANGED <<all_vals, last_seen_nanos>>

Parse(f) ==
    LET m == f.address IN
    /\ UpdateCounterGeneric(m, f.counter)
    /\ IF Accepts(f)
       THEN /\ vals' = [vals EXCEPT ![m] = f.value]
            /\ all_vals' = [all_vals EXCEPT ![m] = Append(@, f.value)]
            /\ last_seen_nanos' = [last_seen_nanos EXCEPT ![m] = last_nanos]
       ELSE UNCHANGED <<vals, all_vals, last_seen_nanos>>

\* One turn of UpdateCans' loop over the frames of a CanData.
HandleFrame(f) ==
    /\ pc = "frames"
    /\ bus_empty' = (bus_empty /\ f.src # Bus)
    /\ IF Tracked(f)
       THEN Len(all_vals[f.address]) < MaxPending /\ Parse(f)
       ELSE UNCHANGED msgVars
    /\ UNCHANGED <<validVars, pc, current_nanos, last_nanos, new_vals>>
-----------------------------------------------------------------------------
\* CANParser::update: the caller enters with an empty output vector ...
UpdateCall ==
    /\ pc = "idle"
    /\ pc' = "cans"
    /\ current_nanos' = 0
    /\ new_vals' = << >>
    /\ UNCHANGED <<msgVars, validVars, bus_empty, last_nanos>>

\* Mutant: the query starts at the last CanData of the call.
NextCanForgetsFirst(t) ==
    /\ pc = "cans"
    /\ MonotoneTime => last_nanos <= t
    /\ pc' = "frames"
    /\ current_nanos' = t
    /\ last_nanos' = t
    /\ bus_empty' = TRUE
    /\ UNCHANGED <<msgVars, validVars, new_vals>>

\* ... and each CanData is stamped, unpacked, then judged.
NextCan(t) ==
    /\ pc = "cans"
    /\ MonotoneTime => last_nanos <= t
    /\ pc' = "frames"
    /\ current_nanos' = IF current_nanos = 0 THEN t ELSE current_nanos
    /\ last_nanos' = t
    /\ bus_empty' = TRUE
    /\ UNCHANGED <<msgVars, validVars, new_vals>>

\* UpdateCans, after its loop: the bus timeout.
LastNonempty == IF bus_empty THEN last_nonempty_nanos ELSE last_nanos

UpdateBusTimeout ==
    /\ last_nonempty_nanos' = LastNonempty
    /\ bus_timeout' = (Elapsed(last_nanos, LastNonempty) > BusTimeoutThreshold)

\* UpdateValid.  can_invalid_cnt saturates: the code only compares it with
\* CAN_INVALID_CNT.
Missing(m)  == last_seen_nanos[m] = 0

\* Mutant: at the timeout is too late.
TimedOutEarly(m) == Elapsed(last_nanos, last_seen_nanos[m]) >= CheckThreshold(m)

TimedOut(m) == Elapsed(last_nanos, last_seen_nanos[m]) > CheckThreshold(m)

\* Mutant: a message that was never seen is as good as one seen at time 0.
StaleUnlessTimedOut(m) == CheckThreshold(m) > 0 /\ TimedOut(m)

Stale(m) == CheckThreshold(m) > 0 /\ (Missing(m) \/ TimedOut(m))

CountersValid == \A m \in Messages : counter_fail[m] < MAX_BAD_COUNTER

InvalidCntAfter ==
    IF \E m \in Messages : Stale(m)
    THEN Min({can_invalid_cnt + 1, CAN_INVALID_CNT})
    ELSE 0

\* Mutant: an off-by-one that the saturated count never passes.
UpdateValidTooPatient ==
    /\ can_invalid_cnt' = InvalidCntAfter
    /\ can_valid' = (InvalidCntAfter <= CAN_INVALID_CNT /\ CountersValid)

UpdateValid ==
    /\ can_invalid_cnt' = InvalidCntAfter
    /\ can_valid' = (InvalidCntAfter < CAN_INVALID_CNT /\ CountersValid)

EndCan ==
    /\ pc = "frames"
    /\ pc' = "cans"
    /\ UpdateBusTimeout
    /\ UpdateValid
    /\ UNCHANGED <<msgVars, current_nanos, bus_empty, last_nanos, new_vals>>

\* query_latest: report, and empty, the messages seen since last_ts.
Since(last_ts) == IF last_ts = 0 THEN last_nanos ELSE last_ts

\* Mutant: the first CanData of the call is left out.
ReportedAfter(last_ts) ==
    {m \in Messages : Since(last_ts) = 0 \/ last_seen_nanos[m] > Since(last_ts)}

Reported(last_ts) ==
    {m \in Messages : Since(last_ts) = 0 \/ last_seen_nanos[m] >= Since(last_ts)}

\* Mutant: all_vals is not cleared.
QueryLatestKeeps(last_ts) ==
    /\ new_vals' = [m \in Reported(last_ts) |-> [ts_nanos   |-> last_seen_nanos[m],
                                                 value      |-> vals[m],
                                                 all_values |-> all_vals[m]]]
    /\ UNCHANGED all_vals

QueryLatest(last_ts) ==
    LET R == Reported(last_ts) IN
    /\ new_vals' = [m \in R |-> [ts_nanos   |-> last_seen_nanos[m],
                                 value      |-> vals[m],
                                 all_values |-> all_vals[m]]]
    /\ all_vals' = [m \in Messages |-> IF m \in R THEN << >> ELSE all_vals[m]]

Query ==
    /\ pc = "cans"
    /\ pc' = "idle"
    /\ QueryLatest(current_nanos)
    /\ UNCHANGED <<vals, last_seen_nanos, counter, counter_fail, validVars,
                   current_nanos, bus_empty, last_nanos>>

\* query_latest is public: a C++ client may call it between updates.
DirectQuery(ts) ==
    /\ pc = "idle"
    /\ QueryLatest(ts)
    /\ UNCHANGED <<vals, last_seen_nanos, counter, counter_fail, validVars, localVars>>

Next ==
    \/ UpdateCall
    \/ \E t \in Nanos : NextCan(t)
    \/ \E f \in Frames : HandleFrame(f)
    \/ EndCan
    \/ Query
    \/ \E ts \in QueryTimes : DirectQuery(ts)

Spec == Init /\ [][Next]_vars
-----------------------------------------------------------------------------
Times == 0 .. NanosMod - 1

Reports ==
    [ts_nanos : Times, value : Values, all_values : Seq(Values)]

\* Types, and the ranges of the two saturating counters of parser.cc: a fault
\* count never passes MAX_BAD_COUNTER and a uint8_t never passes UINT8 - 1.
TypeOK ==
    /\ vals \in [Messages -> Values]
    /\ all_vals \in [Messages -> Seq(Values)]
    /\ \A m \in Messages : Len(all_vals[m]) <= MaxPending
    /\ last_seen_nanos \in [Messages -> Times]
    /\ counter \in [Messages -> 0 .. UINT8 - 1]
    /\ counter_fail \in [Messages -> 0 .. MAX_BAD_COUNTER]
    /\ can_valid \in BOOLEAN
    /\ bus_timeout \in BOOLEAN
    /\ last_nanos \in Times
    /\ last_nonempty_nanos \in Times
    /\ can_invalid_cnt \in 0 .. CAN_INVALID_CNT
    /\ pc \in {"idle", "cans", "frames"}
    /\ current_nanos \in Times
    /\ bus_empty \in BOOLEAN
    /\ \E R \in SUBSET Messages : new_vals \in [R -> Reports]

(***************************************************************************)
(* When CanData arrives in timestamp order, update() hands over everything *)
(* it stored: no value is left behind for a later cycle.  This rests on    *)
(* query_latest's "last_seen_nanos < last_ts" test (parser.cc:250) being   *)
(* strict and on current_nanos being the first timestamp of the call.      *)
(***************************************************************************)
CycleComplete ==
    pc = "idle" => \A m \in Messages : all_vals[m] = << >>

(***************************************************************************)
(* bus_timeout (parser.cc:212) is never raised while UpdateValid, which    *)
(* looks at each message separately, finds nothing wrong: a silent bus is  *)
(* already counting toward can_valid = FALSE.                              *)
(***************************************************************************)
BusTimeoutCountsAsInvalid ==
    bus_timeout => can_invalid_cnt > 0

-----------------------------------------------------------------------------
\* What makes them inductive when timestamps are in order and positive.

\* Unreported values were stored by the call in progress, not before it.
PendingThisCall ==
    /\ current_nanos <= last_nanos
    /\ pc = "frames" => current_nanos # 0
    /\ \A m \in Messages : all_vals[m] # << >> =>
          pc # "idle" /\ current_nanos # 0 /\ current_nanos <= last_seen_nanos[m]

\* No message is newer than the bus itself.
SeenOnBus ==
    /\ last_nonempty_nanos <= last_nanos
    /\ \A m \in Messages :
          last_seen_nanos[m] <= IF pc = "frames" THEN LastNonempty ELSE last_nonempty_nanos

CycleInv == TypeOK /\ PendingThisCall

BusInv == TypeOK /\ SeenOnBus /\ BusTimeoutCountsAsInvalid
=============================================================================
