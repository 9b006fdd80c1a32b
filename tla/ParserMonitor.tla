---------------------------- MODULE ParserMonitor ----------------------------
(***************************************************************************)
(* CANParser observed by history variables that the code does not have.    *)
(* They record what was really received, without the encodings the code    *)
(* uses (0 for "never seen", a saturating count for "invalid for long"),   *)
(* so that can_valid and the reported values can be judged against them.   *)
(***************************************************************************)
EXTENDS CANParser

VARIABLES
    accepted_at,   \* when each message was last accepted, or Never
    silent,        \* consecutive CanData each message has been late for
    late_streak,   \* consecutive CanData some message was late for
    this_cycle,    \* values accepted since update() was called
    accepted_now   \* some frame of the current CanData was accepted

monVars == <<accepted_at, silent, late_streak, this_cycle, accepted_now>>
allVars == <<vars, monVars>>

Never == -1

MonInit ==
    /\ Init
    /\ accepted_at = [m \in Messages |-> Never]
    /\ silent = [m \in Messages |-> CAN_INVALID_CNT]
    /\ late_streak = CAN_INVALID_CNT
    /\ this_cycle = [m \in Messages |-> << >>]
    /\ accepted_now = FALSE

\* A message is late ten periods after it was last accepted.
Late(m) ==
    /\ Frequency[m] > 0
    /\ \/ accepted_at[m] = Never
       \/ last_nanos - accepted_at[m] > CheckThreshold(m)

Streak(n, late) == IF late THEN Min({n + 1, CAN_INVALID_CNT}) ELSE 0

Observe(f) ==
    IF Tracked(f) /\ Accepts(f)
    THEN /\ accepted_at' = [accepted_at EXCEPT ![f.address] = last_nanos]
         /\ this_cycle' = [this_cycle EXCEPT ![f.address] = Append(@, f.value)]
         /\ accepted_now' = TRUE
    ELSE UNCHANGED <<accepted_at, this_cycle, accepted_now>>

MonUpdateCall ==
    /\ UpdateCall
    /\ this_cycle' = [m \in Messages |-> << >>]
    /\ UNCHANGED <<accepted_at, silent, late_streak, accepted_now>>

MonNextCan(t) ==
    /\ NextCan(t)
    /\ accepted_now' = FALSE
    /\ UNCHANGED <<accepted_at, silent, late_streak, this_cycle>>

MonHandleFrame(f) ==
    /\ HandleFrame(f)
    /\ Observe(f)
    /\ UNCHANGED <<silent, late_streak>>

MonEndCan ==
    /\ EndCan
    /\ silent' = [m \in Messages |-> Streak(silent[m], Late(m))]
    /\ late_streak' = Streak(late_streak, \E m \in Messages : Late(m))
    /\ UNCHANGED <<accepted_at, this_cycle, accepted_now>>

MonQuery == Query /\ UNCHANGED monVars

MonNext ==
    \/ MonUpdateCall
    \/ \E t \in Nanos : MonNextCan(t)
    \/ \E f \in Frames : MonHandleFrame(f)
    \/ MonEndCan
    \/ MonQuery
    \/ \E ts \in QueryTimes : DirectQuery(ts) /\ UNCHANGED monVars

MonSpec == MonInit /\ [][MonNext]_allVars

\* The caller keeps calling update(), CanData keeps coming, and every call
\* and every CanData is finite.
MonFairSpec ==
    /\ MonSpec
    /\ WF_allVars(MonUpdateCall)
    /\ SF_allVars(\E t \in Nanos : MonNextCan(t))
    /\ WF_allVars(MonEndCan)
    /\ SF_allVars(MonQuery)
-----------------------------------------------------------------------------
(***************************************************************************)
(* can_valid means what a client takes it to mean: every message with a    *)
(* frequency was accepted, and was within its timeout at one of the last   *)
(* CAN_INVALID_CNT CanData, and no message has a broken counter.           *)
(***************************************************************************)
ValidMeansFresh ==
    can_valid /\ pc # "frames" =>
        \A m \in Messages :
            /\ silent[m] < CAN_INVALID_CNT
            /\ Frequency[m] > 0 => accepted_at[m] # Never
            /\ counter_fail[m] < MAX_BAD_COUNTER

(***************************************************************************)
(* No false alarm: can_valid is FALSE after a CanData only if a counter is *)
(* broken or some message was late at each of the last CAN_INVALID_CNT of  *)
(* them (a parser that has never had a good CanData counts as late).       *)
(***************************************************************************)
InvalidHasCause ==
    [][EndCan /\ ~can_valid' =>
          \/ late_streak' = CAN_INVALID_CNT
          \/ \E m \in Messages : counter_fail[m] = MAX_BAD_COUNTER]_allVars

(***************************************************************************)
(* "all values from this cycle" (common_dbc.h:18): what update() reports   *)
(* for a message is exactly what this call accepted, in order, and every   *)
(* message this call accepted is reported.                                 *)
(***************************************************************************)
AllValuesFromThisCycle ==
    [][Query =>
          \A m \in Messages :
             IF m \in DOMAIN new_vals'
             THEN new_vals'[m].all_values = this_cycle[m]
             ELSE this_cycle[m] = << >>]_allVars

(***************************************************************************)
(* "ensures CAN stays invalid while receiving invalid messages"            *)
(* (tests/test_packer_parser.py:73): once the counters made the parser     *)
(* invalid, can_valid does not come back at the end of a CanData none of   *)
(* whose frames passed the checks.                                         *)
(***************************************************************************)
StaysInvalidOnInvalid ==
    [][~can_valid /\ can_invalid_cnt < CAN_INVALID_CNT /\ can_valid'
          => accepted_now]_allVars

(***************************************************************************)
(* A message that goes late is noticed: either it is accepted again or     *)
(* can_valid drops.                                                        *)
(***************************************************************************)
LateIsNoticed ==
    \A m \in Messages : (pc = "idle" /\ Late(m)) ~> (~can_valid \/ ~Late(m))
=============================================================================
