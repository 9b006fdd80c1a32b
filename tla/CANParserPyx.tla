---------------------------- MODULE CANParserPyx -----------------------------
(***************************************************************************)
(* The Cython class CANParser of opendbc/can/parser_pyx.pyx around the C++ *)
(* parser: its dictionaries vl, vl_all and ts_nanos, filled by             *)
(* update_strings, and the constructor that calls update_strings([]) so    *)
(* that every signal has a value.  The GIL makes each call atomic to       *)
(* Python; it is cut where the C++ code is, plus one step per part of      *)
(* update_strings.                                                         *)
(*                                                                         *)
(*   init --Construct--> updating --C++ update()--> distribute             *)
(*        --Distribute--> ready --UpdateStrings--> updating ...            *)
(***************************************************************************)
EXTENDS CANParser

CONSTANTS Unset,    \* a dictionary entry that does not exist
          MaxLog    \* bound on the history of each message

ASSUME UnsetAssumption == Unset \notin Values /\ Unset \notin Nanos \cup {0}

VARIABLES py, vl, vl_all, ts_nanos, updated_addrs,
          constructing,        \* update_strings was called by __init__
          accepted, delivered  \* history: all accepted entries; how many reached vl_all

dictVars == <<vl, vl_all, ts_nanos, updated_addrs>>
histVars == <<accepted, delivered>>
pyVars   == <<py, constructing, dictVars, histVars>>

PyInit ==
    /\ Init
    /\ py = "init"
    /\ constructing = TRUE
    /\ vl = [m \in Messages |-> Unset]
    /\ vl_all = [m \in Messages |-> << >>]
    /\ ts_nanos = [m \in Messages |-> Unset]
    /\ updated_addrs = {}
    /\ accepted = [m \in Messages |-> << >>]
    /\ delivered = [m \in Messages |-> 0]
-----------------------------------------------------------------------------
ClearVlAll == vl_all' = [m \in Messages |-> << >>]

\* Mutant: __init__ without its update_strings([]).
ConstructWithoutUpdate ==
    /\ py = "init"
    /\ py' = "ready"
    /\ constructing' = FALSE
    /\ UNCHANGED <<vars, dictVars, histVars>>

\* __init__ ends with update_strings([]).
Construct ==
    /\ py = "init"
    /\ py' = "updating"
    /\ ClearVlAll
    /\ UpdateCall
    /\ UNCHANGED <<constructing, vl, ts_nanos, updated_addrs, histVars>>

\* A well-formed call: vl_all is cleared, the argument converted, and the
\* C++ update() entered.
UpdateStrings ==
    /\ py = "ready"
    /\ py' = "updating"
    /\ ClearVlAll
    /\ UpdateCall
    /\ UNCHANGED <<constructing, vl, ts_nanos, updated_addrs, histVars>>

\* A malformed one raises "invalid parameter" after vl_all was cleared.
InvalidParameter ==
    /\ py = "ready"
    /\ ClearVlAll
    /\ UNCHANGED <<vars, py, constructing, vl, ts_nanos, updated_addrs, histVars>>

Record(f) ==
    IF Tracked(f) /\ Accepts(f)
    THEN /\ Len(accepted[f.address]) < MaxLog
         /\ accepted' = [accepted EXCEPT ![f.address] = Append(@, <<f.value, last_nanos>>)]
    ELSE UNCHANGED accepted

\* self.can.update(can_data_array, new_vals)
CppNextCan(t) ==
    /\ py = "updating" /\ ~constructing
    /\ NextCan(t)
    /\ UNCHANGED pyVars

CppHandleFrame(f) ==
    /\ HandleFrame(f)
    /\ Record(f)
    /\ UNCHANGED <<py, constructing, dictVars, delivered>>

CppEndCan == EndCan /\ UNCHANGED pyVars

CppQuery ==
    /\ Query
    /\ py' = "distribute"
    /\ UNCHANGED <<constructing, dictVars, histVars>>

\* The loop over new_vals; signals of messages that were not reported keep
\* their old vl and ts_nanos, and an empty vl_all.
Distribute ==
    /\ py = "distribute"
    /\ py' = "ready"
    /\ constructing' = FALSE
    /\ vl' = [m \in Messages |-> IF m \in DOMAIN new_vals THEN new_vals[m].value ELSE vl[m]]
    /\ vl_all' = [m \in Messages |->
                     IF m \in DOMAIN new_vals THEN new_vals[m].all_values ELSE vl_all[m]]
    /\ ts_nanos' = [m \in Messages |->
                     IF m \in DOMAIN new_vals THEN new_vals[m].ts_nanos ELSE ts_nanos[m]]
    /\ updated_addrs' = DOMAIN new_vals
    /\ delivered' = [m \in Messages |->
                     IF m \in DOMAIN new_vals
                     THEN delivered[m] + Len(new_vals[m].all_values) ELSE delivered[m]]
    /\ UNCHANGED <<vars, accepted>>

PyNext ==
    \/ Construct
    \/ UpdateStrings
    \/ InvalidParameter
    \/ \E t \in Nanos : CppNextCan(t)
    \/ \E f \in Frames : CppHandleFrame(f)
    \/ CppEndCan
    \/ CppQuery
    \/ Distribute

PySpec == PyInit /\ [][PyNext]_<<vars, pyVars>>
-----------------------------------------------------------------------------
(***************************************************************************)
(* The dictionaries implement the feed: through rejected frames, skipped   *)
(* frames, several CanData per call, several frames per CanData and        *)
(* malformed calls, each accepted value reaches vl_all exactly once and in *)
(* order, and vl, ts_nanos show the newest one.                            *)
(***************************************************************************)
Feed == INSTANCE SignalFeed WITH
    Times <- Nanos,
    Initial <- <<Zero, 0>>,
    log <- accepted, read <- delivered, inbox <- vl_all, updated <- updated_addrs,
    latest <- [m \in Messages |->
                  IF vl[m] = Unset THEN Unset ELSE <<vl[m], ts_nanos[m]>>]

ImplementsFeed == Feed!Spec

(***************************************************************************)
(* Once the constructor has returned, a client may index vl and ts_nanos   *)
(* with any signal: the update_strings([]) of __init__ reported them all.  *)
(***************************************************************************)
ReadyMeansPopulated ==
    py = "ready" => \A m \in Messages : vl[m] # Unset /\ ts_nanos[m] # Unset

(***************************************************************************)
(* Between calls the Python view equals the C++ state: nothing a frame     *)
(* changed is still waiting in the parser.                                 *)
(***************************************************************************)
ViewIsCurrent ==
    py = "ready" => \A m \in Messages : vl[m] = vals[m] /\ ts_nanos[m] = last_seen_nanos[m]
=============================================================================
