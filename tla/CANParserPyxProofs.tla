------------------------- MODULE CANParserPyxProofs --------------------------
(***************************************************************************)
(* What a client of the Python class CANParser sees, for any messages and  *)
(* any traffic.                                                            *)
(***************************************************************************)
EXTENDS CANParserPyx, CANParserProofs

\* Every timestamp is 0 or one that a CanData carried, so none is Unset.
SeenInv == \A m \in Messages : last_seen_nanos[m] \in Nanos \cup {0}
ClockInv == last_nanos \in Nanos \cup {0}

\* The first update_strings sees no CanData, so its query reports everything.
ConstructingInv ==
    /\ py \in {"init", "updating", "distribute", "ready"}
    /\ constructing => /\ py # "ready"
                       /\ py \in {"init", "updating"} => last_nanos = 0 /\ current_nanos = 0
                       /\ py = "updating" => pc = "cans"
                       /\ py = "init" => pc = "idle"
                       /\ py = "distribute" => DOMAIN new_vals = Messages
    /\ ~constructing => py # "init"

\* What a query reports is what the parser holds.
ReportInv ==
    py = "distribute" =>
        /\ pc = "idle"
        /\ DOMAIN new_vals \subseteq Messages
        /\ \A m \in DOMAIN new_vals : /\ new_vals[m].value = vals[m]
                                      /\ new_vals[m].ts_nanos = last_seen_nanos[m]

PopulatedInv ==
    ~constructing => \A m \in Messages : vl[m] # Unset /\ ts_nanos[m] # Unset

PyInv == TypeOK /\ SeenInv /\ ClockInv /\ ConstructingInv /\ ReportInv /\ PopulatedInv
-----------------------------------------------------------------------------
(***************************************************************************)
(* The Python class drives the C++ parser: every step of it is a step of   *)
(* CANParser or leaves the parser as it is.                                *)
(***************************************************************************)
LEMMA PyStepIsParserStep == [PyNext]_<<vars, pyVars>> => [Next]_vars
BY DEF PyNext, Next, Construct, UpdateStrings, InvalidParameter, CppNextCan, CppHandleFrame,
       CppEndCan, CppQuery, Distribute

(***************************************************************************)
(* Every behaviour of the Python class is one of the C++ parser.           *)
(***************************************************************************)
THEOREM PyDrivesParser == PySpec => Spec
<1>1. PyInit => Init
  BY DEF PyInit
<1>. QED  BY <1>1, PyStepIsParserStep, PTL DEF PySpec, Spec
-----------------------------------------------------------------------------
\* query_latest reports the values and timestamps of the parser.
LEMMA QueryReports ==
    ASSUME Query
    PROVE  /\ pc' = "idle"
           /\ DOMAIN new_vals' = Reported(current_nanos)
           /\ Reported(current_nanos) \subseteq Messages
           /\ \A m \in DOMAIN new_vals' : /\ new_vals'[m].value = vals'[m]
                                          /\ new_vals'[m].ts_nanos = last_seen_nanos'[m]
BY DEF Query, QueryLatest, Reported

LEMMA PyInitInv == PyInit => PyInv
<1>. SUFFICES ASSUME PyInit PROVE PyInv
  OBVIOUS
<1>1. Init /\ py = "init" /\ constructing
  BY Zenon DEF PyInit
<1>2. TypeOK
  BY <1>1, TypeInit
<1>. QED  BY <1>1, <1>2 DEF Init, PyInv, SeenInv, ClockInv, ConstructingInv, ReportInv, PopulatedInv

LEMMA SeenStep ==
    TypeOK /\ SeenInv /\ ClockInv /\ [Next]_vars => SeenInv' /\ ClockInv'
<1>. SUFFICES ASSUME TypeOK, SeenInv, ClockInv, [Next]_vars PROVE SeenInv' /\ ClockInv'
  OBVIOUS
<1>1. ASSUME NEW f \in Frames, HandleFrame(f) PROVE SeenInv' /\ ClockInv'
  BY <1>1 DEF HandleFrame, Parse, msgVars, SeenInv, ClockInv, TypeOK
<1>2. ASSUME NEW t \in Nanos, NextCan(t) PROVE SeenInv' /\ ClockInv'
  BY <1>2 DEF NextCan, msgVars, SeenInv, ClockInv
<1>3. CASE UNCHANGED <<last_seen_nanos, last_nanos>>
  BY <1>3 DEF SeenInv, ClockInv
<1>. QED
  BY <1>1, <1>2, <1>3 DEF Next, UpdateCall, EndCan, Query, DirectQuery, vars, msgVars, localVars

LEMMA ConstructingStep == PyInv /\ [PyNext]_<<vars, pyVars>> => ConstructingInv'
<1>. SUFFICES ASSUME PyInv, [PyNext]_<<vars, pyVars>> PROVE ConstructingInv'
  OBVIOUS
<1>. USE DEF PyInv, ConstructingInv
<1>1. CASE Construct \/ UpdateStrings
  BY <1>1 DEF Construct, UpdateStrings, UpdateCall
<1>2. CASE InvalidParameter \/ UNCHANGED <<vars, pyVars>>
  BY <1>2 DEF InvalidParameter, vars, localVars, pyVars
<1>3. ASSUME NEW t \in Nanos, CppNextCan(t) PROVE ConstructingInv'
  BY <1>3 DEF CppNextCan, NextCan, pyVars
<1>4. ASSUME NEW f \in Frames, CppHandleFrame(f) PROVE ConstructingInv'
  BY <1>4 DEF CppHandleFrame, HandleFrame
<1>5. CASE CppEndCan
  BY <1>5 DEF CppEndCan, EndCan, pyVars
<1>6. CASE CppQuery
  <2>1. constructing => Reported(current_nanos) = Messages
    BY <1>6 DEF CppQuery, Query, Reported, Since, ReportInv
  <2>. QED  BY <1>6, <2>1, QueryReports DEF CppQuery
<1>7. CASE Distribute
  <2>1. ~constructing' /\ py' = "ready"
    BY <1>7, Zenon DEF Distribute
  <2>. QED  BY <2>1
<1>. QED  BY <1>1, <1>2, <1>3, <1>4, <1>5, <1>6, <1>7 DEF PyNext

LEMMA ReportStep == PyInv /\ [PyNext]_<<vars, pyVars>> => ReportInv'
<1>. SUFFICES ASSUME PyInv, [PyNext]_<<vars, pyVars>>, py' = "distribute" PROVE ReportInv'
  BY DEF ReportInv
<1>1. CASE CppQuery
  BY <1>1, QueryReports DEF CppQuery, ReportInv
<1>2. CASE UNCHANGED <<vars, pyVars>>
  BY <1>2 DEF vars, localVars, msgVars, pyVars, PyInv, ReportInv
<1>. QED
  BY <1>1, <1>2 DEF PyNext, Construct, UpdateStrings, InvalidParameter, CppNextCan,
     CppHandleFrame, CppEndCan, Distribute, pyVars, NextCan, HandleFrame, EndCan, PyInv, ReportInv

LEMMA PopulatedStep == PyInv /\ [PyNext]_<<vars, pyVars>> => PopulatedInv'
<1>. SUFFICES ASSUME PyInv, [PyNext]_<<vars, pyVars>> PROVE PopulatedInv'
  OBVIOUS
<1>1. CASE Distribute
  <2>. SUFFICES ASSUME NEW m \in Messages PROVE vl'[m] # Unset /\ ts_nanos'[m] # Unset
    BY DEF PopulatedInv
  <2>1. CASE m \in DOMAIN new_vals
    <3>1. vals[m] # Unset /\ last_seen_nanos[m] # Unset
      BY UnsetAssumption DEF PyInv, TypeOK, SeenInv
    <3>. QED  BY <1>1, <2>1, <3>1 DEF Distribute, PyInv, ReportInv
  <2>2. CASE m \notin DOMAIN new_vals
    <3>1. ~constructing
      BY <1>1, <2>2 DEF Distribute, PyInv, ConstructingInv
    <3>. QED  BY <1>1, <2>2, <3>1 DEF Distribute, PyInv, PopulatedInv
  <2>. QED  BY <2>1, <2>2
<1>2. CASE UNCHANGED <<constructing, vl, ts_nanos>>
  BY <1>2 DEF PyInv, PopulatedInv
<1>. QED
  BY <1>1, <1>2 DEF PyNext, Construct, UpdateStrings, InvalidParameter, CppNextCan,
     CppHandleFrame, CppEndCan, CppQuery, pyVars, dictVars

LEMMA PyStep == PyInv /\ [PyNext]_<<vars, pyVars>> => PyInv'
BY PyStepIsParserStep, TypeNext, SeenStep, ConstructingStep, ReportStep, PopulatedStep DEF PyInv

(***************************************************************************)
(* Once the constructor has returned, every signal has a value: whatever   *)
(* is fed later, a client may index vl and ts_nanos.                       *)
(***************************************************************************)
THEOREM ReadyMeansPopulatedHolds == PySpec => []ReadyMeansPopulated
<1>1. PyInv => ReadyMeansPopulated
  BY DEF PyInv, ConstructingInv, PopulatedInv, ReadyMeansPopulated
<1>. QED  BY <1>1, PyInitInv, PyStep, PTL DEF PySpec
-----------------------------------------------------------------------------
\* While a call is in progress, what the dictionaries do not show yet was
\* stored by this call, so that the query will report it.
Shown(m) == vl[m] = vals[m] /\ ts_nanos[m] = last_seen_nanos[m]

ViewInv ==
    ~constructing =>
        /\ pc = "idle" <=> py \in {"ready", "distribute"}
        /\ py = "ready" => \A m \in Messages : Shown(m)
        /\ py = "updating" => \A m \in Messages :
              Shown(m) \/ (current_nanos # 0 /\ current_nanos <= last_seen_nanos[m])
        /\ py = "distribute" => \A m \in Messages : Shown(m) \/ m \in DOMAIN new_vals

ViewPyInv == PyInv /\ PendingThisCall /\ ViewInv

LEMMA ViewStep ==
    ASSUME MonotoneTime, 0 \notin Nanos, ViewPyInv, [PyNext]_<<vars, pyVars>>
    PROVE  ViewInv'
<1>. USE DEF ViewPyInv
<1>0. [Next]_vars /\ CycleInv
  BY PyStepIsParserStep DEF PyInv, CycleInv
<1>1. CASE Construct
  BY <1>1 DEF Construct, PyInv, ConstructingInv, ViewInv
<1>2. CASE UpdateStrings
  <2>1. /\ py = "ready" /\ py' = "updating" /\ pc' = "cans"
        /\ UNCHANGED <<vals, last_seen_nanos, constructing, vl, ts_nanos>>
    BY <1>2 DEF UpdateStrings, UpdateCall, msgVars
  <2>2. ASSUME ~constructing, NEW m \in Messages PROVE Shown(m)'
    BY <2>1, <2>2 DEF ViewInv, Shown
  <2>. QED  BY <2>1, <2>2 DEF ViewInv
<1>3. CASE InvalidParameter \/ UNCHANGED <<vars, pyVars>>
  BY <1>3 DEF InvalidParameter, vars, msgVars, localVars, pyVars, dictVars, ViewInv, Shown
<1>4. ASSUME NEW t \in Nanos, CppNextCan(t) PROVE ViewInv'
  <2>1. /\ pc = "cans" /\ pc' = "frames" /\ py = "updating" /\ ~constructing
        /\ current_nanos' = (IF current_nanos = 0 THEN t ELSE current_nanos)
        /\ UNCHANGED <<vals, last_seen_nanos, py, constructing, vl, ts_nanos>>
    BY <1>4 DEF CppNextCan, NextCan, msgVars, pyVars, dictVars
  <2>2. ASSUME NEW m \in Messages
        PROVE  (Shown(m) \/ (current_nanos # 0 /\ current_nanos <= last_seen_nanos[m]))'
    <3>1. Shown(m) \/ (current_nanos # 0 /\ current_nanos <= last_seen_nanos[m])
      BY <2>1 DEF ViewInv
    <3>. QED  BY <2>1, <3>1 DEF Shown
  <2>. QED  BY <2>1, <2>2 DEF ViewInv
<1>5. ASSUME NEW f \in Frames, CppHandleFrame(f) PROVE ViewInv'
  <2>1. /\ pc = "frames" /\ pc' = pc /\ current_nanos # 0 /\ current_nanos <= last_nanos
        /\ UNCHANGED <<current_nanos, py, constructing, vl, ts_nanos>>
    BY <1>5 DEF CppHandleFrame, HandleFrame, PendingThisCall, dictVars
  <2>2. ASSUME NEW m \in Messages
        PROVE  UNCHANGED <<vals[m], last_seen_nanos[m]>> \/ last_seen_nanos'[m] = last_nanos
    BY <1>5 DEF CppHandleFrame, HandleFrame, Parse, msgVars, PyInv, TypeOK
  <2>. QED  BY <2>1, <2>2 DEF ViewInv, Shown
<1>6. CASE CppEndCan
  BY <1>6 DEF CppEndCan, EndCan, msgVars, pyVars, dictVars, ViewInv, Shown
<1>7. CASE CppQuery
  <2>1. /\ pc = "cans" /\ py' = "distribute" /\ pc' = "idle"
        /\ DOMAIN new_vals' = Reported(current_nanos)
        /\ UNCHANGED <<vals, last_seen_nanos, constructing, vl, ts_nanos>>
    BY <1>7, QueryReports DEF CppQuery, Query, dictVars
  <2>2. ASSUME ~constructing, NEW m \in Messages, ~Shown(m)
        PROVE  m \in Reported(current_nanos)
    BY <2>1, <2>2 DEF ViewInv, PyInv, ConstructingInv, Reported, Since
  <2>. QED  BY <2>1, <2>2 DEF ViewInv, Shown
<1>8. CASE Distribute
  <2>1. /\ py = "distribute" /\ pc = "idle" /\ pc' = pc /\ py' = "ready"
        /\ UNCHANGED <<vals, last_seen_nanos>>
    BY <1>8 DEF Distribute, vars, msgVars, localVars, PyInv, ReportInv
  <2>2. ASSUME NEW m \in Messages PROVE vl'[m] = vals[m] /\ ts_nanos'[m] = last_seen_nanos[m]
    <3>1. CASE m \in DOMAIN new_vals
      BY <1>8, <2>1, <3>1 DEF Distribute, PyInv, ReportInv
    <3>2. CASE m \notin DOMAIN new_vals
      BY <1>8, <2>1, <3>2 DEF Distribute, PyInv, ConstructingInv, ViewInv, Shown
    <3>. QED  BY <3>1, <3>2
  <2>. QED  BY <2>1, <2>2 DEF ViewInv, Shown
<1>. QED  BY <1>1, <1>2, <1>3, <1>4, <1>5, <1>6, <1>7, <1>8 DEF PyNext

(***************************************************************************)
(* Between calls the dictionaries show what the parser holds, when CanData *)
(* arrives in the order of positive timestamps.                            *)
(***************************************************************************)
THEOREM ViewIsCurrentHolds ==
    ASSUME MonotoneTime, 0 \notin Nanos
    PROVE  PySpec => []ViewIsCurrent
<1>1. PyInit => ViewPyInv
  <2>. SUFFICES ASSUME PyInit PROVE ViewPyInv
    OBVIOUS
  <2>1. constructing /\ Init
    BY Zenon DEF PyInit
  <2>. QED  BY <2>1, PyInitInv, CycleInit DEF ViewPyInv, ViewInv
<1>2. ViewPyInv /\ [PyNext]_<<vars, pyVars>> => ViewPyInv'
  BY PyStep, ViewStep, PyStepIsParserStep, CycleNext DEF ViewPyInv, PyInv, CycleInv
<1>3. ViewPyInv => ViewIsCurrent
  BY DEF ViewPyInv, PyInv, ConstructingInv, ViewInv, Shown, ViewIsCurrent
<1>. QED  BY <1>1, <1>2, <1>3, PTL DEF PySpec
-----------------------------------------------------------------------------
(***************************************************************************)
(* The refinement of SignalFeed.                                           *)
(***************************************************************************)
\* s holds the values of m that were accepted and have not been delivered.
Undelivered(s, m) ==
    /\ s \in Seq(Values)
    /\ Len(s) = Len(accepted[m]) - delivered[m]
    /\ \A i \in 1 .. Len(s) : s[i] = accepted[m][delivered[m] + i][1]

ReportOf(m) == IF m \in DOMAIN new_vals THEN new_vals[m].all_values ELSE << >>

HistoryOK ==
    /\ accepted \in [Messages -> Seq(Values \X Nanos)]
    /\ delivered \in [Messages -> Nat]
    /\ \A m \in Messages : delivered[m] <= Len(accepted[m])

NewestHeld ==
    \A m \in Messages : Feed!LatestOf(accepted[m]) = <<vals[m], last_seen_nanos[m]>>

\* They wait in the parser until the query, and in its report until the loop.
WaitingHeld ==
    \A m \in Messages :
        Undelivered(IF py = "distribute" THEN ReportOf(m) ELSE all_vals[m], m)

FeedInv == PyInv /\ PendingThisCall /\ HistoryOK /\ NewestHeld /\ WaitingHeld

LEMMA FeedInitInv == PyInit => FeedInv
<1>. SUFFICES ASSUME PyInit PROVE FeedInv
  OBVIOUS
<1>1. PyInv /\ PendingThisCall
  BY PyInitInv, CycleInit DEF PyInit
<1>2. /\ accepted = [m \in Messages |-> << >>] /\ delivered = [m \in Messages |-> 0]
      /\ py = "init" /\ Init
  BY Zenon DEF PyInit
<1>3. HistoryOK
  BY <1>2 DEF HistoryOK
<1>4. NewestHeld
  BY <1>2 DEF NewestHeld, Feed!LatestOf, Init
<1>5. WaitingHeld
  BY <1>2 DEF WaitingHeld, Undelivered, Init
<1>. QED  BY <1>1, <1>3, <1>4, <1>5 DEF FeedInv

\* What is undelivered is what the feed calls unread.
LEMMA UndeliveredIsUnread ==
    ASSUME HistoryOK, NEW m \in Messages, NEW s, Undelivered(s, m)
    PROVE  /\ s = [i \in 1 .. Len(Feed!Unread(m)) |-> Feed!Unread(m)[i][1]]
           /\ delivered[m] + Len(s) = Len(accepted[m])
           /\ s = << >> => Feed!Unread(m) = << >>
<1>. DEFINE a == accepted[m]
            d == delivered[m]
            u == SubSeq(a, d + 1, Len(a))
<1>1. a \in Seq(Values \X Nanos) /\ d \in Nat /\ Len(a) \in Nat /\ d <= Len(a)
  BY DEF HistoryOK
<1>2. u = Feed!Unread(m)
  BY DEF Feed!Unread
<1>3. s \in Seq(Values) /\ Len(s) = Len(a) - d /\ \A i \in 1 .. Len(s) : s[i] = a[d + i][1]
  BY DEF Undelivered
<1>. HIDE DEF a, d
<1>4. u \in Seq(Values \X Nanos) /\ Len(u) = Len(a) - d
  BY <1>1
<1>5. \A i \in 1 .. Len(u) : u[i] = a[d + i]
  BY <1>1, <1>4
<1>. HIDE DEF u
<1>6. Len(s) = Len(u) /\ DOMAIN s = 1 .. Len(u)
  BY <1>3, <1>4
<1>7. s = [i \in 1 .. Len(u) |-> u[i][1]]
  BY <1>3, <1>5, <1>6
<1>8. s = << >> => u = << >>
  BY <1>3, <1>4
<1>9. d + Len(s) = Len(a)
  BY <1>1, <1>3
<1>. QED  BY <1>2, <1>7, <1>8, <1>9 DEF a, d

LEMMA FeedHandleFrame ==
    ASSUME FeedInv, NEW f \in Frames, CppHandleFrame(f)
    PROVE  /\ HistoryOK' /\ NewestHeld' /\ WaitingHeld'
           /\ [Feed!Next]_Feed!vars
<1>. USE DEF FeedInv
<1>1. /\ pc = "frames" /\ py # "distribute"
      /\ UNCHANGED <<py, constructing, vl, vl_all, ts_nanos, updated_addrs, delivered>>
  BY DEF CppHandleFrame, HandleFrame, PyInv, ReportInv, dictVars
<1>2. CASE Tracked(f) /\ Accepts(f)
  <2>. DEFINE m == f.address
              e == <<f.value, last_nanos>>
  <2>1. m \in Messages /\ f.value \in Values
    BY <1>2, FrameType
  <2>2. last_nanos \in Nanos
    BY <1>1 DEF PyInv, ClockInv, PendingThisCall, TypeOK, Times
  <2>3. /\ vals' = [vals EXCEPT ![m] = f.value]
        /\ all_vals' = [all_vals EXCEPT ![m] = Append(@, f.value)]
        /\ last_seen_nanos' = [last_seen_nanos EXCEPT ![m] = last_nanos]
        /\ accepted' = [accepted EXCEPT ![m] = Append(@, e)]
    BY <1>2 DEF CppHandleFrame, HandleFrame, Parse, Record
  <2>4. accepted[m] \in Seq(Values \X Nanos) /\ e \in Values \X Nanos /\ e[1] = f.value
    BY <2>1, <2>2 DEF HistoryOK
  <2>. HIDE DEF m, e
  <2>5. /\ Append(accepted[m], e) \in Seq(Values \X Nanos)
        /\ Len(Append(accepted[m], e)) = Len(accepted[m]) + 1
        /\ Append(accepted[m], e)[Len(accepted[m]) + 1] = e
        /\ \A i \in 1 .. Len(accepted[m]) : Append(accepted[m], e)[i] = accepted[m][i]
    BY <2>4
  <2>6. accepted'[m] = Append(accepted[m], e) /\ Len(accepted[m]) \in Nat
    BY <2>1, <2>3, <2>4 DEF HistoryOK
  <2>7. HistoryOK'
    BY <1>1, <2>1, <2>3, <2>5, <2>6 DEF HistoryOK
  <2>8. NewestHeld'
    <3>. SUFFICES ASSUME NEW k \in Messages
                  PROVE  Feed!LatestOf(accepted'[k]) = <<vals'[k], last_seen_nanos'[k]>>
      BY DEF NewestHeld, Feed!LatestOf
    <3>1. CASE k = m
      <4>1. vals'[m] = f.value /\ last_seen_nanos'[m] = last_nanos
        BY <2>1, <2>3 DEF PyInv, TypeOK
      <4>2. accepted'[m] # << >> /\ accepted'[m][Len(accepted'[m])] = e
        <5>1. Len(accepted'[m]) = Len(accepted[m]) + 1 /\ accepted'[m][Len(accepted[m]) + 1] = e
          BY <2>5, <2>6
        <5>2. Len(accepted'[m]) # 0
          BY <2>6, <5>1
        <5>. QED  BY <5>1, <5>2
      <4>. QED  BY <3>1, <4>1, <4>2 DEF Feed!LatestOf, e
    <3>2. CASE k # m
      BY <2>1, <2>3, <3>2 DEF NewestHeld, Feed!LatestOf, HistoryOK, PyInv, TypeOK
    <3>. QED  BY <3>1, <3>2
  <2>9. WaitingHeld'
    <3>. SUFFICES ASSUME NEW k \in Messages PROVE Undelivered(all_vals[k], k)'
      BY <1>1 DEF WaitingHeld, Undelivered
    <3>0. Undelivered(all_vals[k], k)
      BY <1>1 DEF WaitingHeld
    <3>1. CASE k = m
      <4>. DEFINE s == all_vals[m]
                  n == Len(accepted[m])
                  d == delivered[m]
      <4>1. s \in Seq(Values) /\ Len(s) = n - d /\ n \in Nat /\ d \in Nat /\ d <= n
        BY <2>1, <2>6, <3>0, <3>1 DEF Undelivered, HistoryOK
      <4>2. \A i \in 1 .. Len(s) : s[i] = accepted[m][d + i][1]
        BY <3>0, <3>1 DEF Undelivered
      <4>3. all_vals'[m] = Append(s, f.value)
        BY <2>1, <2>3 DEF PyInv, TypeOK
      <4>4. /\ accepted'[m][n + 1][1] = f.value /\ Len(accepted'[m]) = n + 1
            /\ \A i \in 1 .. n : accepted'[m][i] = accepted[m][i]
        BY <2>4, <2>5, <2>6
      <4>5. delivered'[m] = d
        BY <1>1
      <4>. HIDE DEF s, n, d
      <4>6. Append(s, f.value) \in Seq(Values) /\ Len(Append(s, f.value)) = (n - d) + 1
        BY <2>1, <4>1
      <4>7. ASSUME NEW i \in 1 .. (n - d) + 1
            PROVE  Append(s, f.value)[i] = accepted'[m][d + i][1]
        <5>1. CASE i \in 1 .. Len(s)
          <6>1. d + i \in 1 .. n
            BY <4>1, <5>1
          <6>2. Append(s, f.value)[i] = s[i]
            BY <2>1, <4>1, <5>1
          <6>. QED  BY <4>2, <4>4, <5>1, <6>1, <6>2
        <5>2. CASE i = Len(s) + 1
          <6>1. d + i = n + 1
            BY <4>1, <5>2
          <6>2. Append(s, f.value)[i] = f.value
            BY <2>1, <4>1, <5>2
          <6>. QED  BY <4>4, <6>1, <6>2
        <5>. QED  BY <4>1, <5>1, <5>2
      <4>8. Len(all_vals'[m]) = Len(accepted'[m]) - delivered'[m]
        BY <4>1, <4>3, <4>4, <4>5, <4>6
      <4>9. \A i \in 1 .. Len(all_vals'[m]) :
               all_vals'[m][i] = accepted'[m][delivered'[m] + i][1]
        BY <4>3, <4>5, <4>6, <4>7
      <4>10. all_vals'[m] \in Seq(Values)
        BY <4>3, <4>6
      <4>. QED  BY <3>1, <4>8, <4>9, <4>10 DEF Undelivered
    <3>2. CASE k # m
      <4>1. all_vals'[k] = all_vals[k] /\ accepted'[k] = accepted[k]
        BY <2>1, <2>3, <3>2 DEF HistoryOK, PyInv, TypeOK
      <4>. QED  BY <1>1, <3>0, <4>1 DEF Undelivered
    <3>. QED  BY <3>1, <3>2
  <2>10. Feed!Accept(m, f.value, last_nanos)
    BY <1>1, <2>3 DEF Feed!Accept, e
  <2>. QED  BY <2>1, <2>2, <2>7, <2>8, <2>9, <2>10 DEF Feed!Next
<1>3. CASE ~(Tracked(f) /\ Accepts(f))
  <2>1. UNCHANGED <<vals, all_vals, last_seen_nanos, accepted>>
    BY <1>3 DEF CppHandleFrame, HandleFrame, Parse, Record, msgVars
  <2>. QED
    BY <1>1, <2>1 DEF HistoryOK, NewestHeld, Feed!LatestOf, WaitingHeld, Undelivered, Feed!vars
<1>. QED  BY <1>2, <1>3

\* The query moves what waits from the parser to its report.
LEMMA FeedQuery ==
    ASSUME FeedInv, CppQuery
    PROVE  /\ HistoryOK' /\ NewestHeld' /\ WaitingHeld'
           /\ UNCHANGED Feed!vars
<1>. USE DEF FeedInv
<1>1. /\ Query /\ py # "distribute" /\ py' = "distribute"
      /\ UNCHANGED <<vals, last_seen_nanos, vl, vl_all, ts_nanos, updated_addrs,
                     accepted, delivered>>
  BY DEF CppQuery, Query, PyInv, ReportInv, dictVars, histVars
<1>2. HistoryOK' /\ NewestHeld' /\ UNCHANGED Feed!vars
  BY <1>1 DEF HistoryOK, NewestHeld, Feed!LatestOf, Feed!vars
<1>3. ASSUME NEW m \in Messages PROVE ReportOf(m)' = all_vals[m]
  <2>1. /\ DOMAIN new_vals' = Reported(current_nanos)
        /\ m \in Reported(current_nanos) => new_vals'[m].all_values = all_vals[m]
    BY <1>1 DEF Query, QueryLatest
  <2>2. m \notin Reported(current_nanos) => all_vals[m] = << >>
    BY <1>1, QueryEmpties DEF PyInv, CycleInv, Query, QueryLatest
  <2>. QED  BY <2>1, <2>2 DEF ReportOf
<1>4. WaitingHeld'
  BY <1>1, <1>3 DEF WaitingHeld, Undelivered
<1>. QED  BY <1>2, <1>4

\* The loop over new_vals hands all of it over.
LEMMA FeedDistribute ==
    ASSUME FeedInv, Distribute, NEW S, S = DOMAIN new_vals
    PROVE  /\ HistoryOK' /\ NewestHeld' /\ WaitingHeld'
           /\ Feed!HandOver(S)
<1>. USE DEF FeedInv
<1>1. /\ py = "distribute" /\ py' = "ready" /\ pc = "idle" /\ S \subseteq Messages
      /\ UNCHANGED <<vals, all_vals, last_seen_nanos, accepted>>
  BY DEF Distribute, vars, msgVars, PyInv, ReportInv
<1>2. ASSUME NEW m \in Messages
      PROVE  /\ m \in S => new_vals[m].all_values
                             = [i \in 1 .. Len(Feed!Unread(m)) |-> Feed!Unread(m)[i][1]]
             /\ m \notin S => Feed!Unread(m) = << >>
             /\ delivered'[m] = Len(accepted[m])
  <2>1. Undelivered(ReportOf(m), m)
    BY <1>1 DEF WaitingHeld
  <2>2. /\ ReportOf(m) = [i \in 1 .. Len(Feed!Unread(m)) |-> Feed!Unread(m)[i][1]]
        /\ delivered[m] + Len(ReportOf(m)) = Len(accepted[m])
        /\ ReportOf(m) = << >> => Feed!Unread(m) = << >>
    BY <2>1, UndeliveredIsUnread
  <2>3. CASE m \in S
    BY <2>2, <2>3 DEF Distribute, ReportOf
  <2>4. CASE m \notin S
    <3>1. ReportOf(m) = << >>
      BY <2>4 DEF ReportOf
    <3>2. delivered[m] = Len(accepted[m])
      BY <2>2, <3>1 DEF HistoryOK
    <3>. QED  BY <2>2, <2>4, <3>1, <3>2 DEF Distribute
  <2>. QED  BY <2>3, <2>4
<1>3. delivered' = [m \in Messages |-> Len(accepted[m])]
  BY <1>2 DEF Distribute
<1>4. ASSUME NEW m \in S
      PROVE  /\ vl'[m] # Unset
             /\ <<vl'[m], ts_nanos'[m]>> = Feed!LatestOf(accepted[m])
  <2>1. m \in Messages /\ vl'[m] = vals[m] /\ ts_nanos'[m] = last_seen_nanos[m]
    BY <1>1 DEF Distribute, PyInv, ReportInv
  <2>2. vals[m] # Unset
    BY <2>1, UnsetAssumption DEF PyInv, TypeOK
  <2>. QED  BY <2>1, <2>2 DEF NewestHeld
<1>5. HistoryOK'
  <2>1. \A m \in Messages : Len(accepted[m]) \in Nat
    BY DEF HistoryOK
  <2>. QED  BY <1>1, <1>3, <2>1 DEF HistoryOK
<1>6. NewestHeld'
  BY <1>1 DEF NewestHeld, Feed!LatestOf
<1>7. WaitingHeld'
  <2>. SUFFICES ASSUME NEW m \in Messages PROVE Undelivered(all_vals[m], m)'
    BY <1>1 DEF WaitingHeld, Undelivered
  <2>1. all_vals'[m] = << >>
    BY <1>1 DEF PendingThisCall
  <2>2. Len(accepted'[m]) - delivered'[m] = 0
    <3>1. Len(accepted[m]) \in Nat
      BY DEF HistoryOK
    <3>2. accepted'[m] = accepted[m] /\ delivered'[m] = Len(accepted[m])
      BY <1>1, <1>2
    <3>. QED  BY <3>1, <3>2
  <2>. QED  BY <2>1, <2>2 DEF Undelivered
<1>8. Feed!HandOver(S)
  <2>1. {m \in Messages : Feed!Unread(m) # << >>} \subseteq S
    BY <1>2
  <2>2. vl_all' = [m \in Messages |->
                     IF m \in S
                     THEN [i \in 1 .. Len(Feed!Unread(m)) |-> Feed!Unread(m)[i][1]]
                     ELSE vl_all[m]]
    BY <1>2 DEF Distribute
  <2>3. [m \in Messages |-> IF vl'[m] = Unset THEN Unset ELSE <<vl'[m], ts_nanos'[m]>>]
          = [m \in Messages |->
               IF m \in S THEN Feed!LatestOf(accepted[m])
               ELSE [k \in Messages |->
                       IF vl[k] = Unset THEN Unset ELSE <<vl[k], ts_nanos[k]>>][m]]
    <3>1. ASSUME NEW m \in Messages, m \notin S
          PROVE  vl'[m] = vl[m] /\ ts_nanos'[m] = ts_nanos[m]
      BY <3>1 DEF Distribute
    <3>. QED  BY <1>4, <3>1
  <2>. QED  BY <1>1, <1>3, <2>1, <2>2, <2>3 DEF Feed!HandOver, Distribute
<1>. QED  BY <1>5, <1>6, <1>7, <1>8

LEMMA FeedStep ==
    ASSUME MonotoneTime, 0 \notin Nanos, FeedInv, [PyNext]_<<vars, pyVars>>
    PROVE  FeedInv' /\ [Feed!Next]_Feed!vars
<1>. DEFINE Held == HistoryOK' /\ NewestHeld' /\ WaitingHeld'
            Kept == UNCHANGED <<vals, all_vals, last_seen_nanos, accepted, delivered,
                                vl, ts_nanos, updated_addrs>>
<1>1. PyInv' /\ PendingThisCall'
  BY PyStep, PyStepIsParserStep, CycleNext DEF FeedInv, PyInv, CycleInv
<1>2. ASSUME Kept, py # "distribute", py' # "distribute"
      PROVE  Held
  BY <1>2 DEF FeedInv, HistoryOK, NewestHeld, Feed!LatestOf, WaitingHeld, Undelivered
<1>3. CASE Construct \/ UpdateStrings \/ InvalidParameter
  <2>1. Kept /\ py # "distribute" /\ py' # "distribute" /\ ClearVlAll
    BY <1>3 DEF Construct, UpdateStrings, InvalidParameter, UpdateCall, vars, msgVars, histVars
  <2>2. Feed!Clear
    BY <2>1 DEF Feed!Clear, ClearVlAll
  <2>. QED  BY <1>1, <1>2, <2>1, <2>2 DEF Feed!Next, FeedInv
<1>4. CASE (\E t \in Nanos : CppNextCan(t)) \/ CppEndCan
  <2>1. Kept /\ UNCHANGED <<vl_all, py>> /\ py # "distribute"
    BY <1>4 DEF CppNextCan, NextCan, CppEndCan, EndCan, msgVars, pyVars, dictVars, histVars,
                FeedInv, PyInv, ReportInv
  <2>2. UNCHANGED Feed!vars
    BY <2>1 DEF Feed!vars
  <2>. QED  BY <1>1, <1>2, <2>1, <2>2 DEF FeedInv
<1>5. CASE \E f \in Frames : CppHandleFrame(f)
  BY <1>1, <1>5, FeedHandleFrame DEF FeedInv
<1>6. CASE CppQuery
  BY <1>1, <1>6, FeedQuery DEF FeedInv
<1>7. CASE Distribute
  <2>1. DOMAIN new_vals \in SUBSET Messages
    BY <1>7 DEF Distribute, FeedInv, PyInv, ReportInv
  <2>2. PICK S \in SUBSET Messages : S = DOMAIN new_vals
    BY <2>1
  <2>3. Held /\ Feed!HandOver(S)
    BY <1>7, <2>2, FeedDistribute
  <2>4. Feed!Next
    BY <2>3 DEF Feed!Next
  <2>. QED  BY <1>1, <2>3, <2>4 DEF FeedInv
<1>8. CASE UNCHANGED <<vars, pyVars>>
  <2>1. Kept /\ UNCHANGED <<py, new_vals, vl_all>>
    BY <1>8 DEF vars, msgVars, pyVars, dictVars, histVars
  <2>2. Held /\ UNCHANGED Feed!vars
    BY <2>1 DEF FeedInv, HistoryOK, NewestHeld, Feed!LatestOf, WaitingHeld, ReportOf,
                Undelivered, Feed!vars
  <2>. QED  BY <1>1, <2>2 DEF FeedInv
<1>. QED  BY <1>3, <1>4, <1>5, <1>6, <1>7, <1>8 DEF PyNext

(***************************************************************************)
(* The Python class implements the feed when CanData arrives in the order  *)
(* of positive timestamps: whatever is rejected, skipped or malformed,     *)
(* each accepted value is handed over once, in order and by the next       *)
(* update, and vl and ts_nanos show the newest one.                        *)
(***************************************************************************)
THEOREM ImplementsFeedHolds ==
    ASSUME MonotoneTime, 0 \notin Nanos
    PROVE  PySpec => ImplementsFeed
<1>1. PyInit => FeedInv
  BY FeedInitInv
<1>2. PyInit => Feed!Init
  <2>. SUFFICES ASSUME PyInit PROVE Feed!Init
    OBVIOUS
  <2>1. /\ vl = [m \in Messages |-> Unset] /\ vl_all = [m \in Messages |-> << >>]
        /\ updated_addrs = {}
        /\ accepted = [m \in Messages |-> << >>] /\ delivered = [m \in Messages |-> 0]
    BY Zenon DEF PyInit
  <2>. QED  BY <2>1 DEF Feed!Init
<1>3. FeedInv /\ [PyNext]_<<vars, pyVars>> => FeedInv' /\ [Feed!Next]_Feed!vars
  BY FeedStep
<1>. QED  BY <1>1, <1>2, <1>3, PTL DEF PySpec, ImplementsFeed, Feed!Spec
=============================================================================
