--------------------------- MODULE CounterChannel ----------------------------
(***************************************************************************)
(* A CANPacker sends one message to a CANParser over a wire that may lose, *)
(* repeat or corrupt the frame it carries.  The composition shows what the *)
(* COUNTER machinery of both sides amounts to: how many faults the parser  *)
(* absorbs, and that it recovers once they stop.                           *)
(*                                                                         *)
(* The wire is external code.  It holds one frame: the counters a parser   *)
(* can receive from a longer queue are those it can receive from this one, *)
(* because loss and delivery interleave freely with sending.               *)
(***************************************************************************)
EXTENDS CANParser

CONSTANTS Message,      \* the message they exchange
          Overrides, NoOverride, NoEntry, NoFrame,
          MaxFaults     \* bound on the faults of a behaviour

ASSUME ChannelAssumption ==
    /\ Messages = {Message}
    /\ MaxFaults \in Nat
    /\ Overrides \subseteq Nat
    /\ NoOverride \notin Nat /\ NoEntry \notin Nat
    /\ NoFrame \notin TrackedFrames(Message)

VARIABLES counters, wire,
          faults   \* how often each kind of fault has happened

chanVars == <<counters, wire, faults>>

Packer == INSTANCE CANPacker WITH packed <- wire, Buses <- {Bus}

FaultKinds == {"lost", "repeated", "corrupted", "overridden"}

TotalFaults == faults["lost"] + faults["repeated"] + faults["corrupted"] + faults["overridden"]

Fault(kind) ==
    /\ TotalFaults < MaxFaults
    /\ faults' = [faults EXCEPT ![kind] = @ + 1]

ChanInit ==
    /\ Init
    /\ Packer!PackerInit
    /\ faults = [kind \in FaultKinds |-> 0]
-----------------------------------------------------------------------------
\* The packer's user sends with the automatic COUNTER, or sets one.
Send(v) ==
    /\ wire = NoFrame
    /\ Packer!MakeCanMsg(Message, Bus, v, NoOverride)
    /\ UNCHANGED <<vars, faults>>

SendOverride(v, n) ==
    /\ wire = NoFrame
    /\ Packer!MakeCanMsg(Message, Bus, v, n)
    /\ Fault("overridden")
    /\ UNCHANGED vars

Lose ==
    /\ wire # NoFrame
    /\ wire' = NoFrame
    /\ Fault("lost")
    /\ UNCHANGED <<vars, counters>>

\* Bit errors: any COUNTER may arrive, and the CHECKSUM, if there is one, no
\* longer matches.
Corrupt ==
    /\ wire # NoFrame
    /\ Fault("corrupted")
    /\ \E n \in CounterField(Message) :
          wire' = [wire EXCEPT !.counter = n, !.checksum_ok = Message \notin HasChecksum]
    /\ UNCHANGED <<vars, counters>>

Receive ==
    /\ wire # NoFrame
    /\ HandleFrame(wire)
    /\ wire' = NoFrame
    /\ UNCHANGED <<counters, faults>>

\* The same frame is received once more later.
ReceiveRepeated ==
    /\ wire # NoFrame
    /\ HandleFrame(wire)
    /\ Fault("repeated")
    /\ UNCHANGED <<counters, wire>>

ParserStep ==
    /\ UpdateCall \/ (\E t \in Nanos : NextCan(t)) \/ EndCan \/ Query
    /\ UNCHANGED chanVars

ChanNext ==
    \/ \E v \in Values : Send(v)
    \/ \E v \in Values, n \in Overrides : SendOverride(v, n)
    \/ Lose
    \/ Corrupt
    \/ Receive
    \/ ReceiveRepeated
    \/ ParserStep

ChanSpec == ChanInit /\ [][ChanNext]_<<vars, chanVars>>

\* The sender keeps sending, the receiver keeps calling update() with
\* CanData that carry what the wire delivers.  Nothing obliges a fault.
ChanFairSpec ==
    /\ ChanSpec
    /\ WF_<<vars, chanVars>>(\E v \in Values : Send(v))
    /\ SF_<<vars, chanVars>>(Receive)
    /\ WF_<<vars, chanVars>>(UpdateCall /\ UNCHANGED chanVars)
    /\ SF_<<vars, chanVars>>((\E t \in Nanos : NextCan(t)) /\ UNCHANGED chanVars)
    /\ WF_<<vars, chanVars>>(EndCan /\ UNCHANGED chanVars)
    /\ SF_<<vars, chanVars>>(Query /\ UNCHANGED chanVars)
-----------------------------------------------------------------------------
\* How many counter breaks the faults can account for: a corrupted or explicit
\* COUNTER differs from the frame before it and from the frame after it.
FaultBudget ==
    faults["lost"] + faults["repeated"] + 2 * faults["corrupted"] + 2 * faults["overridden"]

(***************************************************************************)
(* The leaky bucket counter_fail never overstates the faults: one for the  *)
(* first frame (a fresh parser expects COUNTER 1, a fresh packer sends 0), *)
(* one per loss or repetition, two per corruption or explicit COUNTER.  So *)
(* a link with fewer than MAX_BAD_COUNTER - 1 breaks never goes invalid.   *)
(***************************************************************************)
FaultsAbsorbed ==
    counter_fail[Message] <= 1 + FaultBudget

(***************************************************************************)
(* However many faults there were, once they stop the bucket drains, every *)
(* further frame is accepted and can_valid stays TRUE.                     *)
(***************************************************************************)
Recovers ==
    /\ <>[](counter_fail[Message] = 0)
    /\ <>[]can_valid

(***************************************************************************)
(* The receiver is never locked out for good: update() keeps reporting     *)
(* newly accepted values, through any faults.                              *)
(***************************************************************************)
KeepsDelivering ==
    []<>(pc = "idle" /\ Message \in DOMAIN new_vals /\ new_vals[Message].all_values # << >>)
-----------------------------------------------------------------------------
\* What makes FaultsAbsorbed inductive: the breaks still to come, between the
\* last COUNTER received, the one on the wire and the next one to be sent, are
\* accounted for as well.
Break(x, y) == IF (x + 1) % CounterMod[Message] # y THEN 1 ELSE 0

NextSent == Packer!NextCounter(Message) % CounterMod[Message]

BreaksToCome ==
    IF wire = NoFrame THEN Break(counter[Message], NextSent)
    ELSE Break(counter[Message], wire.counter) + Break(wire.counter, NextSent)

ChanTypeOK ==
    /\ counters \in [Messages -> Nat \cup {NoEntry}]
    /\ wire \in TrackedFrames(Message) \cup {NoFrame}
    /\ faults \in [FaultKinds -> Nat]

BreaksAccounted ==
    counter_fail[Message] + BreaksToCome <= 1 + FaultBudget
=============================================================================
