----------------------------- MODULE CANPacker -------------------------------
(***************************************************************************)
(* The CAN packer of opendbc/can/packer.cc behind make_can_msg of          *)
(* packer_pyx.pyx: it keeps one counter per message, which pack() puts in  *)
(* the COUNTER signal unless the caller gives one, and it fills in the     *)
(* CHECKSUM.  Packed frames are the records CANParser consumes.            *)
(***************************************************************************)
EXTENDS Integers

CONSTANTS
    Messages,       \* addresses defined in the DBC
    OtherAddress,   \* what an unknown name or address packs to
    CounterMod,     \* 1 << size of the COUNTER signal, 0 if it has none
    Values,
    Overrides,      \* COUNTER values a caller may ask for
    Buses,
    NoOverride, NoEntry, NoFrame

VARIABLES counters,   \* std::map from address to the next COUNTER
          packed      \* what the last pack() returned

packerVars == <<counters, packed>>

PackerInit ==
    /\ counters = [m \in Messages |-> NoEntry]
    /\ packed = NoFrame

NextCounter(m) == IF counters[m] = NoEntry THEN 0 ELSE counters[m]

\* The caller's COUNTER counts only if the message has such a signal.
CounterSet(m, override) == override # NoOverride /\ CounterMod[m] # 0

\* set_value keeps the low bits of the number it is given.
CounterBits(m, override) ==
    IF CounterMod[m] = 0 THEN 0
    ELSE (IF CounterSet(m, override) THEN override ELSE NextCounter(m)) % CounterMod[m]

\* An explicit COUNTER is what the next automatic one repeats.
CounterAfter(m, override) ==
    IF CounterMod[m] = 0 THEN counters[m]
    ELSE IF CounterSet(m, override) THEN override
    ELSE (NextCounter(m) + 1) % CounterMod[m]

Pack(m, bus, v, override) ==
    /\ packed' = [src |-> bus, address |-> m, fits |-> TRUE, checksum_ok |-> TRUE,
                  counter |-> CounterBits(m, override), value |-> v]
    /\ counters' = [counters EXCEPT ![m] = CounterAfter(m, override)]

\* pack() of an undefined address returns no bytes.
PackUndefined ==
    /\ packed' = NoFrame
    /\ UNCHANGED counters

MakeCanMsg(a, bus, v, override) ==
    IF a \in Messages THEN Pack(a, bus, v, override) ELSE PackUndefined

PackerNext ==
    \E a \in Messages \cup {OtherAddress}, bus \in Buses, v \in Values,
       override \in Overrides \cup {NoOverride} :
          MakeCanMsg(a, bus, v, override)

PackerSpec == PackerInit /\ [][PackerNext]_packerVars
=============================================================================
