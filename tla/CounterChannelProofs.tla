------------------------ MODULE CounterChannelProofs -------------------------
(***************************************************************************)
(* FaultsAbsorbed for every counter width the parser can represent, every  *)
(* set of explicit COUNTER values and any number of faults.                *)
(***************************************************************************)
EXTENDS CounterChannel, CANParserProofs

M == CounterMod[Message]

CounterFits == M \in Nat \ {0} /\ M <= UINT8

ChanInv == TypeOK /\ ChanTypeOK /\ counter[Message] < M /\ BreaksAccounted
-----------------------------------------------------------------------------
\* Reducing a number that is already in range changes nothing: uint8_t is wide
\* enough for the COUNTER.
LEMMA ModSmall ==
    ASSUME NEW n \in Nat \ {0}, NEW x \in 0 .. n - 1
    PROVE  x % n = x
OBVIOUS

LEMMA MessageFacts == Message \in Messages /\ M \in Nat
BY ChannelAssumption, ConfigAssumption DEF M

LEMMA BreakType ==
    ASSUME NEW x, NEW y
    PROVE  Break(x, y) \in {0, 1}
BY DEF Break

\* A remainder is determined by its division.
LEMMA ModUnique ==
    ASSUME NEW n \in Nat \ {0}, NEW q \in Nat, NEW r \in 0 .. n - 1
    PROVE  (n * q + r) % n = r
<1>. DEFINE a == n * q + r
            p == a \div n
            s == a % n
<1>1. a \in Nat /\ n * q \in Nat
  OBVIOUS
<1>2. a = n * p + s /\ p \in Int /\ s \in 0 .. n - 1
  <2>. HIDE DEF a
  <2>. QED  BY <1>1
<1>3. n * (p - q) = r - s
  <2>. HIDE DEF p, s
  <2>. QED  BY <1>2
<1>4. p = q
  <2>. HIDE DEF p, s
  <2>1. CASE p - q >= 1
    <3>1. n * (p - q) >= n
      BY <2>1, <1>2
    <3>. QED  BY <3>1, <1>2, <1>3
  <2>2. CASE p - q <= -1
    <3>1. n * (p - q) <= -n
      BY <2>2, <1>2
    <3>. QED  BY <3>1, <1>2, <1>3
  <2>. QED  BY <2>1, <2>2, <1>2
<1>. QED
  <2>1. n * (p - q) = 0
    <3>. HIDE DEF p
    <3>. QED  BY <1>4, <1>2
  <2>. HIDE DEF p, s
  <2>2. s = r
    BY <2>1, <1>2, <1>3
  <2>. QED  BY <2>2 DEF s

\* Counting commutes with reduction.
LEMMA ModSuccessor ==
    ASSUME NEW n \in Nat \ {0}, NEW x \in Nat
    PROVE  ((x % n) + 1) % n = (x + 1) % n
<1>. DEFINE q == x \div n
            r == x % n
<1>1. x = n * q + r /\ q \in Nat /\ r \in 0 .. n - 1
  OBVIOUS
<1>. HIDE DEF q, r
<1>2. CASE r + 1 < n
  <2>1. x + 1 = n * q + (r + 1) /\ r + 1 \in 0 .. n - 1
    BY <1>1, <1>2
  <2>2. (x + 1) % n = r + 1
    BY <1>1, <2>1, ModUnique
  <2>3. (r + 1) % n = r + 1
    BY <2>1, ModSmall
  <2>. QED  BY <2>2, <2>3 DEF r
<1>3. CASE r + 1 = n
  <2>1. x + 1 = n * (q + 1) + 0 /\ n = n * 1 + 0
    BY <1>1, <1>3
  <2>2. (x + 1) % n = 0
    BY <1>1, <2>1, ModUnique
  <2>3. n % n = 0
    BY <2>1, ModUnique
  <2>. QED  BY <2>2, <2>3, <1>3 DEF r
<1>. QED  BY <1>1, <1>2, <1>3

\* One automatic COUNTER after another is no break.
LEMMA NoBreak ==
    ASSUME CounterFits, NEW x \in Nat
    PROVE  Break(x % M, ((x + 1) % M) % M) = 0
<1>. M \in Nat \ {0}
  BY DEF CounterFits
<1>1. ((x + 1) % M) % M = (x + 1) % M
  <2>. HIDE DEF M
  <2>1. (x + 1) % M \in 0 .. M - 1
    BY ModRange
  <2>. QED  BY <2>1, ModSmall
<1>2. ((x % M) + 1) % M = (x + 1) % M
  BY ModSuccessor
<1>. QED  BY <1>1, <1>2 DEF Break, M
-----------------------------------------------------------------------------
\* The frame on the wire is one the parser tracks and update() can be handed.
LEMMA WireFrame ==
    ASSUME CounterFits, ChanTypeOK, wire # NoFrame
    PROVE  /\ wire \in Frames /\ Tracked(wire) /\ wire.address = Message
           /\ wire.counter \in 0 .. M - 1
<1>1. wire \in TrackedFrames(Message)
  BY DEF ChanTypeOK
<1>2. wire \in Frames
  BY <1>1, MessageFacts DEF Frames
<1>3. CounterField(Message) = 0 .. M - 1
  BY DEF CounterField, M, CounterFits
<1>. QED  BY <1>1, <1>2, <1>3, MessageFacts DEF TrackedFrames, Tracked

\* Handling it moves the counter and charges at most its break.
LEMMA ReceiveCounts ==
    ASSUME CounterFits, ~TrackAll, TypeOK, ChanTypeOK, wire # NoFrame, HandleFrame(wire)
    PROVE  /\ counter'[Message] = wire.counter
           /\ counter_fail'[Message] <= counter_fail[Message]
                                          + Break(counter[Message], wire.counter)
<1>. DEFINE v == wire.counter
            fail == counter_fail[Message]
<1>1. Tracked(wire) /\ wire.address = Message /\ v \in 0 .. M - 1
  BY WireFrame
<1>2. ChecksCounter(Message)
  BY ConfigAssumption DEF ChecksCounter, CounterFits, M
<1>3. UpdateCounterGeneric(Message, v)
  BY <1>1 DEF HandleFrame, Parse
<1>4. fail \in Nat /\ MAX_BAD_COUNTER \in Nat
  BY MessageFacts, LimitsAssumption DEF TypeOK
<1>5. counter'[Message] = v
  <2>1. counter'[Message] = v % UINT8
    BY <1>2, <1>3, MessageFacts DEF UpdateCounterGeneric, TypeOK
  <2>2. v \in 0 .. UINT8 - 1
    BY <1>1, LimitsAssumption DEF CounterFits
  <2>. HIDE DEF v
  <2>. QED  BY <2>1, <2>2, ModSmall, LimitsAssumption
<1>6. counter_fail'[Message] = CounterFailAfter(Message, v)
  BY <1>2, <1>3, MessageFacts DEF UpdateCounterGeneric, TypeOK
<1>7. CounterFailAfter(Message, v) <= fail + Break(counter[Message], v)
  <2>1. CASE (counter[Message] + 1) % CounterMod[Message] # v
    <3>1. CounterFailAfter(Message, v) = Min({fail + 1, MAX_BAD_COUNTER})
      BY <2>1 DEF CounterFailAfter
    <3>2. Min({fail + 1, MAX_BAD_COUNTER}) <= fail + 1
      <4>. DEFINE n == fail + 1
      <4>1. n \in Int /\ MAX_BAD_COUNTER \in Int
        BY <1>4
      <4>. HIDE DEF n
      <4>2. Min({n, MAX_BAD_COUNTER}) <= n
        BY <4>1, MinPair
      <4>. QED  BY <4>2 DEF n
    <3>3. Break(counter[Message], v) = 1
      BY <2>1 DEF Break
    <3>. QED  BY <3>1, <3>2, <3>3
  <2>2. CASE (counter[Message] + 1) % CounterMod[Message] = v
    <3>1. CounterFailAfter(Message, v) <= fail
      BY <1>4, <2>2 DEF CounterFailAfter
    <3>2. Break(counter[Message], v) = 0
      BY <2>2 DEF Break
    <3>. QED  BY <1>4, <3>1, <3>2
  <2>. QED  BY <2>1, <2>2
<1>. QED  BY <1>5, <1>6, <1>7

\* Every fault adds its weight to the budget.
LEMMA FaultCharges ==
    ASSUME ChanTypeOK, NEW kind \in FaultKinds, Fault(kind)
    PROVE  /\ faults' \in [FaultKinds -> Nat]
           /\ FaultBudget' = FaultBudget +
                 (IF kind \in {"lost", "repeated"} THEN 1 ELSE 2)
           /\ FaultBudget \in Nat
<1>1. /\ faults["lost"] \in Nat /\ faults["repeated"] \in Nat
      /\ faults["corrupted"] \in Nat /\ faults["overridden"] \in Nat
  BY DEF ChanTypeOK, FaultKinds
<1>2. faults' = [faults EXCEPT ![kind] = faults[kind] + 1]
  BY DEF Fault
<1>3. faults' \in [FaultKinds -> Nat]
  BY <1>2 DEF ChanTypeOK
<1>. QED  BY <1>1, <1>2, <1>3 DEF FaultBudget, FaultKinds, ChanTypeOK
-----------------------------------------------------------------------------
\* Seen from the parser every step of the channel is a step of its own.
LEMMA ChannelStepIsParserStep ==
    ASSUME CounterFits, ChanTypeOK, [ChanNext]_<<vars, chanVars>>
    PROVE  [Next]_vars
<1>1. CASE wire # NoFrame /\ HandleFrame(wire)
  BY <1>1, WireFrame DEF Next
<1>2. CASE UpdateCall \/ (\E t \in Nanos : NextCan(t)) \/ EndCan \/ Query
  BY <1>2 DEF Next
<1>3. CASE UNCHANGED vars
  BY <1>3
<1>. QED
  BY <1>1, <1>2, <1>3 DEF ChanNext, Send, SendOverride, Lose, Corrupt, Receive,
                          ReceiveRepeated, ParserStep
-----------------------------------------------------------------------------
\* What the packer puts on the wire and what it will send next.
LEMMA PackerSends ==
    ASSUME CounterFits, ChanTypeOK, NEW v \in Values,
           NEW override \in Overrides \cup {NoOverride},
           Packer!MakeCanMsg(Message, Bus, v, override)
    PROVE  /\ wire' \in TrackedFrames(Message)
           /\ counters' \in [Messages -> Nat \cup {NoEntry}]
           /\ override = NoOverride =>
                 Break(wire'.counter, NextSent') = 0 /\ wire'.counter = NextSent
<1>. DEFINE n == Packer!NextCounter(Message)
            c == Packer!CounterBits(Message, override)
<1>1. n \in Nat
  BY MessageFacts DEF Packer!NextCounter, ChanTypeOK
<1>2. M # 0 /\ M \in Nat \ {0} /\ M = CounterMod[Message]
  BY DEF CounterFits, M
<1>3. Packer!Pack(Message, Bus, v, override)
  BY MessageFacts DEF Packer!MakeCanMsg
<1>4. override # NoOverride => override \in Nat
  BY ChannelAssumption
<1>5. c \in 0 .. M - 1
  <2>1. CASE Packer!CounterSet(Message, override)
    <3>1. c = override % M /\ override \in Nat
      BY <1>2, <1>4, <2>1 DEF Packer!CounterBits, Packer!CounterSet
    <3>. HIDE DEF c
    <3>. QED  BY <1>2, <3>1, ModRange
  <2>2. CASE ~Packer!CounterSet(Message, override)
    <3>1. c = n % M
      BY <1>2, <2>2 DEF Packer!CounterBits
    <3>. HIDE DEF c, n
    <3>. QED  BY <1>1, <1>2, <3>1, ModRange
  <2>. QED  BY <2>1, <2>2
<1>6. wire' = [src |-> Bus, address |-> Message, fits |-> TRUE, checksum_ok |-> TRUE,
               counter |-> c, value |-> v]
  BY <1>3 DEF Packer!Pack
<1>7. wire' \in TrackedFrames(Message)
  <2>1. CounterField(Message) = 0 .. M - 1
    BY <1>2 DEF CounterField
  <2>2. TRUE \in ChecksumField(Message)
    BY DEF ChecksumField
  <2>. HIDE DEF c
  <2>. QED  BY <1>5, <1>6, <2>1, <2>2 DEF TrackedFrames
<1>8. counters' = [counters EXCEPT ![Message] = Packer!CounterAfter(Message, override)]
  BY <1>3 DEF Packer!Pack
<1>9. (n + 1) % M \in 0 .. M - 1
  <2>. DEFINE k == n + 1
  <2>1. k \in Nat
    BY <1>1
  <2>. HIDE DEF k
  <2>2. k % M \in 0 .. M - 1
    BY <1>2, <2>1, ModRange
  <2>. QED  BY <2>2 DEF k
<1>10. Packer!CounterAfter(Message, override) \in Nat
  BY <1>2, <1>4, <1>9 DEF Packer!CounterAfter, Packer!CounterSet
<1>11. counters' \in [Messages -> Nat \cup {NoEntry}]
  BY <1>8, <1>10 DEF ChanTypeOK
<1>12. ASSUME override = NoOverride
       PROVE  Break(wire'.counter, NextSent') = 0 /\ wire'.counter = NextSent
  <2>1. wire'.counter = n % M
    BY <1>2, <1>6, <1>12 DEF Packer!CounterBits, Packer!CounterSet
  <2>2. NextSent = n % M
    BY <1>2 DEF NextSent
  <2>3. counters'[Message] = (n + 1) % M
    BY <1>2, <1>8, <1>12, MessageFacts
       DEF Packer!CounterAfter, Packer!CounterSet, ChanTypeOK
  <2>4. counters'[Message] # NoEntry
    BY <1>9, <2>3, ChannelAssumption
  <2>5. NextSent' = ((n + 1) % M) % M
    BY <1>2, <2>3, <2>4 DEF NextSent, Packer!NextCounter
  <2>. HIDE DEF n
  <2>. QED  BY <1>1, <2>1, <2>2, <2>5, NoBreak
<1>. QED  BY <1>7, <1>11, <1>12

LEMMA ChanInit1 ==
    ASSUME CounterFits, ChanInit
    PROVE  ChanInv
<1>1. TypeOK
  BY TypeInit DEF ChanInit
<1>2. ChanTypeOK
  BY DEF ChanInit, ChanTypeOK, Packer!PackerInit
<1>3. counter[Message] < M
  BY MessageFacts DEF ChanInit, Init, CounterFits
<1>4. BreaksAccounted
  <2>1. wire = NoFrame /\ counter_fail[Message] = 0 /\ FaultBudget = 0
    BY MessageFacts DEF ChanInit, Init, Packer!PackerInit, FaultBudget, FaultKinds
  <2>2. BreaksToCome \in {0, 1}
    BY <2>1, BreakType DEF BreaksToCome
  <2>. QED  BY <2>1, <2>2 DEF BreaksAccounted
<1>. QED  BY <1>1, <1>2, <1>3, <1>4 DEF ChanInv

LEMMA ChanTypeNext ==
    ASSUME CounterFits, ChanTypeOK, [ChanNext]_<<vars, chanVars>>
    PROVE  ChanTypeOK'
<1>. USE DEF ChanTypeOK
<1>1. CASE \E v \in Values : Send(v)
  BY <1>1, PackerSends DEF Send
<1>2. CASE \E v \in Values, n \in Overrides : SendOverride(v, n)
  BY <1>2, PackerSends, FaultCharges DEF SendOverride, FaultKinds
<1>3. CASE Lose
  BY <1>3, FaultCharges DEF Lose, FaultKinds
<1>4. CASE Corrupt
  <2>1. PICK n \in CounterField(Message) :
           wire' = [wire EXCEPT !.counter = n, !.checksum_ok = Message \notin HasChecksum]
    BY <1>4 DEF Corrupt
  <2>2. wire \in TrackedFrames(Message)
    BY <1>4 DEF Corrupt
  <2>3. (Message \notin HasChecksum) \in ChecksumField(Message)
    BY DEF ChecksumField
  <2>4. wire' \in TrackedFrames(Message)
    BY <2>1, <2>2, <2>3 DEF TrackedFrames
  <2>. QED  BY <1>4, <2>4, FaultCharges DEF Corrupt, FaultKinds
<1>5. CASE Receive
  BY <1>5 DEF Receive
<1>6. CASE ReceiveRepeated
  BY <1>6, FaultCharges DEF ReceiveRepeated, FaultKinds
<1>7. CASE ParserStep
  BY <1>7 DEF ParserStep, chanVars
<1>8. CASE UNCHANGED <<vars, chanVars>>
  BY <1>8 DEF chanVars
<1>. QED  BY <1>1, <1>2, <1>3, <1>4, <1>5, <1>6, <1>7, <1>8 DEF ChanNext

\* A step that is not a reception leaves the parser's counter alone.
LEMMA OnlyReceptionCounts ==
    ASSUME UpdateCall \/ (\E t \in Nanos : NextCan(t)) \/ EndCan \/ Query \/ UNCHANGED vars
    PROVE  UNCHANGED <<counter, counter_fail>>
BY DEF UpdateCall, NextCan, EndCan, Query, QueryLatest, vars, msgVars

\* The numbers BreaksAccounted adds up.
LEMMA CountTypes ==
    ASSUME ChanInv
    PROVE  /\ counter_fail[Message] \in Nat
           /\ FaultBudget \in Nat
           /\ BreaksToCome \in Nat
<1>1. counter_fail[Message] \in Nat
  BY MessageFacts, LimitsAssumption DEF ChanInv, TypeOK
<1>2. FaultBudget \in Nat
  BY DEF ChanInv, ChanTypeOK, FaultBudget, FaultKinds
<1>3. BreaksToCome \in Nat
  BY BreakType DEF BreaksToCome
<1>. QED  BY <1>1, <1>2, <1>3

LEMMA BreaksNext ==
    ASSUME CounterFits, ~TrackAll, ChanInv, [ChanNext]_<<vars, chanVars>>
    PROVE  BreaksAccounted' /\ counter'[Message] < M
<1>. DEFINE sent == NextSent
            seen == counter[Message]
<1>0. /\ TypeOK /\ ChanTypeOK /\ seen < M
      /\ counter_fail[Message] + BreaksToCome <= 1 + FaultBudget
  BY DEF ChanInv, BreaksAccounted
<1>1. CASE \E v \in Values : Send(v)
  <2>1. PICK v \in Values : Send(v)
    BY <1>1
  <2>2. /\ wire = NoFrame /\ UNCHANGED <<counter, counter_fail, faults>>
        /\ Packer!MakeCanMsg(Message, Bus, v, NoOverride)
    BY <2>1 DEF Send, vars, msgVars
  <2>3. /\ Break(wire'.counter, NextSent') = 0 /\ wire'.counter = sent
        /\ wire' # NoFrame
    BY <1>0, <2>2, PackerSends, ChannelAssumption
  <2>4. BreaksToCome' = BreaksToCome
    BY <2>2, <2>3, BreakType DEF BreaksToCome, Break
  <2>. QED  BY <1>0, <2>2, <2>4 DEF BreaksAccounted, FaultBudget
<1>2. CASE \E v \in Values, n \in Overrides : SendOverride(v, n)
  <2>1. PICK v \in Values, n \in Overrides : SendOverride(v, n)
    BY <1>2
  <2>2. wire = NoFrame /\ UNCHANGED <<counter, counter_fail>> /\ Fault("overridden")
    BY <2>1 DEF SendOverride, vars, msgVars
  <2>3. BreaksToCome' \in {0, 1, 2}
    BY BreakType DEF BreaksToCome
  <2>4. FaultBudget' = FaultBudget + 2
    BY <1>0, <2>2, FaultCharges DEF FaultKinds
  <2>. QED  BY <1>0, <2>2, <2>3, <2>4, CountTypes DEF BreaksAccounted
<1>3. CASE Lose
  <2>1. /\ wire # NoFrame /\ wire' = NoFrame /\ Fault("lost")
        /\ UNCHANGED <<counter, counter_fail, counters>>
    BY <1>3 DEF Lose, vars, msgVars
  <2>2. BreaksToCome' \in {0, 1}
    BY <2>1, BreakType DEF BreaksToCome
  <2>3. FaultBudget' = FaultBudget + 1
    BY <1>0, <2>1, FaultCharges DEF FaultKinds
  <2>. QED  BY <1>0, <2>1, <2>2, <2>3, CountTypes DEF BreaksAccounted
<1>4. CASE Corrupt
  <2>1. UNCHANGED <<counter, counter_fail>> /\ Fault("corrupted")
    BY <1>4 DEF Corrupt, vars, msgVars
  <2>2. BreaksToCome' \in {0, 1, 2}
    BY BreakType DEF BreaksToCome
  <2>3. FaultBudget' = FaultBudget + 2
    BY <1>0, <2>1, FaultCharges DEF FaultKinds
  <2>. QED  BY <1>0, <2>1, <2>2, <2>3, CountTypes DEF BreaksAccounted
<1>5. CASE Receive
  <2>1. wire # NoFrame /\ wire' = NoFrame /\ HandleFrame(wire) /\ UNCHANGED <<counters, faults>>
    BY <1>5 DEF Receive
  <2>2. /\ counter'[Message] = wire.counter /\ wire.counter < M
        /\ counter_fail'[Message] <= counter_fail[Message] + Break(seen, wire.counter)
    BY <1>0, <2>1, ReceiveCounts, WireFrame DEF CounterFits
  <2>3. NextSent' = sent /\ FaultBudget' = FaultBudget
    BY <2>1 DEF NextSent, Packer!NextCounter, FaultBudget
  <2>4. /\ BreaksToCome = Break(seen, wire.counter) + Break(wire.counter, sent)
        /\ BreaksToCome' = Break(wire.counter, sent)
    BY <2>1, <2>2, <2>3 DEF BreaksToCome, Break
  <2>5. counter_fail'[Message] \in Int
    BY <1>0, <2>1, HandleFrameType, WireFrame, MessageFacts DEF TypeOK
  <2>. QED  BY <1>0, <2>2, <2>3, <2>4, <2>5, CountTypes, BreakType DEF BreaksAccounted
<1>6. CASE ReceiveRepeated
  <2>1. wire # NoFrame /\ wire' = wire /\ HandleFrame(wire) /\ UNCHANGED counters /\ Fault("repeated")
    BY <1>6 DEF ReceiveRepeated
  <2>2. /\ counter'[Message] = wire.counter /\ wire.counter < M
        /\ counter_fail'[Message] <= counter_fail[Message] + Break(seen, wire.counter)
    BY <1>0, <2>1, ReceiveCounts, WireFrame DEF CounterFits
  <2>3. NextSent' = sent /\ FaultBudget' = FaultBudget + 1
    BY <1>0, <2>1, FaultCharges DEF NextSent, Packer!NextCounter, FaultKinds
  <2>4. /\ BreaksToCome = Break(seen, wire.counter) + Break(wire.counter, sent)
        /\ BreaksToCome' <= 1 + Break(wire.counter, sent) /\ BreaksToCome' \in Int
    BY <2>1, <2>2, <2>3, BreakType DEF BreaksToCome, Break
  <2>5. counter_fail'[Message] \in Int
    BY <1>0, <2>1, HandleFrameType, WireFrame, MessageFacts DEF TypeOK
  <2>. QED  BY <1>0, <2>2, <2>3, <2>4, <2>5, CountTypes, BreakType DEF BreaksAccounted
<1>7. CASE ParserStep \/ UNCHANGED <<vars, chanVars>>
  <2>1. UNCHANGED <<counter, counter_fail, chanVars>>
    BY <1>7, OnlyReceptionCounts DEF ParserStep
  <2>2. BreaksToCome' = BreaksToCome /\ FaultBudget' = FaultBudget
    BY <2>1 DEF chanVars, BreaksToCome, Break, NextSent, Packer!NextCounter, FaultBudget
  <2>. QED  BY <1>0, <2>1, <2>2 DEF BreaksAccounted
<1>. QED  BY <1>1, <1>2, <1>3, <1>4, <1>5, <1>6, <1>7 DEF ChanNext

LEMMA ChanInvNext ==
    ASSUME CounterFits, ~TrackAll, ChanInv, [ChanNext]_<<vars, chanVars>>
    PROVE  ChanInv'
<1>1. TypeOK'
  BY ChannelStepIsParserStep, TypeNext DEF ChanInv
<1>2. ChanTypeOK'
  BY ChanTypeNext DEF ChanInv
<1>3. M' = M
  BY DEF M
<1>. QED  BY <1>1, <1>2, <1>3, BreaksNext DEF ChanInv

(***************************************************************************)
(* The COUNTER of the packer stays in its range, and counter_fail together *)
(* with the breaks its parser has yet to see stays within what the faults  *)
(* of the bus account for.                                                 *)
(***************************************************************************)
THEOREM ChannelInv ==
    ASSUME CounterFits, ~TrackAll
    PROVE  ChanSpec => []ChanInv
<1>1. ChanInit => ChanInv
  BY ChanInit1
<1>2. ChanInv /\ [ChanNext]_<<vars, chanVars>> => ChanInv'
  BY ChanInvNext
<1>. QED  BY <1>1, <1>2, PTL DEF ChanSpec

\* Every fault the parser has counted, or has yet to see on the wire, is one
\* the link made: none is counted twice, by whatever path it reaches it.
THEOREM BreaksAccountedHolds ==
    ASSUME CounterFits, ~TrackAll
    PROVE  ChanSpec => []BreaksAccounted
<1>1. ChanInv => BreaksAccounted
  BY DEF ChanInv
<1>. QED  BY <1>1, ChannelInv, PTL

\* The parser's leaky bucket never overstates the faults of the link, whatever
\* the width of the COUNTER (as long as uint8_t holds it), however often each
\* kind of fault happens and in whatever order.
THEOREM FaultsAbsorbedHolds ==
    ASSUME CounterFits, ~TrackAll
    PROVE  ChanSpec => [](BreaksAccounted /\ FaultsAbsorbed)
<1>1. ChanInv => BreaksAccounted /\ FaultsAbsorbed
  BY CountTypes DEF ChanInv, BreaksAccounted, FaultsAbsorbed
<1>. QED  BY <1>1, ChannelInv, PTL

\* What the channel does to the parser is something the parser's own
\* specification allows: its theorems hold in the composition.
THEOREM ChannelDrivesParser ==
    ASSUME CounterFits
    PROVE  ChanSpec => Spec
<1>1. ChanInit => Init /\ ChanTypeOK
  BY DEF ChanInit, ChanTypeOK, Packer!PackerInit
<1>2. ChanTypeOK /\ [ChanNext]_<<vars, chanVars>> => ChanTypeOK' /\ [Next]_vars
  BY ChanTypeNext, ChannelStepIsParserStep
<1>. QED  BY <1>1, <1>2, PTL DEF ChanSpec, Spec
=============================================================================
