# A TLA+ verification of opendbc's CAN parser and packer

`opendbc` describes the CAN messages of cars in DBC files (`opendbc/dbc/`) and
gives programs a parser and a packer for them (`opendbc/can/`).  A parser watches
one bus, decodes the messages it was asked for, checks their CHECKSUM and COUNTER
signals, and tells its client at any moment whether what it reports can be trusted
(`can_valid`) and whether the bus is alive (`bus_timeout`).  A packer encodes
messages and keeps their COUNTERs.  Cars are driven by what these two say, so the
questions below are about *when* a value is believed, not about its wording.

## 1. Inventory

| Component | Code | State | Operations |
|---|---|---|---|
| CAN parser | `can/parser.cc`, `can/common.h` | per message: `vals`, `all_vals`, `last_seen_nanos`, `counter`, `counter_fail`; per parser: `can_valid`, `bus_timeout`, `last_nanos`, `first_nanos`, `last_nonempty_nanos`, `can_invalid_cnt` | `update`, `UpdateCans`, `UpdateValid`, `MessageState::parse`, `update_counter_generic`, `query_latest`, two constructors |
| Python CANParser | `can/parser_pyx.pyx` | `vl`, `vl_all`, `ts_nanos`, the C++ parser | `__init__`, `update_strings`, properties |
| CAN packer | `can/packer.cc`, `can/packer_pyx.pyx` | `counters`, a map from address to the next COUNTER | `pack`, `make_can_msg` |
| DBC cache | `can/dbc.cc` `dbc_lookup` | static map of parsed DBCs and its mutex | `dbc_lookup` |
| DBC text parser | `can/dbc.cc`, `can/common_dbc.h` | `address`, the sets of addresses and names, `signals`, the DBC under construction; none survives a call | `dbc_parse_from_stream`, `set_signal_type`, `get_checksum` |
| Signal codec | `get_raw_value`, `set_value` | none | decode and encode a bit field |
| Checksums | `can/common.cc` | two CRC tables, built once | one function per make |
| CANDefine | `can/parser_pyx.pyx` | `dv`, built once | constructor |
| DBC generator | `dbc/generator/generator.py`, `chrysler/_stellantis_common_ram.py` | files on disk | `create_all`, `create_dbc` with its imports, the script that renumbers messages |
| Radar DBC scripts | `dbc/generator/hyundai/*.py`, `dbc/generator/tesla/*.py` | none | print a DBC |
| DBC files | `dbc/*.dbc`, `dbc/generator/*/*.dbc` | data | |
| Build and shims | `SConstruct`, `site_scons/`, `can/*.py` | none | compile; re-export |

**How they interact.**  Constructors of parsers and packers call `dbc_lookup`, which
may parse a file; nothing else is shared between threads.  Python's
`update_strings(strings)` clears `vl_all`, converts its argument and calls C++
`update(can_data, new_vals)`.  For each `CanData` (a timestamp and its frames)
`update` runs `UpdateCans`, which calls `parse` on each frame of the parser's bus,
then `UpdateValid`; finally `query_latest` copies what is new to `new_vals`, and the
Python loop distributes it to the dictionaries.  Packers and parsers of different
programs are joined by a bus, which loses, repeats and corrupts frames.  The DBC files
that `dbc_lookup` opens are in part outputs of the generator, which runs the scripts,
then copies every DBC of its directories, imports expanded, beside the hand-written
ones.  `CANDefine` and the constructors of parsers read the DBC that was parsed.

**Which behaviours are hard.**

- *Encodings of time and of absence.*  `last_seen_nanos == 0` means "never", and
  `current_nanos == 0`, `last_ts == 0` mean "not given"; the differences are on
  `uint64_t`.  Whether the values of a call are all reported, once, depends on them.
- *Two saturating counts* (`counter_fail`, `can_invalid_cnt`) decide `can_valid`;
  the interesting cases take five faults or five `CanData` in a row.
- *Two automata, one counter.*  The packer and the parser each track the COUNTER;
  the wire in between loses, repeats and corrupts frames.
- *Partial updates.*  A rejected frame still moves the parser's `counter`; a
  malformed call still clears `vl_all`.
- *A lock with an exception inside* and a `find`/`exists` pair that is not atomic
  with the parse (`dbc_lookup`), over a file system that others write.
- *A reader with one remembered line*: a signal belongs to the `BO_` line read last,
  so what a line means depends on all that came before it, and bounds and duplicates
  are looked at in the middle of it.
- *A generator without a transaction*: it deletes, runs other programs and rewrites
  in place, in a tree where earlier runs and other revisions left intermediates.

**What makes each component correct.**

- Parser: `can_valid` is never TRUE when a message is stale or its counter broken,
  is never FALSE without a cause, and drops when a message goes late; what `update`
  reports is exactly what that call accepted.
- Python CANParser: each accepted value is delivered exactly once and in order,
  and the dictionaries show the newest.
- Packer: the COUNTERs of each message are consecutive whatever else is packed.
- Packer and parser: a few faults never make a link invalid; it always recovers.
- DBC cache: all lookups of a name get the same object, and lookups end.
- Codec: each bit of a value goes to the bit of the frame where the DBC format puts
  it and comes back from there; nothing else in the frame changes; a packed value is
  parsed as the nearest one the signal can express.
- Checksums: the parser accepts what the packer packs and rejects it when it is
  damaged; the CRCs are the ones they are named after.
- DBC text parser: a text is refused exactly if it is ill formed; what is parsed is
  what was written, every signal lies in its frame, and lookups by address and name
  agree.
- CANDefine and the parser's constructor: the two keys of a message lead to one
  dictionary; each value has its own description.
- Generator: a run that completes leaves current, whole DBCs and no others, whatever
  was there before; running again repairs any interruption.
- Scripts: what they write is accepted, and its signals share no bit.

`PROJECT.json` lists every hazard at its line, with the property that covers it.

## 2. The modules

| Module | Models | EXTENDS / instances |
|---|---|---|
| `CANParser` | the C++ parser | |
| `ParserMonitor` | `CANParser` and history variables | extends `CANParser` |
| `CANParserPyx` | the Python class around it | extends `CANParser`, instance of `SignalFeed` |
| `SignalFeed` | the abstract promise of the Python class | |
| `CANPacker` | `pack` and `make_can_msg`, frames as records | |
| `Bits` | numbers as bits, loops over items, exclusive or | |
| `SignalCodec` | bit fields: placement, `set_value`, `get_raw_value`, scaling | extends `Bits` |
| `FieldAccess` | one signal written and read again, against bit positions | extends `SignalCodec` |
| `Checksums` | the checksum of each make, the CRC tables | extends `Bits` |
| `PackedFrame` | `pack` down to the bytes, and their parsing, for any checksum | extends `SignalCodec`; instance of `CANPacker` |
| `MessageChecksums` | which checksum a message has; what the real ones are worth | extends `PackedFrame`, `Checksums` |
| `CounterChannel` | packer, faulty wire, parser | extends `CANParser`, instance of `CANPacker` |
| `DbcCache` | `dbc_lookup` and the file system | |
| `DbcText` | the lines of a DBC, as far as they are told apart | |
| `DbcReader` | `dbc_parse_from_stream`, a step per line | extends `DbcText` |
| `DbcClients` | `CANDefine`, and the constructors of `CANParser` | extends `DbcReader` |
| `RadarScripts` | the texts of the four radar scripts | extends `DbcText` |
| `ChryslerDbcs` | the renumbering script, and the DBCs it works on | extends `DbcText` |
| `DbcGenerator` | `create_all`, `create_dbc`, interruptions, revisions | |
| `GeneratedDbcs` | what the generator leaves, read by the clients | extends `DbcGenerator`, `DbcClients` |
| `CANParserProofs`, `ParserMonitorProofs`, `CANParserPyxProofs`, `CounterChannelProofs`, `DbcCacheProofs`, `FieldAccessProofs` | theorems | extend the module of that name |
| `PackedFrameProofs` | theorems on packed frames and on the checksums | extends `MessageChecksums`, `FieldAccessProofs` |
| `GeneratedDbcsProofs` | theorems on the reader, the generator, the Python classes and their composition | extends `GeneratedDbcs` |
| `MCParser`, `MCPyx`, `MCChannel`, `MCAccess`, `MCFrame`, `MCReader`, `MCGenerated` | values for TLC | |

**CANParser.**  `update` is sequential; its two nested loops are cut into one action
per iteration, so that the environment chooses the data while it is consumed:
`UpdateCall` is the entry, `NextCan(t)` the start of one `CanData` (`first`, `last`
and `current_nanos` are set), `HandleFrame(f)` one turn of the loop of `UpdateCans`
with the whole of `parse` and `update_counter_generic`, `EndCan` the rest of
`UpdateCans` (bus timeout) and `UpdateValid`, `Query` the final `query_latest`.
`DirectQuery` is a call of the public `query_latest` by a C++ client.  Both
constructors are there: the second one is `TrackAll` with its two flags.

What is abstracted, and why that loses nothing the properties speak of:

- A message has one value for all its signals: `parse` stores all of them or none,
  with one timestamp, and `query_latest` reports them together.  Messages have at
  least one signal and at most one COUNTER and one CHECKSUM, as in all the DBC files
  of the repository.  The COUNTER field is `log2(CounterMod)` bits wide.
- A frame carries `checksum_ok`, the outcome of `calc_checksum(...) != tmp`.
- `first_nanos` only chooses what is logged and is left out.
- `can_invalid_cnt` saturates at `CAN_INVALID_CNT`: it is only compared with that.
  (In the code the `uint64_t` grows by one per bad `CanData`.)
- `MaxPending` bounds `Len(all_vals[m])`, which is unbounded in the code.

**CANParserPyx.**  `Construct` is `__init__` up to and including its call of
`update_strings([])`, `UpdateStrings` a call with a good argument,
`InvalidParameter` one that raises after `vl_all` was cleared, `Cpp*` the steps of
the C++ call, `Distribute` the loop over `new_vals`.  The GIL keeps one such call
from another.  `accepted` and `delivered` are history variables.  `MaxLog` bounds
the history.

**CANPacker.**  `Pack` is the whole of `pack`: signals, then the COUNTER if the
message has one that was not given, then the CHECKSUM.  An explicit COUNTER is stored
*as the next automatic one*.  `PackUndefined` is the early return of an unknown
name or address.

**SignalCodec.**  A frame is a sequence of bytes and a signal the record that the
DBC text parser fills in: `lsb`, `msb`, size, byte order, sign, factor and offset.
`SetTurn` and `GetTurn` are one turn of the loops of `set_value` and
`get_raw_value`, with the locals in a record; the loops are recursive functions of
the number of turns (`SetTurns`, `GetTurns`), and so is `Pow2` of `Bits`.  `WordBits` is the
width of `int64_t`, which the runs make small.  `1ULL << size` is undefined when the
size is the width of the word; its outcome is a parameter, 0 or 1 in the runs.
Factors and offsets are integers, so that `Round` is exact: what `double` loses is
not modelled, nor is a value too large for the cast to `int64_t`.  A big
endian signal that starts beyond the frame is read outside `be_bits` while the file
is parsed; the runs place none.

**FieldAccess.**  `Write` is what `pack` does with one signal.  The reference, `Position`,
knows only the DBC format: where bit k of a signal is.  The code never sees it.
`PlacesAssumption` and `InputAssumption` say what is tried: signals no wider than the
word, which stay in `be_bits`; integer scalings, with a factor that is not 0.

**Checksums.**  One operator per function of `common.cc`, on the address and the
bytes; the registers keep their 8 and 16 bits.  `volkswagen_mqb_checksum`'s table of
padding bytes is the constant `MagicPad` (the runs give the row of `GRA_ACC_01`), and
an address outside it gets 0 as in the `default` branch.  Each loop of the code is a `Loop` of
`Bits`, with the body as a function of the register and the item (`Adding`, `ChryslerByte`,
`VolkswagenByte`, ...), and exclusive or is done bit by bit, so that all of it can be reasoned about.

**PackedFrame and MessageChecksums.**  `Pack` is the body of `pack` in its order: `Filled` (the
loop over the given signals), `Counted`, `Closed`.  The function of a CHECKSUM is the constant
operator `Checksum`, so that the frames can be reasoned about without knowing it; the runs give
it `MessageChecksum`, which chooses among the eight of `Checksums` as `get_checksum` does.
Layouts are any whose signals lie in the frame and share no bit (`LayoutAssumption`), with
COUNTER and CHECKSUM unsigned and unscaled (`CheckedAssumption`), the CHECKSUM of the size that
`dbc.cc:54-79` asserts for the make and in the place that the function of the make leaves out, as
in the DBC files (`MakesAssumption`); callers give values that the
signals express, and any COUNTER that is not negative (`GivenAssumption`, `UserAssumption`): the code
keeps it as a `uint32_t`, and what becomes of a negative `double` there is undefined.  `packs` is a
history variable: it changes whenever a message is packed, so that a call that returns the frame of the
one before it is still a step that `CountsPerMessage` is about.  `Tmp` is the number `parse` compares
the COUNTER and CHECKSUM with, `Parsed` the value it stores.  `received` is what `UpdateCans`
and `parse` find in the frame, in the record form in which `CANPacker` and `CANParser`
exchange frames.
So `ImplementsPacker` justifies the abstraction the other modules rest on: that a
packed frame has the COUNTER it should and a CHECKSUM that matches.

**CounterChannel.**  The wire holds one frame.  A longer queue gives the parser no
sequence of COUNTERs this one does not, since sending, loss and delivery interleave
freely.  `faults` counts the faults of each kind; `MaxFaults` bounds their sum in
the runs (the proof has no such bound: `MaxFaults` is any natural number).

**DbcCache.**  One thread's call is `Call`, `Resolve` (the `exists` test, outside the
lock), `Lock` (with the `find`), `Parse` (success, absent file, or an exception that
leaves through the lock), `Return`.  `ChangeFile` is another program; `MaxWrites`
bounds it.

**DbcText and DbcReader.**  A line is a record of what its regular expression extracts,
`Bad` if it begins like a `BO_`, `SG_` or `VAL_` line and is not one, and `Other` if the reader
passes over it.  Names are numbered tuples, but for those that the code compares with;
sign, factor and offset of a signal are left out.  Each step is one turn of the
`getline` loop: `PassOver`, `ReadMessage`, `ReadSignal`, `ReadVal`, or `Refuse`, an exception, after which
nobody sees the DBC; `Finish` is the two loops at the end.  `Open` is `dbc_parse` with the
result of `get_checksum` as `make`; `Close` ends a call, so that the next one begins with new
locals.  `address_set`, `msg_name_set` and `signal_name_sets` are written where `msgs` and
`signals` are, so they are read off these.  `set_signal_type` is `LayoutFits` (its assertions)
and `SignalType`.  `be_bits[...]` is indexed before the bounds are checked: `Lsbs` is then any
of the constant `Garbage`.  The check that follows (`InBounds`) bounds both ends from above only, so what
is accepted need not lie in the frame (finding 5).

**DbcClients.**  `Define` is the constructor of `CANDefine`, `Construct` the one of the Python
`CANParser` up to its first update, with its lookups, then the loop of the C++ constructor,
which throws on a duplicate and aborts on a message of more than 64 bytes, whichever
it meets first.  A dictionary is named after the message of the request it was made for.

**RadarScripts and ChryslerDbcs.**  A script's text is a table of `<<start bit, size>>` and
the loop over it.  The hand-written Chrysler DBCs have the lines the script can
break: addresses, sizes, values, CHECKSUM and COUNTER.

**DbcGenerator.**  A file is a *chunk*: its name, the revision it is of, and whether it
is whole; an output is the sequence of chunks that `create_dbc` wrote.  The actions are
`Start` (the first `glob`), `Remove`, `GlobScripts`, `CallScript`, `OpenOutput` and `WriteOutput` in
the script, `ScriptFails`, `Walk`, `CreateDbc` (the output is opened, so emptied), `Include`,
`IncludeMissing`, `WriteCore`, `End`.  `Kill` interrupts any of them; of an output that is open
any prefix may be on disk, its last chunk torn.  `CheckOut` changes the revision and leaves
what scripts have written, which git ignores.  What is abstracted:

- The output directory stays as it is at a change of revision.  (Outputs that are tracked would
  be replaced; `create_all` removes the ones like the others.)
- Files have distinct names, and one directory of DBCs is looked at per revision.  In
  the code, two sources of the same name in two directories write one output.
- Imports are one level deep, as in the code: the `IMPORT` line of an imported file is
  copied as a comment.  Outputs of scripts have no `IMPORT` lines.
- `tesla/radar_common.py` is called like a script too and does nothing.
- A script whose parent is killed dies with it, and two generators do not run at once.

**GeneratedDbcs.**  The generator moves only while no DBC is open; a DBC is opened after
the first complete run of a revision, and only if whole.  Later runs leave the same
files, which is what `CompleteIsCurrent` says.

## 3. What the runs check

Timeouts are scaled: `NanosPerSecond = 2` with frequencies 1 and 2 gives
thresholds 20 and 10, so that timestamps that sit on, just under and just over them
are a handful.  `MAX_BAD_COUNTER` and `CAN_INVALID_CNT` have their real value 5
except in `feed`, whose properties do not depend on it.

| Run | Question | Bounds |
|---|---|---|
| `validity` | Is `can_valid` TRUE only if every message is fresh, FALSE only for a cause, and consistent with `bus_timeout`? Does each call report exactly what it accepted, with nothing left over? Is a late message noticed (liveness)? | two messages of different frequency, one with a CHECKSUM; timestamps around both thresholds; two values, at most 2 pending; direct queries |
| `feed` | Do the Python dictionaries implement `SignalFeed`? Types and saturation of the parser | two messages, one with a 2-bit COUNTER, one with CHECKSUM, histories of 2 |
| `channel` | How much can `counter_fail` grow from a given set of faults? Does the link recover and keep delivering (liveness)? | 3 faults of 4 kinds, 2-bit COUNTER |
| `dbc_cache` | One object per name, one write per entry, every lookup ends | 2 threads, 2 names, 1 file change |
| `codec` | Is every bit written to and read from its place, also in a frame that is cut short? Are scaled values preserved? | every start, size 1 to 10 and byte order in three bytes, a 10-bit word, three scalings, seven values |
| `frames` | Do the bytes implement `CANPacker`? Do they parse back? Is every single-bit error rejected? Does no checksum depend on the bits it is stored in? Are the CRCs CRCs? Are COUNTERs consecutive per message? | nine messages of the DBC files, one or two of each of the eight makes; explicit COUNTERs in and out of range; unknown and repeated signals |
| `generated_dbcs` | Is a complete run of the generator current, whatever happened before, and is it always reached again (liveness)? Are all its DBCs accepted, with signals that share no bit? Is a text refused exactly if it is ill formed, and read as it is written? Do `CANDefine` and `CANParser` show it? | six revisions (below), one interruption, two changes of revision; about 3,200 hand-made texts |
| `time_zero`, `stays_invalid`, `wide_counter`, `unsigned_word`, `out_of_bounds` | the findings below (each expects a violation) | |

Why the bounds are enough.  Messages are independent in the parser but for
`can_valid` and `bus_timeout`, which take a minimum or a conjunction over them: two
messages, of which one is fresh and one is not, show every case.  The leaky bucket
needs five faults to overflow, which `stays_invalid` (frames chosen freely) and
`channel` (three faults of weight two, and the one of the first
frame) reach; in `feed`, with frames chosen freely, two are enough.  `validity` and `feed` allow two values per
call: enough to see order, loss and repetition.  Two threads are enough for `dbc_lookup`, whose only interaction is
pairwise through one mutex.  The loops of the codec treat a byte in one of four ways
(first, last, both, neither), and signals in three bytes have them all; a 10-bit
signal in three bytes is what a 64-bit one in nine is.  The messages of `frames` are
those of the DBC files except that `ADRV_0x200`, whose COUNTER has 8 bits, is only
sent with explicit COUNTERs.  No run sets `TrackAll`, `IgnoreChecksum` or
`IgnoreCounter`: the theorems hold for every value of them.

The revisions of `generated_dbcs` are: the Chrysler directory with its script, which has two
outputs, and its private, imported files; the same with a message missing, so that the
script fails; one whose script is gone, so that an import is missing or is a leftover;
the Hyundai and the Tesla directory with two scripts each; and one without sources,
for the hand-made texts.  Killed once in any step, and checked out twice in any
order, they leave every combination of stale, torn and missing files that the code can
meet, because each loop of `create_all` treats each file by itself.  (The theorems have
no such bounds.)  The hand-made texts are all those of up to three lines over twelve, which
have two addresses or names that meet, address 0, orphaned signals, values with a
missing description and signals of both byte orders, one of which leaves the frame;
every layout rule of every make, just right and just wrong; empty signals; and a few longer ones.
The generated ones are the complete texts of the scripts.

**Fairness.**  In `MonFairSpec` the caller keeps calling `update`, `CanData` keep
coming, and each call and each `CanData` is finite (weak fairness of what is never
disabled again, strong fairness of the choice between "one more" and "done").
`ChanFairSpec` adds a sender that keeps sending and a wire that keeps delivering;
faults have no fairness and their number is finite.  `FairSpec` of `DbcCache` lets a
thread inside `dbc_lookup` run on, with strong fairness of `Lock`: the mutex does not
starve a thread.  No thread is obliged to call.  `GenSpec` has weak fairness of the
generator's own steps, `Start` included: a process that is not interrupted runs on, and
who needs the DBCs starts it again after a failure, as the error message of
`test_generator.py` asks.  Interruptions and changes of revision have no fairness and
are finitely many.

**Findings.**

1. `time_zero`: a `CanData` with timestamp 0 is taken for "no timestamp yet", and
   `all_values` then misses what the call accepted, against the comment "all values
   from this cycle" (`common_dbc.h:18`).
2. `stays_invalid`: a test says that CAN "stays invalid while receiving invalid
   messages"; `counter_fail` also goes down on a frame that is itself rejected,
   because its CHECKSUM is wrong, so `can_valid` comes back with no good frame.
3. `wide_counter`: `counter` is a `uint8_t`.  With a COUNTER signal wider than 8 bits,
   which one DBC file of the repository has, every frame of a faultless sender with a
   COUNTER of 257 or more breaks the count, and the message goes invalid.
4. `unsigned_word`: `get_raw_value` returns an `int64_t`, so an unsigned 64-bit signal
   with its top bit set is reported as a negative number, although the DBC files give
   such signals ranges up to 2^64 (`FORD_CADS.dbc:58`).
5. `out_of_bounds`: `be_bits` is indexed before the bounds are checked (`dbc.cc:167`), and the assertion
   "Signal out of bounds" (`dbc.cc:170`) bounds `lsb` and `msb` from above only.  A big endian signal
   that leaves the 64 bytes is accepted if what lies beyond `be_bits` is below 512, a negative number
   included.  Without any undefined read, an empty little endian signal at bit 0 is accepted with an
   `msb` of -1.  `RefusesExactlyIllFormed` takes no side on signals that leave `be_bits`: either may happen.

One more disagreement is in the data and has no run: `STEERING_LKA` of
`toyota_prius_2010_pt.dbc:107` has eight bytes with the CHECKSUM in the fifth, while
`toyota_checksum` takes the CHECKSUM to be last; with this layout `PackedFrame` packs
frames whose own CHECKSUM does not match.

Five more, in the code, that no run expects a violation of:

- Nothing checks that `CanData` are ordered.  What a call accepts with an older timestamp than that of its
  first `CanData` is held back, as in finding 1, and the age of a message newer than the last `CanData`
  wraps around, so that it counts as timed out.  The runs have ordered timestamps (`MonotoneTime`), and so
  have the theorems that need it; without it TLC finds `CycleComplete` violated.
- `std::stoul` without a base reads an address `0x1F` as 0, although `dbc.cc:133` and `dbc.cc:181`
  say that it "could be hex".  No DBC of the repository has such a line.
- An empty description in a `VAL_` line vanishes, because the text is split at *runs* of quotes:
  the pairs `CANDefine` makes of what follows are off by one, or it raises.  `Tokens`
  models it and `DefinitionsAsWritten` excludes such lines; no DBC of the repository has one.
- `CHECKSUM_PEDAL` gets the type of a checksum and no function to compute it
  (`dbc.cc:92-95`), so it is never verified.
- `test_generator.py:13-18` looks at `diff_files` of a comparison, which does not contain
  the files that are in one of the directories only: an output that is missing,
  or one too many, passes.

## 4. What is proved

TLAPS proves, for all values of the constants that satisfy the modules' assumptions:

- `TypeCorrect`: `Spec => []TypeOK`; it includes the saturation of `counter_fail` and
  the width of `counter`.
- `CycleCompleteHolds`: timestamps in order and positive (`MonotoneTime`,
  `0 \notin Nanos`) give `Spec => []CycleComplete`.  The inductive invariant adds
  `PendingThisCall`: a value not yet reported was stored by the call in progress, so
  its `last_seen_nanos` is at least `current_nanos` and `query_latest` takes it.
  Finding 1 shows that positivity is needed.
- `BusTimeoutCountsAsInvalidHolds`: for the first constructor, with in-order
  timestamps and frequencies not above 10^9 Hz.  The inductive invariant adds
  `SeenOnBus`: no message is newer than the bus.  Beyond 10^9 Hz the integer division
  gives a threshold of 0, which `UpdateValid` takes for "no check".
- `ValidMeansFreshHolds`: for the first constructor and frequencies up to 10^9 Hz, whatever
  the order of the timestamps: wraparound only makes `UpdateValid` see more messages as timed
  out.  `FreshInv` relates what the code keeps to what was accepted: `last_seen_nanos`, with 0
  for never, to `accepted_at`; the one count `can_invalid_cnt`, which is at least the silence
  of each message; a message never accepted has been silent for as long as counts.
- `InvalidHasCauseHolds`: also in-order, positive timestamps.  `CauseInv` adds that no message
  is newer than `last_nanos`, so that late and stale are the same and `can_invalid_cnt` is
  `late_streak`.
- `AllValuesFromThisCycleHolds`: in-order, positive timestamps.  From `CycleInv`, and that
  during a call `all_vals` is what the call accepted.
- `FaultsAbsorbedHolds`: `ChanSpec => [](BreaksAccounted /\ FaultsAbsorbed)` if the
  COUNTER is at most 8 bits wide.  `BreaksAccounted` is the inductive strengthening:
  it also counts the breaks still to come, between the last COUNTER received, the one
  on the wire and the next to be sent.  Finding 3 shows that the width is needed.
- `ChannelDrivesParser`: `ChanSpec => Spec`, so what is proved of the parser alone
  holds in the channel.
- `PyDrivesParser`: the same for the Python class, `PySpec => Spec`.
- `ReadyMeansPopulatedHolds`: the inductive invariant `PyInv` says that the first call sees
  no `CanData`, so that both timestamps are 0 and its query leaves no message out, and that
  no timestamp can be mistaken for `Unset`, a value of the model.
- `ViewIsCurrentHolds`: with ordered, positive timestamps.  The invariant adds
  `PendingThisCall` and that a message whose view is not current has a value still to be
  reported, or reported and still to be distributed.
- `ImplementsFeedHolds`: `PySpec => Feed!Spec`, with ordered, positive timestamps.  `FeedInv`:
  the values accepted and not delivered are, element by element, those in `all_vals`, or in
  the report while it is distributed (`WaitingHeld`), and `vals` and `last_seen_nanos` are the
  newest accepted entry (`NewestHeld`).  Accepting a frame is `Accept`, entering or refusing a
  call is `Clear`, the loop over `new_vals` is `HandOver`; all else stutters.
- `CacheTypeCorrect`, `SameDbcHolds`, `WrittenOnceHolds`: any threads, names, contents and file
  changes.  `CacheInv`: mutual exclusion; a thread about to parse holds the lock and there is
  still no entry; a thread that has returned has the entry the map still holds.
- `ReaderTypes` and `LookupsAgreeHolds`: every text and whatever lies beyond `be_bits`; no
  signal ends above a frame, and none below but an empty one or one whose `lsb` was read beyond
  `be_bits` (`AcceptedBounded`; finding 5 shows that the exceptions are needed).  `ReaderInv` adds `DistinctMessages`, that addresses (and names, if
  they must be) are distinct; that a set of positions has a last one, which
  `LastAt` and `LastNamed` choose, is the lemma `LastExists`, from the well-foundedness of `<`.
- `ReadsAsWrittenHolds` and `RefusesExactly`: every text.  `Messages`, `Signals`, `Values` and
  `WellFormed` look at a whole text; the invariant `ReadInv` says that what the reader holds is
  what they say of the lines so far (`PrefixRead`), and that no prefix it has read is ill formed.
  So it needs, for each kind of line, what one more line does to each of them: the lemmas of
  part 1 of `GeneratedDbcsProofs` (`BlockGrows`, `WrittenGrows` and the like), and that an ill-formed text
  cannot become well formed by more lines (`WellFormedShorter`).
- `GeneratorTypeCorrect`, `CurrentWhenComplete`, `NothingStaleWhenComplete`: any revisions, scripts,
  imports and number of interruptions.  `GenInv` follows the phases: while clearing, every
  output is still to be removed (`ClearInv`); while scripts run there is no output, and what
  those done have to write is whole and current (`ScriptsInv`); on the walk every file
  of the tree is still to come or has its output (`WalkInv`); the one being
  written is as far as its imports (`BufferInv`).
- `GeneratedGuarantees`: the above in the composition `AllSpec`, since a step of it is one of
  the generator, of the reader or of a client, and leaves the others as they are.
- `DictsSharedHolds`: any DBC that can be parsed, any request.  `ClientInv` adds that a client
  stands on a DBC that was parsed without duplicates of names; with `LookupsAgree` the two
  keys of a request lead to one message.
- `DefinitionsAsWrittenHolds`: any text.  It rests on `ReadsAsWritten`, and on what `Tokens`
  makes of a line without empty descriptions.
- `WritesItsBitsHolds`, `ReadsItsBitsHolds`, `CutMakesUpNothingHolds`, `ScalesBackHolds`: any
  width of the word, place, size, byte order, integer scaling, frame and value, and any
  outcome of the undefined shift.  `AccessInv` says that the frame is what `SetValue` made of
  the one before it.  The work is in the two loops: `SetInv` after m turns (m bytes are visited,
  the w lowest bits of the value are in their places and no other bit has changed), `GetInv`
  before byte j (what is above it has been read, shifted up to its place).  Both are stated
  with `Pos(s, k)`, the byte and the bit the code reaches for bit k; that this is the position
  the format means is `PlacedIs`, which for big endian signals is about `be_bits`.  `ScalesBack`
  then follows, since numbers with equal bits are equal (`BitsEqual`), sign extension undoes the
  wrapping of `pack` (`ExtendedIs`), and `Round` errs by half a factor (`RoundIs`).

- `ParsesBackHolds`, `CountsPerMessageHolds`, `ImplementsPackerHolds`: any messages, layouts
  without overlap, argument lists with unknown and repeated names, and order of calls; and
  any checksum that fits its CHECKSUM and does not depend on what is in it
  (`ChecksumsExcludeThemselves`).  Setting a signal leaves each disjoint one as it is and
  makes its own bits those of the value (`ReadsSet`, from the lemmas on bits), so after n turns
  of the loop each signal holds the last of the first n values given for it, or 0 (`FillInv`).
  COUNTER and CHECKSUM are then two more such writes (`FrameIs`), and the checksum of the
  finished frame is the one `pack` computed before it wrote it.  `PackInv` relates `counters`,
  which may be out of range after an explicit COUNTER, with the COUNTER that was last read from
  the bytes: they agree modulo its size.  Since `packs` changes with every `Pack`,
  `CountsPerMessage` is about every call, also one that returns the same frame again.  `ImplementsPackerHolds` maps each `Pack` to one of
  `CANPacker`, with a COUNTER among the signals as its override, and `PackUndefined` to its own.

- `MakesExcludeThemselves`, `OwnBitsExcludedHolds`: the eight checksums, over frames of any bytes
  and size.  Two frames that agree outside the positions a function does not read (`Unread`) drive
  its loops through the same registers (`LoopSame`).  So the hypothesis of the theorems above is
  true of the makes (`MakesPack`).
- `BitErrorsRejectedHolds`: any single bit, any make, size and place of the CHECKSUM.  By `SentInv`
  the last frame matches.  A flipped bit of the CHECKSUM changes what is compared, and not what is
  computed.  Any other bit changes the result: a sum modulo 256 by a power of two up to 128, the sum of
  honda modulo 16 by one up to 8; an exclusive or by that bit; a CRC because no step of it maps
  two registers, or two bytes, to one (`Lossless`), so that frames that differ in one byte never
  come together again.  The CRC of volkswagen is the hard case, since the COUNTER is read twice,
  as a byte of the payload and as the index of the padding byte: the two changes could cancel.
  `PadAssumption` says that they do not; for each length of the payload and bit of the COUNTER there
  is one number that the padding of two COUNTERs that differ in this bit must not differ by.  TLC evaluates it for the row
  and the length in `MCFrame`.  The other rows of `common.cc:131-186` satisfy it too, computed apart, with
  the sizes of their messages in `vw_mqb_2010.dbc` (8 bytes, 4 for `Klemmen_Status_01`).  It is a
  real condition: at other sizes (6 bytes for `ESP_21`, for one) some rows do not.
- `ChecksumsAreCrcsHolds`: frames of any length.  The register, as a function of its bits, is linear:
  feeding a byte bit by bit is adding it at the top and shifting eight times, which is what the tables
  hold for all bytes, and the branches of `chrysler_checksum` for one bit (0x1C is 0x1D with the
  last bit of `checksum | 1` already in it).

The five theorems on the makes have the hypothesis `ChecksumsOfMakes`, that the parameter `Checksum` is the
function of the message's make.  `frames.cfg` gives it as the value of `Checksum`, so it is true
there by substitution.  It is no `ASSUME` since it ranges over all frames, which TLC cannot enumerate.

The assumptions on constants (no two scripts write one file, no file is written by
hand and by a script, the model's own values are distinct, inputs have their types) are in
the modules that declare them, and TLC evaluates them.

Recursion.  What the model computes turn by turn or element by element is a recursive
function on an interval of numbers (`Kept` of `DbcText`, `SetTurns`, `GetTurns`, `Pow2`, `Loop`).  That
such a function exists, which `CHOOSE` in its definition asks for, is proved by building it
(`RunExists`, `UptoExists`).  Inductions are on *sets* of numbers (`UpTo`), from the
well-foundedness of `<` on them, because the induction theorems of the library take an
operator.  A property of a recursive function is then the statement that the set of numbers
up to which it holds contains 0 and each successor.

Each is laid out as: initial states, one step per action of the next-state relation,
and a temporal step.  Facts about `Min` and `%` are lemmas of their own.

Only model-checked: liveness (`LateIsNoticed`, `Recovers`, `KeepsDelivering`,
`LookupEnds`, `RerunRepairs`), which the prover cannot do under fairness, and what is about the
texts of this repository (`GeneratedAccepted`, `SignalsDisjoint`): a finite table of lines, with
nothing in it that varies, of which the run looks at every one.  `STEERING_LKA` (above) is a layout
that does not satisfy `MakesAssumption`.  Also outside the theorems: `UnsignedNotNegative`,
which is finding 4, and `AcceptedInFrame`, which is finding 5.

## 5. Not modelled

- The build (`SConstruct`, `site_scons/site_tools/cython.py`), import shims (`can/parser.py`,
  `can/packer.py`, `can/can_define.py`), declarations and logging: they hold no state and make no
  decision of the program.
- `get_dbc_names`, which lists a directory, and `get_dbc_root_path`, which chooses one.
- The regular expressions of `dbc.cc` and the conversions of numbers in text; a
  line has the kind and the numbers its author meant, or is `Bad`.  Sign, factor and
  offset, which the codec takes as given.
- Most hand-written DBC files, which are data.  The generator's model takes those of one
  directory as an example; what it proves holds for any.
- Two generators at once, sources of the same name in two directories, a script that
  survives its parent.
- In the constructor of the packer, an unknown DBC; an unknown *name* makes
  `packer_pyx.pyx:48` pack address 0, of which `CANPacker` has the case that it is not in the DBC.

## 6. Plan

The order followed the importance of the behaviour: when a value is believed
(`CANParser`, `ParserMonitor`), how it is handed over (`CANParserPyx`), what packer and
parser do to each other (`CANPacker`, `CounterChannel`), what threads share
(`DbcCache`), how values become bytes (`SignalCodec`, `Checksums`, `PackedFrame`), where the
DBCs come from and how they are read (`DbcGenerator`, `RadarScripts`, `ChryslerDbcs`, `DbcReader`,
`DbcClients`, `GeneratedDbcs`).  What is left:

1. `TrackAll` and the flags in a configuration of `validity`.
2. A generator whose directories share file names, once the code says which should win.
