----------------------------- MODULE DbcClients ------------------------------
(***************************************************************************)
(* The Python classes of opendbc/can/parser_pyx.pyx that are built from a  *)
(* parsed DBC: CANDefine, and the constructor of CANParser together with   *)
(* that of the C++ parser (parser.cc).  A key is <<"address", a>> or       *)
(* <<"name", n>>.  dbc_lookup never allows duplicate names.                *)
(***************************************************************************)
EXTENDS DbcReader

CONSTANT Requests    \* sequences of keys a CANParser may be asked for

Keys == ({"address"} \X Nat) \cup ({"name"} \X Names)

ASSUME RequestsAssumption == Requests \subseteq Seq(Keys)

VARIABLE client

clientVars == <<readerVars, client>>

NoClient == [kind |-> "none"]
Raised(class) == [kind |-> "raised", class |-> class]

ClientInit == client = NoClient

Ready == state = "parsed" /\ ~allow_duplicate_msg_name /\ client = NoClient
-----------------------------------------------------------------------------
\* addr_to_msg.at, name_to_msg.at
Found(key) == \/ key[1] = "address" /\ key[2] \in DOMAIN addr_to_msg
              \/ key[1] = "name" /\ key[2] \in DOMAIN name_to_msg

MsgOf(key) == msgs[IF key[1] = "address" THEN addr_to_msg[key[2]] ELSE name_to_msg[key[2]]]

KeysOf(m) == {<<"address", m.address>>, <<"name", m.name>>}
-----------------------------------------------------------------------------
(* CANDefine.__init__ *)

\* def_val[::2] and def_val[1::2]; int() takes a value, no description.
ValuesOf(def_val) == [i \in 1 .. (Len(def_val) + 1) \div 2 |-> def_val[2 * i - 1]]
DefsOf(def_val)   == [i \in 1 .. Len(def_val) \div 2 |-> def_val[2 * i]]

Converts(def_val) == \A i \in DOMAIN ValuesOf(def_val) : ValuesOf(def_val)[i][1] = "value"

\* dict(zip(values, defs)): a value given twice keeps its last description.
Dict(def_val) ==
    LET values == ValuesOf(def_val)
        defs   == DefsOf(def_val)
        Last(v) == CHOOSE i \in DOMAIN defs :
                      values[i][2] = v /\ \A j \in DOMAIN defs : values[j][2] = v => j <= i
    IN [v \in {values[i][2] : i \in DOMAIN defs} |-> defs[Last(v)]]

\* The last VAL_ line of a signal.
LastVal(a, n) ==
    CHOOSE i \in DOMAIN vals :
        /\ vals[i].address = a /\ vals[i].name = n
        /\ \A j \in DOMAIN vals : vals[j].address = a /\ vals[j].name = n => j <= i

SignalsDefined(a) == {vals[i].name : i \in {j \in DOMAIN vals : vals[j].address = a}}

\* Mutant: each VAL_ line begins a new dict for its message.
DvOfLast(a) ==
    LET i == CHOOSE i \in DOMAIN vals :
                vals[i].address = a /\ \A j \in DOMAIN vals : vals[j].address = a => j <= i
    IN [n \in {vals[i].name} |-> Dict(vals[i].def_val)]

DvOf(a) == [n \in SignalsDefined(a) |-> Dict(vals[LastVal(a, n)].def_val)]

DvKeys == UNION {KeysOf(MsgOf(<<"address", vals[i].address>>)) : i \in DOMAIN vals}

Define ==
    /\ Ready
    /\ client' =
         IF \A i \in DOMAIN vals :
               Found(<<"address", vals[i].address>>) /\ Converts(vals[i].def_val)
         THEN [kind |-> "define", dv |-> [key \in DvKeys |-> DvOf(MsgOf(key).address)]]
         ELSE Raised("CANDefine")
    /\ UNCHANGED readerVars
-----------------------------------------------------------------------------
(* CANParser.__init__ *)

\* Mutant: the C++ constructor takes any list of messages.
AnyList(addresses) == FALSE

\* "Duplicate Message Check" of the C++ constructor.
DuplicateCheck(addresses) ==
    \E i, j \in DOMAIN addresses : i # j /\ addresses[i] = addresses[j]

Addresses(request) == [i \in DOMAIN request |-> MsgOf(request[i]).address]

\* Its assertion, that a frame has at most 64 bytes, fails in the turn of a
\* message before any turn has met a duplicate.
Oversized(request) ==
    \E i \in DOMAIN request :
        /\ MsgOf(request[i]).size > 64
        /\ ~DuplicateCheck(SubSeq(Addresses(request), 1, i))

\* vl, and vl_all and ts_nanos likewise: the i-th message gets a new dict,
\* which is stored under its address and under its name.
Vl(request) ==
    LET keys(i) == KeysOf(MsgOf(request[i]))
    IN [key \in UNION {keys(i) : i \in DOMAIN request} |->
           CHOOSE i \in DOMAIN request :
              key \in keys(i) /\ \A j \in DOMAIN request : key \in keys(j) => j <= i]

\* The names are looked up in Python, before the C++ constructor runs.
Construct(request) ==
    /\ Ready
    /\ client' =
         IF \E i \in DOMAIN request : ~Found(request[i]) THEN Raised("CANParser")
         ELSE IF Oversized(request) THEN [kind |-> "aborted"]
         ELSE IF DuplicateCheck(Addresses(request)) THEN Raised("CANParser")
         ELSE [kind |-> "parser", addresses |-> Addresses(request), vl |-> Vl(request)]
    /\ UNCHANGED readerVars

\* The client is dropped, the DBC stays.
Drop ==
    /\ client # NoClient
    /\ client' = NoClient
    /\ UNCHANGED readerVars

ClientNext == Define \/ (\E request \in Requests : Construct(request)) \/ Drop
-----------------------------------------------------------------------------
(***************************************************************************)
(* update_strings writes through vl[address] what clients read through     *)
(* vl[name]: in a CANParser that was built the two keys of a message lead  *)
(* to one dict, and no two of its messages share one.  The dicts are made  *)
(* in Python before the C++ constructor refuses a message that is asked    *)
(* for twice, once by address and once by name.                            *)
(***************************************************************************)
DictsShared ==
    client.kind = "parser" =>
        \A i \in DOMAIN client.addresses :
            LET m == MsgOf(<<"address", client.addresses[i]>>)
            IN \A key \in KeysOf(m) : client.vl[key] = i

\* The VAL_ lines that no later line of the same signal replaces.
FinalVals ==
    LET values == OfKind(stream, "VAL")
    IN {values[i] : i \in {i \in DOMAIN values :
           ~\E j \in DOMAIN values : /\ j > i
                                     /\ values[j].address = values[i].address
                                     /\ values[j].name = values[i].name}}

Complete(defs) == \A i \in DOMAIN defs : defs[i][2] # NoText

(***************************************************************************)
(* CANDefine shows the definitions that are written: each value of a VAL_  *)
(* line with its own description, under the address and under the name of  *)
(* the message.  It fails only when a line is about an unknown message or  *)
(* has an empty description, which the reader drops so that the pairs are  *)
(* off by one; such a line is not covered.                                 *)
(***************************************************************************)
DefinitionsAsWritten ==
    /\ client.kind = "define" =>
         \A l \in {v \in FinalVals : Complete(v.defs)} :
            \A key \in KeysOf(MsgOf(<<"address", l.address>>)) :
                LET dict == client.dv[key][l.name] IN
                /\ key \in DOMAIN client.dv /\ l.name \in DOMAIN client.dv[key]
                /\ DOMAIN dict = {l.defs[i][1] : i \in DOMAIN l.defs}
                /\ \A i \in DOMAIN l.defs :
                      \/ dict[l.defs[i][1]] = l.defs[i][2]
                      \/ \E j \in DOMAIN l.defs : j > i /\ l.defs[j][1] = l.defs[i][1]
    /\ client = Raised("CANDefine") =>
         \E i \in DOMAIN stream :
            /\ stream[i].kind = "VAL"
            /\ \/ stream[i].address \notin address_set
               \/ ~Complete(stream[i].defs)
=============================================================================
