--------------------------- MODULE DbcCacheProofs ----------------------------
(***************************************************************************)
(* dbc_lookup for any number of threads, any names and contents, and a     *)
(* file system that changes at any moment.                                 *)
(***************************************************************************)
EXTENDS DbcCache, TLAPS

\* A thread that has resolved its name knows which file it is.
PathInv == \A t \in Threads :
              pc[t] \in {"lock", "parse", "return"} => dbc_file_path[t] \in Places

\* What the holder of the mutex found stays true until it lets go.
EntryInv == \A t \in Threads : /\ pc[t] = "parse" => dbcs[name[t]] = NoEntry
                               /\ pc[t] = "return" => dbcs[name[t]] # NoEntry

\* A thread that has returned holds the entry the map still has.
ResultInv == \A t \in Threads :
                pc[t] = "returned" => result[t] = dbcs[name[t]] /\ result[t] # NoEntry

CacheInv == TypeOK /\ MutualExclusion /\ PathInv /\ EntryInv /\ ResultInv
-----------------------------------------------------------------------------
LEMMA ParsedType ==
    ASSUME TypeOK, NEW c \in Contents \cup {Absent}
    PROVE  Parsed(c) \in DbcPointers /\ Parsed(c) # NoEntry
<1>1. Parsed(c) \in [content : Contents \cup {Absent}, serial : Nat]
  BY DEF Parsed, NullDbc, Dbc, TypeOK
<1>2. c \in Contents => Parsed(c) \in [content : Contents, serial : Nat \ {0}]
  BY DistinctAssumption DEF Parsed, Dbc, TypeOK
<1>3. c = Absent => Parsed(c) = NullDbc
  BY DEF Parsed
<1>. QED  BY <1>1, <1>2, <1>3, DistinctAssumption DEF DbcPointers

\* What dbc_parse finds at the place that was resolved.
LEMMA ContentType ==
    ASSUME TypeOK, PathInv, NEW t \in Threads, pc[t] = "parse"
    PROVE  files[name[t]][dbc_file_path[t]] \in Contents \cup {Absent, Malformed}
BY DEF TypeOK, PathInv

LEMMA CacheInit == Init => CacheInv
BY WritesAssumption DEF Init, CacheInv, TypeOK, MutualExclusion, PathInv, EntryInv, ResultInv, DbcPointers

\* The steps that leave the map and the mutex alone.
LEMMA CallStep ==
    ASSUME CacheInv, NEW t \in Threads, NEW n \in Names, Call(t, n)
    PROVE  CacheInv'
BY DEF CacheInv, Call, TypeOK, MutualExclusion, PathInv, EntryInv, ResultInv, DbcPointers,
       cacheVars

LEMMA ResolveStep ==
    ASSUME CacheInv, NEW t \in Threads, Resolve(t)
    PROVE  CacheInv'
BY DEF CacheInv, Resolve, TypeOK, MutualExclusion, PathInv, EntryInv, ResultInv, cacheVars, Places

LEMMA AgainStep ==
    ASSUME CacheInv, NEW t \in Threads, Again(t)
    PROVE  CacheInv'
BY DEF CacheInv, Again, TypeOK, MutualExclusion, PathInv, EntryInv, ResultInv, cacheVars

LEMMA ChangeFileStep ==
    ASSUME CacheInv, NEW n \in Names, NEW place \in Places,
           NEW content \in Contents \cup {Absent, Malformed}, ChangeFile(n, place, content)
    PROVE  CacheInv'
BY WritesAssumption DEF CacheInv, ChangeFile, TypeOK, MutualExclusion, PathInv, EntryInv,
       ResultInv, cacheVars, threadVars

LEMMA LockStep ==
    ASSUME CacheInv, NEW t \in Threads, Lock(t)
    PROVE  CacheInv'
BY DistinctAssumption DEF CacheInv, Lock, TypeOK, MutualExclusion, PathInv, EntryInv, ResultInv

LEMMA ReturnStep ==
    ASSUME CacheInv, NEW t \in Threads, Return(t)
    PROVE  CacheInv'
BY DEF CacheInv, Return, TypeOK, MutualExclusion, PathInv, EntryInv, ResultInv

\* The holder of the mutex is the only one to insert, and it inserts where
\* nothing is.
LEMMA ParseStep ==
    ASSUME CacheInv, NEW t \in Threads, Parse(t)
    PROVE  CacheInv'
<1>. DEFINE content == files[name[t]][dbc_file_path[t]]
<1>1. content \in Contents \cup {Absent, Malformed} /\ name[t] \in Names /\ lock = t
  BY ContentType DEF Parse, CacheInv, TypeOK, MutualExclusion
<1>2. \A s \in Threads : s # t => pc[s] \notin {"parse", "return"}
  BY <1>1 DEF CacheInv, MutualExclusion
<1>3. CASE content = Malformed
  BY <1>1, <1>3 DEF Parse, CacheInv, TypeOK, MutualExclusion, PathInv, EntryInv, ResultInv
<1>4. CASE content # Malformed
  <2>1. Parsed(content) \in DbcPointers /\ Parsed(content) # NoEntry
    BY <1>1, <1>4, ParsedType DEF CacheInv
  <2>2. /\ pc' = [pc EXCEPT ![t] = "return"] /\ lock' = lock
        /\ dbcs' = [dbcs EXCEPT ![name[t]] = Parsed(content)]
        /\ parses' \in Nat
        /\ UNCHANGED <<files, writes, name, dbc_file_path, result>>
    BY <1>4 DEF Parse, CacheInv, TypeOK
  <2>3. TypeOK'
    BY <2>1, <2>2 DEF CacheInv, TypeOK
  <2>4. dbcs[name[t]] = NoEntry
    BY DEF Parse, CacheInv, EntryInv
  <2>5. ResultInv'
    BY <1>1, <2>2, <2>4 DEF CacheInv, ResultInv, TypeOK
  <2>6. MutualExclusion' /\ PathInv'
    BY <2>2 DEF Parse, CacheInv, MutualExclusion, PathInv, TypeOK
  <2>7. EntryInv'
    BY <1>1, <1>2, <2>1, <2>2 DEF CacheInv, EntryInv, TypeOK
  <2>. QED  BY <2>3, <2>5, <2>6, <2>7 DEF CacheInv
<1>. QED  BY <1>3, <1>4

LEMMA CacheStep == CacheInv /\ [Next]_vars => CacheInv'
<1>. SUFFICES ASSUME CacheInv, [Next]_vars
              PROVE  CacheInv'
  OBVIOUS
<1>1. CASE UNCHANGED vars
  BY <1>1 DEF vars, cacheVars, threadVars, CacheInv, TypeOK, MutualExclusion, PathInv, EntryInv,
         ResultInv
<1>. QED
  BY <1>1, CallStep, ResolveStep, AgainStep, ChangeFileStep, LockStep, ReturnStep, ParseStep
  DEF Next, Step

(***************************************************************************)
(* dbc_lookup under its lock: CacheInv relates the cache, the holder of    *)
(* the lock and what each thread will return.                              *)
(***************************************************************************)
THEOREM CacheInvariant == Spec => []CacheInv
BY CacheInit, CacheStep, PTL DEF Spec
-----------------------------------------------------------------------------
(***************************************************************************)
(* The state of the cache and of every call in progress.                   *)
(***************************************************************************)
THEOREM CacheTypeCorrect == Spec => []TypeOK
<1>1. CacheInv => TypeOK
  BY DEF CacheInv
<1>. QED  BY <1>1, CacheInvariant, PTL

(***************************************************************************)
(* All lookups of one name return the same DBC object.                     *)
(***************************************************************************)
THEOREM SameDbcHolds == Spec => []SameDbc
<1>1. CacheInv => SameDbc
  BY DEF CacheInv, ResultInv, SameDbc
<1>. QED  BY <1>1, CacheInvariant, PTL

(***************************************************************************)
(* An entry is written once: no step replaces or erases a DBC.             *)
(***************************************************************************)
THEOREM WrittenOnceHolds == Spec => WrittenOnce
<1>1. CacheInv /\ [Next]_vars => [\A n \in Names : dbcs[n] # NoEntry => dbcs'[n] = dbcs[n]]_vars
  <2>. SUFFICES ASSUME CacheInv, Next, NEW n \in Names, dbcs[n] # NoEntry
                PROVE  dbcs'[n] = dbcs[n]
    OBVIOUS
  <2>1. ASSUME NEW t \in Threads, Parse(t)
        PROVE  dbcs'[n] = dbcs[n]
    <3>1. n # name[t]
      BY <2>1 DEF Parse, CacheInv, EntryInv
    <3>. QED  BY <2>1, <3>1 DEF Parse, CacheInv, TypeOK
  <2>2. CASE UNCHANGED dbcs
    BY <2>2
  <2>. QED
    BY <2>1, <2>2 DEF Next, Step, Call, Resolve, Again, ChangeFile, Lock, Return, cacheVars
<1>. QED  BY <1>1, CacheInvariant, PTL DEF Spec, WrittenOnce
=============================================================================
