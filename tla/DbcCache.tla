------------------------------ MODULE DbcCache -------------------------------
(***************************************************************************)
(* dbc_lookup of opendbc/can/dbc.cc: a process-wide cache of parsed DBCs,  *)
(* keyed by name and guarded by a mutex.  A name is first tried as a path, *)
(* outside the lock; if no such file exists it is looked up below the DBC  *)
(* root.  The file system is external and may change at any moment.        *)
(***************************************************************************)
EXTENDS Integers

CONSTANTS Threads, Names,
          Contents,   \* contents of files that parse
          Absent,     \* no such file
          Malformed,  \* a file dbc_parse throws on
          NoThread, NoEntry, NoPath,
          MaxWrites   \* bound on changes of the file system

ASSUME DistinctAssumption ==
    /\ NoThread \notin Threads
    /\ Malformed \notin Contents /\ Malformed # Absent /\ Absent \notin Contents
    /\ NoEntry \notin [content : Contents \cup {Absent}, serial : Nat]

ASSUME WritesAssumption == MaxWrites \in Nat

\* The two places a name may stand for.
Places == {"path", "root"}

VARIABLES files,    \* what each place of each name holds
          writes,   \* changes of the file system so far
          parses,   \* DBC objects created so far
          dbcs,     \* the static map: a parsed DBC, NullDbc or NoEntry
          lock,     \* holder of the mutex
          pc, name, dbc_file_path, result   \* of each thread's call

cacheVars  == <<parses, dbcs, lock>>
threadVars == <<pc, name, dbc_file_path, result>>
vars       == <<files, writes, cacheVars, threadVars>>

\* dbc_parse returns a null pointer when the file cannot be opened, else a new
\* DBC object; serial stands for its address.
NullDbc        == [content |-> Absent, serial |-> 0]
Dbc(c, serial) == [content |-> c, serial |-> serial]
Parsed(c)      == IF c = Absent THEN NullDbc ELSE Dbc(c, parses + 1)

Init ==
    /\ files \in [Names -> [Places -> Contents \cup {Absent, Malformed}]]
    /\ writes = 0
    /\ parses = 0
    /\ dbcs = [n \in Names |-> NoEntry]
    /\ lock = NoThread
    /\ pc = [t \in Threads |-> "idle"]
    /\ name \in [Threads -> Names]
    /\ dbc_file_path = [t \in Threads |-> NoPath]
    /\ result = [t \in Threads |-> NoEntry]
-----------------------------------------------------------------------------
Call(t, n) ==
    /\ pc[t] = "idle"
    /\ pc' = [pc EXCEPT ![t] = "resolve"]
    /\ name' = [name EXCEPT ![t] = n]
    /\ dbc_file_path' = [dbc_file_path EXCEPT ![t] = NoPath]
    /\ result' = [result EXCEPT ![t] = NoEntry]
    /\ UNCHANGED <<files, writes, cacheVars>>

\* std::filesystem::exists, outside the lock.
Resolve(t) ==
    /\ pc[t] = "resolve"
    /\ pc' = [pc EXCEPT ![t] = "lock"]
    /\ dbc_file_path' = [dbc_file_path EXCEPT ![t] =
                            IF files[name[t]]["path"] # Absent THEN "path" ELSE "root"]
    /\ UNCHANGED <<files, writes, cacheVars, name, result>>

\* Mutant: nothing is locked.
LockNothing(t) ==
    /\ pc[t] = "lock"
    /\ lock' = t
    /\ pc' = [pc EXCEPT ![t] = IF dbcs[name[t]] = NoEntry THEN "parse" ELSE "return"]
    /\ UNCHANGED <<files, writes, parses, dbcs, name, dbc_file_path, result>>

Lock(t) ==
    /\ pc[t] = "lock"
    /\ lock = NoThread
    /\ lock' = t
    /\ pc' = [pc EXCEPT ![t] = IF dbcs[name[t]] = NoEntry THEN "parse" ELSE "return"]
    /\ UNCHANGED <<files, writes, parses, dbcs, name, dbc_file_path, result>>

\* Mutants: the lock is not released when dbc_parse throws; the entry is made
\* before the parse has succeeded.
ParseKeepsLock(t) ==
    LET content == files[name[t]][dbc_file_path[t]] IN
    /\ pc[t] = "parse"
    /\ IF content = Malformed
       THEN /\ pc' = [pc EXCEPT ![t] = "threw"]
            /\ UNCHANGED cacheVars
       ELSE /\ pc' = [pc EXCEPT ![t] = "return"]
            /\ dbcs' = [dbcs EXCEPT ![name[t]] = Parsed(content)]
            /\ parses' = IF content = Absent THEN parses ELSE parses + 1
            /\ UNCHANGED lock
    /\ UNCHANGED <<files, writes, name, dbc_file_path, result>>

ParseInsertsFirst(t) ==
    LET content == files[name[t]][dbc_file_path[t]] IN
    /\ pc[t] = "parse"
    /\ pc' = [pc EXCEPT ![t] = IF content = Malformed THEN "threw" ELSE "return"]
    /\ lock' = IF content = Malformed THEN NoThread ELSE lock
    /\ dbcs' = [dbcs EXCEPT ![name[t]] = Parsed(content)]
    /\ parses' = IF content = Absent THEN parses ELSE parses + 1
    /\ UNCHANGED <<files, writes, name, dbc_file_path, result>>

\* dbc_parse and the insertion.  An exception leaves through the unique_lock:
\* the mutex is released and the map is as it was.
Parse(t) ==
    LET content == files[name[t]][dbc_file_path[t]] IN
    /\ pc[t] = "parse"
    /\ IF content = Malformed
       THEN /\ pc' = [pc EXCEPT ![t] = "threw"]
            /\ lock' = NoThread
            /\ UNCHANGED <<parses, dbcs>>
       ELSE /\ pc' = [pc EXCEPT ![t] = "return"]
            /\ dbcs' = [dbcs EXCEPT ![name[t]] = Parsed(content)]
            /\ parses' = IF content = Absent THEN parses ELSE parses + 1
            /\ UNCHANGED lock
    /\ UNCHANGED <<files, writes, name, dbc_file_path, result>>

Return(t) ==
    /\ pc[t] = "return"
    /\ pc' = [pc EXCEPT ![t] = "returned"]
    /\ result' = [result EXCEPT ![t] = dbcs[name[t]]]
    /\ lock' = NoThread
    /\ UNCHANGED <<files, writes, parses, dbcs, name, dbc_file_path>>

\* The caller goes on and may call again.
Again(t) ==
    /\ pc[t] \in {"returned", "threw"}
    /\ pc' = [pc EXCEPT ![t] = "idle"]
    /\ UNCHANGED <<files, writes, cacheVars, name, dbc_file_path, result>>

\* Another program writes, breaks or removes a file.
ChangeFile(n, place, content) ==
    /\ writes < MaxWrites
    /\ files[n][place] # content
    /\ files' = [files EXCEPT ![n][place] = content]
    /\ writes' = writes + 1
    /\ UNCHANGED <<cacheVars, threadVars>>

Step(t) == Resolve(t) \/ Lock(t) \/ Parse(t) \/ Return(t)

Next ==
    \/ \E t \in Threads, n \in Names : Call(t, n)
    \/ \E t \in Threads : Step(t) \/ Again(t)
    \/ \E n \in Names, place \in Places, content \in Contents \cup {Absent, Malformed} :
          ChangeFile(n, place, content)

Spec == Init /\ [][Next]_vars

\* A thread inside dbc_lookup keeps running, and the mutex does not starve it.
FairSpec ==
    /\ Spec
    /\ \A t \in Threads :
          /\ WF_vars(Resolve(t)) /\ SF_vars(Lock(t))
          /\ WF_vars(Parse(t)) /\ WF_vars(Return(t))
-----------------------------------------------------------------------------
DbcPointers ==
    {NoEntry, NullDbc} \cup [content : Contents, serial : Nat \ {0}]

TypeOK ==
    /\ parses \in Nat
    /\ files \in [Names -> [Places -> Contents \cup {Absent, Malformed}]]
    /\ writes \in 0 .. MaxWrites
    /\ dbcs \in [Names -> DbcPointers]
    /\ lock \in Threads \cup {NoThread}
    /\ pc \in [Threads -> {"idle", "resolve", "lock", "parse", "return", "returned", "threw"}]
    /\ name \in [Threads -> Names]
    /\ dbc_file_path \in [Threads -> Places \cup {NoPath}]
    /\ result \in [Threads -> DbcPointers]

(***************************************************************************)
(* All lookups of a name, by any thread and at any time, return the same   *)
(* DBC object: parsers and packers of one car never disagree on its        *)
(* messages even if the file changes underneath.                           *)
(***************************************************************************)
SameDbc ==
    \A s, t \in Threads :
        pc[s] = "returned" /\ pc[t] = "returned" /\ name[s] = name[t] => result[s] = result[t]

(***************************************************************************)
(* An entry of the map is written once.  The raw pointers handed out stay  *)
(* valid because nothing replaces or erases it.                            *)
(***************************************************************************)
WrittenOnce ==
    [][\A n \in Names : dbcs[n] # NoEntry => dbcs'[n] = dbcs[n]]_vars

\* Only the holder of the mutex is between the find and the unlock.
MutualExclusion ==
    \A t \in Threads : pc[t] \in {"parse", "return"} => lock = t

(***************************************************************************)
(* Every lookup ends, also after another thread's parse threw.             *)
(***************************************************************************)
LookupEnds ==
    \A t \in Threads : pc[t] = "resolve" ~> pc[t] \in {"returned", "threw"}
=============================================================================
