---------------------------- MODULE DbcGenerator -----------------------------
(***************************************************************************)
(* opendbc/dbc/generator/generator.py: create_all, which clears the old    *)
(* outputs, runs the generator scripts and then create_dbc on every DBC    *)
(* it walks over, each of which imports others.                            *)
(*                                                                         *)
(*   idle --Start--> clearing --> scripts --> walking --> done             *)
(*                        `----------`-----------`--> failed, killed       *)
(*                                                                         *)
(* A source file is hand-written and belongs to a revision of the          *)
(* repository, or is left in the tree by a script, where it is ignored by  *)
(* git and stays until it is written again.  A chunk stands for the text   *)
(* of a source file; what create_dbc writes is a sequence of chunks.       *)
(* Outputs are named after their source file (names are distinct).         *)
(***************************************************************************)
EXTENDS Integers, Sequences

CONSTANTS Revisions, Files, ScriptNames,
          Handwritten,   \* the DBCs of each revision
          Scripts,       \* the scripts of each revision
          Failing,       \* pairs <<revision, script>>: it exits with an error
          Outputs,       \* the files a script writes, in order
          Imports,       \* the IMPORT lines of each file
          Private,       \* files whose name begins with an underscore
          None,          \* no script, no file
          MaxKills, MaxEdits   \* bounds on interruptions and changes of revision

ScriptOutputs(s) == {Outputs[s][i] : i \in DOMAIN Outputs[s]}

ASSUME SourcesAssumption ==
    /\ Handwritten \in [Revisions -> SUBSET Files]
    /\ Scripts \in [Revisions -> SUBSET ScriptNames]
    /\ Outputs \in [ScriptNames -> Seq(Files)]
    /\ Imports \in [Files -> Seq(Files)]
    /\ None \notin Files \cup ScriptNames

\* No file is written by two scripts, twice by one, or by hand as well.
ASSUME OutputsAssumption ==
    /\ \A s \in ScriptNames : Outputs[s] # << >>
    /\ \A s, t \in ScriptNames : \A i \in DOMAIN Outputs[s], j \in DOMAIN Outputs[t] :
          Outputs[s][i] = Outputs[t][j] => s = t /\ i = j
    /\ \A r \in Revisions, s \in ScriptNames : ScriptOutputs(s) \cap Handwritten[r] = {}

ASSUME BoundsAssumption == MaxKills \in Nat /\ MaxEdits \in Nat

VARIABLES rev,      \* the revision that is checked out
          made,     \* the files scripts left in the tree, with their content
          out,      \* the generated DBCs in the output directory
          pc,
          pending,  \* what the current loop of create_all still has to visit
          job, at,  \* the script or file it is at, and how far that is
          opened,   \* the script has truncated its output
          buffer,   \* what create_dbc has written
          kills, edits

jobVars == <<job, at, opened, buffer>>
genVars == <<rev, made, out, pc, pending, jobVars, kills, edits>>

NoFiles == [f \in {} |-> << >>]

Chunk(f, r, whole) == [file |-> f, rev |-> r, whole |-> whole]
Torn(c)            == [c EXCEPT !.whole = FALSE]

\* The source files in the tree; read_dbc.
Tree       == Handwritten[rev] \cup DOMAIN made
Content(f) == IF f \in Handwritten[rev] THEN Chunk(f, rev, TRUE) ELSE made[f]

Set(g, f, x) == [h \in DOMAIN g \cup {f} |-> IF h = f THEN x ELSE g[h]]
Without(g, f) == [h \in DOMAIN g \ {f} |-> g[h]]

\* Mutant: the next file is appended to what was written for this one.
NoJobKeepsBuffer == job' = None /\ at' = 1 /\ opened' = FALSE /\ UNCHANGED buffer

NoJob == job' = None /\ at' = 1 /\ opened' = FALSE /\ buffer' = << >>

GenInit ==
    /\ rev \in Revisions
    /\ made = NoFiles
    /\ out = NoFiles
    /\ pc = "idle"
    /\ pending = {}
    /\ job = None
    /\ at = 1
    /\ opened = FALSE
    /\ buffer = << >>
    /\ kills = 0
    /\ edits = 0
-----------------------------------------------------------------------------
Running == pc \in {"clearing", "scripts", "walking"}

\* Mutant: nothing is cleared.
StartKeepsOld ==
    /\ ~Running
    /\ pc' = "clearing"
    /\ pending' = {}
    /\ UNCHANGED <<rev, made, out, jobVars, kills, edits>>

\* glob.glob(f"{output_path}/*{generated_suffix}")
Start ==
    /\ ~Running
    /\ pc' = "clearing"
    /\ pending' = DOMAIN out
    /\ UNCHANGED <<rev, made, out, jobVars, kills, edits>>

\* os.remove
Remove(f) ==
    /\ pc = "clearing"
    /\ f \in pending
    /\ out' = Without(out, f)
    /\ pending' = pending \ {f}
    /\ UNCHANGED <<rev, made, pc, jobVars, kills, edits>>

\* Mutant: the walk goes first.
WalkFirst ==
    /\ pc = "clearing"
    /\ pending = {}
    /\ pc' = "walking"
    /\ pending' = Tree \ Private
    /\ UNCHANGED <<rev, made, out, jobVars, kills, edits>>

\* glob.glob(f"{generator_path}/*/*.py")
GlobScripts ==
    /\ pc = "clearing"
    /\ pending = {}
    /\ pc' = "scripts"
    /\ pending' = Scripts[rev]
    /\ UNCHANGED <<rev, made, out, jobVars, kills, edits>>

\* subprocess.check_call
CallScript(s) ==
    /\ pc = "scripts"
    /\ job = None
    /\ s \in pending
    /\ job' = s
    /\ UNCHANGED <<rev, made, out, pc, pending, at, opened, buffer, kills, edits>>

\* Mutant: mode "x", with which a script fails when its output exists.
OpenNewOutput ==
    /\ pc = "scripts" /\ job # None /\ ~opened
    /\ IF Outputs[job][at] \in DOMAIN made
       THEN pc' = "failed" /\ pending' = {} /\ NoJob /\ UNCHANGED made
       ELSE /\ made' = Set(made, Outputs[job][at], Chunk(Outputs[job][at], rev, FALSE))
            /\ opened' = TRUE
            /\ UNCHANGED <<pc, pending, job, at, buffer>>
    /\ UNCHANGED <<rev, out, kills, edits>>

\* A script opens its output for writing, which empties it.
OpenOutput ==
    /\ pc = "scripts" /\ job # None /\ ~opened
    /\ made' = Set(made, Outputs[job][at], Chunk(Outputs[job][at], rev, FALSE))
    /\ opened' = TRUE
    /\ UNCHANGED <<rev, out, pc, pending, job, at, buffer, kills, edits>>

\* It writes the text and closes it; after the last one it exits, unless it
\* is one that fails.
WriteOutput ==
    /\ pc = "scripts" /\ job # None /\ opened
    /\ made' = Set(made, Outputs[job][at], Chunk(Outputs[job][at], rev, TRUE))
    /\ IF at < Len(Outputs[job])
       THEN at' = at + 1 /\ opened' = FALSE /\ UNCHANGED <<pending, job, buffer>>
       ELSE /\ <<rev, job>> \notin Failing
            /\ pending' = pending \ {job}
            /\ NoJob
    /\ UNCHANGED <<rev, out, pc, kills, edits>>

\* An assertion in the script, before or after the text was written.
ScriptFails ==
    /\ pc = "scripts" /\ job # None /\ opened
    /\ <<rev, job>> \in Failing
    /\ \E whole \in BOOLEAN :
          made' = Set(made, Outputs[job][at], Chunk(Outputs[job][at], rev, whole))
    /\ pc' = "failed"
    /\ pending' = {}
    /\ NoJob
    /\ UNCHANGED <<rev, out, kills, edits>>

\* os.walk: every file that is not private, hand-written or not.
Walk ==
    /\ pc = "scripts"
    /\ job = None
    /\ pending = {}
    /\ pc' = "walking"
    /\ pending' = Tree \ Private
    /\ UNCHANGED <<rev, made, out, jobVars, kills, edits>>
-----------------------------------------------------------------------------
(* create_dbc *)

CreateDbc(f) ==
    /\ pc = "walking"
    /\ job = None
    /\ f \in pending
    /\ job' = f
    /\ out' = Set(out, f, << >>)
    /\ UNCHANGED <<rev, made, pc, pending, at, opened, buffer, kills, edits>>

Including == pc = "walking" /\ job # None /\ at <= Len(Imports[job])

Include ==
    /\ Including
    /\ Imports[job][at] \in Tree
    /\ buffer' = Append(buffer, Content(Imports[job][at]))
    /\ at' = at + 1
    /\ UNCHANGED <<rev, made, out, pc, pending, job, opened, kills, edits>>

\* read_dbc raises FileNotFoundError; what was written so far is flushed.
IncludeMissing ==
    /\ Including
    /\ Imports[job][at] \notin Tree
    /\ out' = Set(out, job, buffer)
    /\ pc' = "failed"
    /\ pending' = {}
    /\ NoJob
    /\ UNCHANGED <<rev, made, kills, edits>>

AtCore == pc = "walking" /\ job # None /\ at > Len(Imports[job])

WriteCore ==
    /\ AtCore
    /\ out' = Set(out, job, Append(buffer, Content(job)))
    /\ pending' = pending \ {job}
    /\ NoJob
    /\ UNCHANGED <<rev, made, pc, kills, edits>>

End ==
    /\ pc = "walking"
    /\ job = None
    /\ pending = {}
    /\ pc' = "done"
    /\ UNCHANGED <<rev, made, out, pending, jobVars, kills, edits>>
-----------------------------------------------------------------------------
\* Of a file that is being written any part may have reached the disk.
Written    == IF AtCore THEN Append(buffer, Content(job)) ELSE buffer
Flushed(b) == {SubSeq(b, 1, n) : n \in 0 .. Len(b)}
              \cup {Append(SubSeq(b, 1, n - 1), Torn(b[n])) : n \in 1 .. Len(b)}

\* The process is interrupted: ^C, a timeout of the job it runs in, a crash.
Kill ==
    /\ Running
    /\ kills < MaxKills
    /\ kills' = kills + 1
    /\ IF pc = "walking" /\ job # None
       THEN \E b \in Flushed(Written) : out' = Set(out, job, b)
       ELSE UNCHANGED out
    /\ pc' = "killed"
    /\ pending' = {}
    /\ NoJob
    /\ UNCHANGED <<rev, made, edits>>

\* Another revision is checked out; what scripts left in the tree and what
\* was generated stays.
CheckOut(r) ==
    /\ ~Running
    /\ r # rev
    /\ edits < MaxEdits
    /\ edits' = edits + 1
    /\ rev' = r
    /\ pc' = "idle"
    /\ UNCHANGED <<made, out, pending, jobVars, kills>>

GenStep ==
    \/ Start
    \/ \E f \in Files : Remove(f) \/ CreateDbc(f)
    \/ \E s \in ScriptNames : CallScript(s)
    \/ GlobScripts \/ OpenOutput \/ WriteOutput \/ ScriptFails
    \/ Walk \/ Include \/ IncludeMissing \/ WriteCore \/ End

GenNext == GenStep \/ Kill \/ \E r \in Revisions : CheckOut(r)

\* Whoever needs the DBCs runs the generator until it succeeds.
GenSpec == GenInit /\ [][GenNext]_genVars /\ WF_genVars(GenStep)
-----------------------------------------------------------------------------
Chunks == [file : Files, rev : Revisions, whole : BOOLEAN]

\* Where it is in the script or file it is at.
JobOK ==
    /\ job # None => /\ job \in pending
                     /\ pc = "scripts" => at \in DOMAIN Outputs[job]
                     /\ pc = "walking" => at \in 1 .. Len(Imports[job]) + 1
                     /\ pc \in {"scripts", "walking"}
    /\ job = None => at = 1 /\ ~opened /\ buffer = << >>
    /\ opened \in BOOLEAN /\ (opened => pc = "scripts")
    /\ buffer \in Seq(Chunks)

(***************************************************************************)
(* Type invariant: what each phase of create_all works on.                 *)
(***************************************************************************)
GeneratorTypeOK ==
    /\ rev \in Revisions
    /\ DOMAIN made \subseteq Files /\ \A f \in DOMAIN made : made[f] \in Chunks
    /\ DOMAIN out \subseteq Files /\ \A f \in DOMAIN out : out[f] \in Seq(Chunks)
    /\ pc \in {"idle", "clearing", "scripts", "walking", "done", "failed", "killed"}
    /\ pending \subseteq (IF pc = "scripts" THEN ScriptNames ELSE Files)
    /\ JobOK
    /\ kills \in 0 .. MaxKills
    /\ edits \in 0 .. MaxEdits

\* What a revision consists of, whatever is in the tree.
MadeBy(r)    == UNION {ScriptOutputs(s) : s \in Scripts[r]}
SourcesOf(r) == Handwritten[r] \cup MadeBy(r)
PublicOf(r)  == SourcesOf(r) \ Private

\* A clean checkout generates: no script fails, every import is there.
Buildable(r) ==
    /\ \A s \in Scripts[r] : <<r, s>> \notin Failing
    /\ \A f \in PublicOf(r) : \A i \in DOMAIN Imports[f] : Imports[f][i] \in SourcesOf(r)

Expected(r, f) ==
    [i \in 1 .. Len(Imports[f]) + 1 |->
        Chunk(IF i <= Len(Imports[f]) THEN Imports[f][i] ELSE f, r, TRUE)]

(***************************************************************************)
(* A run that completes leaves, for every source of the revision, a DBC    *)
(* made of whole files of this revision and nothing else, whatever earlier *)
(* runs left behind: half written outputs, intermediates of a script that  *)
(* was killed, or both from another revision.                              *)
(***************************************************************************)
CompleteIsCurrent ==
    pc = "done" /\ Buildable(rev) =>
        \A f \in PublicOf(rev) : f \in DOMAIN out /\ out[f] = Expected(rev, f)

\* Files in the tree that no script of the revision accounts for.
Leftover == DOMAIN made \ MadeBy(rev)

(***************************************************************************)
(* No generated DBC outlives its source: after a complete run there are    *)
(* the DBCs of the revision, and those made from intermediates that a      *)
(* script which is gone has left in the tree; the test of the generator,   *)
(* which starts from the same tree, cannot tell these from the others.     *)
(***************************************************************************)
NothingStale ==
    pc = "done" =>
        /\ DOMAIN out \subseteq PublicOf(rev) \cup Leftover
        /\ \A f \in DOMAIN out : \A i \in DOMAIN out[f] :
              out[f][i].rev = rev \/ out[f][i].file \in Leftover

(***************************************************************************)
(* An interrupted or failed run is repaired by running again: as long as   *)
(* the revision generates at all, no state of the tree and of the output   *)
(* directory keeps create_all from completing.                             *)
(***************************************************************************)
RerunRepairs == []<>(pc = "done" \/ ~Buildable(rev))
=============================================================================
