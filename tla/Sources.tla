------------------------------ MODULE Sources ------------------------------
(***************************************************************************)
(* The data sources that dimensions are measured by: the files under       *)
(* ~/.pulseed/datasources, written by the user ("pulseed datasource add")  *)
(* and by the registration of a goal (src/src/cli/commands/goal-utils.ts), *)
(* removed by the user and by the search for duplicates that also ends     *)
(* "pulseed goal cleanup" (cli/commands/config.ts), and the choice of one  *)
(* for a dimension (observation/observation-datasource.ts).                *)
(*                                                                         *)
(* Every command is a process of its own: what it read of the directory    *)
(* may have changed when it writes.                                        *)
(***************************************************************************)
EXTENDS Naturals, FiniteSets

CONSTANTS
    NumSrcGoals,     \* goals that are registered
    FileDims,        \* dimensions named after a file (.._exists, .._file)
    ShellDims,       \* dimensions a known shell command counts
    IssueDims,       \* dimensions of every github_issue source
    DimSets,         \* the sets of dimensions a goal may have
    ByHand,          \* what the user adds: type, and dimensions mapped by hand
    MaxAdded,        \* bound: sources added by hand
    MaxSrcFaults     \* bound: failed reads and writes, and spoilt files

SrcTypes == {"file", "http_api", "github_issue", "file_existence", "shell"}

ASSUME SourcesAssumption ==
    /\ \A h \in ByHand : h.type \in SrcTypes
    /\ NumSrcGoals \in Nat /\ MaxAdded \in Nat /\ MaxSrcFaults \in Nat
    /\ IsFiniteSet(FileDims \cup ShellDims \cup IssueDims)

\* Files sort by their names: "ds_" and the time of those added by hand come
\* before "ds_auto_" and the goal of the others.
SrcGoals == MaxAdded + 1 .. MaxAdded + NumSrcGoals

VARIABLES
    sources,         \* the files: type, number (a goal's, if scoped), dimensions
    unreadable,      \* those that are no JSON any more
    regPc,           \* where the registration of each goal stands
    goalDims,        \* the dimensions of each goal
    planned,         \* of each goal, the dimensions of the source to be written
    doomed,          \* what a search for duplicates is about to remove
    added, srcFaults,
    covered,         \* history: dimensions of each goal registered, or found to be
    userRemoved          \* history: keys of the sources the user removed

srcVars == <<sources, unreadable, regPc, goalDims, planned, doomed, added, srcFaults,
             covered, userRemoved>>

SrcInit ==
    /\ sources = {} /\ unreadable = {} /\ doomed = {} /\ userRemoved = {}
    /\ regPc = [g \in SrcGoals |-> "none"]
    /\ goalDims = [g \in SrcGoals |-> {}] /\ planned = [g \in SrcGoals |-> {}]
    /\ covered = [g \in SrcGoals |-> {}]
    /\ added = 0 /\ srcFaults = 0

Fails == srcFaults < MaxSrcFaults /\ srcFaults' = srcFaults + 1

(***************************************************************************)
(* The user                                                                *)
(***************************************************************************)

\* cmdDatasourceAdd(): nothing is compared with what is there.
AddSource(h) ==
    /\ added < MaxAdded /\ added' = added + 1
    /\ sources' = sources \cup
         {[type |-> h.type, n |-> added',
           dims |-> h.dims \cup IF h.type = "github_issue" THEN IssueDims ELSE {}]}
    /\ UNCHANGED <<unreadable, regPc, goalDims, planned, doomed, srcFaults, covered, userRemoved>>

\* dedupKey(): dimensions count for two of the types only.
MutKey(s) == <<s.type, {}>>
Key(s) == <<s.type, IF s.type \in {"shell", "file_existence"} THEN s.dims ELSE {}>>

\* cmdDatasourceRemove(): a source of any goal, whoever else relies on it.
RemoveSource(s) ==
    /\ sources' = sources \ {s} /\ unreadable' = unreadable \ {s}
    /\ userRemoved' = userRemoved \cup {Key(s)}
    /\ UNCHANGED <<regPc, goalDims, planned, doomed, added, srcFaults, covered>>

\* An edit spoils a file, and another mends it.
SpoilSource(s) ==
    /\ s \notin unreadable /\ Fails /\ unreadable' = unreadable \cup {s}
    /\ UNCHANGED <<sources, regPc, goalDims, planned, doomed, added, covered, userRemoved>>
MendSource(s) ==
    /\ s \in unreadable /\ unreadable' = unreadable \ {s}
    /\ UNCHANGED <<sources, regPc, goalDims, planned, doomed, added, srcFaults, covered, userRemoved>>

(***************************************************************************)
(* The registration of a goal: a source for its files, one for its counts  *)
(***************************************************************************)

\* loadExistingDatasources(): what cannot be read is left out; a directory that
\* cannot be read is an empty one.
Existing(E) ==
    \/ E = sources \ unreadable /\ UNCHANGED srcFaults
    \/ E = {} /\ sources # {} /\ Fails

\* fileExistenceDatasourceExists(), shellDatasourceExists(): the same dimensions,
\* whichever goal they are for.
MutExists(E, ty, D) == \E s \in E : s.type = ty /\ s.dims \cap D # {}
Exists(E, ty, D) == \E s \in E : s.type = ty /\ s.dims = D

StartRegistration(g, D) ==
    /\ regPc[g] = "none"
    /\ regPc' = [regPc EXCEPT ![g] = "files"] /\ goalDims' = [goalDims EXCEPT ![g] = D]
    /\ UNCHANGED <<sources, unreadable, planned, doomed, added, srcFaults, covered, userRemoved>>

After(pc) == IF pc \in {"files", "saveFiles"} THEN "shell" ELSE "done"

SkipSource(g) ==
    /\ regPc' = [regPc EXCEPT ![g] = After(@)]
    /\ UNCHANGED <<srcFaults, planned, covered>>

\* Nothing is written when a source with these dimensions exists.
PlanSource(g, ty, D, save) ==
    \E E \in {sources \ unreadable, {}} :
      /\ Existing(E)
      /\ IF Exists(E, ty, D)
           THEN /\ regPc' = [regPc EXCEPT ![g] = After(@)]
                /\ covered' = [covered EXCEPT ![g] = @ \cup D]
                /\ UNCHANGED planned
           ELSE /\ regPc' = [regPc EXCEPT ![g] = save]
                /\ planned' = [planned EXCEPT ![g] = D]
                /\ UNCHANGED covered

\* autoRegisterFileExistenceDataSources(): only for a goal all of whose dimensions
\* are files, and of these for those a file name was found for.
RegisterFiles(g) ==
    /\ regPc[g] = "files"
    /\ IF goalDims[g] = {} \/ ~ goalDims[g] \subseteq FileDims
         THEN SkipSource(g)
         ELSE \E D \in SUBSET goalDims[g] :
                IF D = {} THEN SkipSource(g)
                          ELSE PlanSource(g, "file_existence", D, "saveFiles")
    /\ UNCHANGED <<sources, unreadable, goalDims, doomed, added, userRemoved>>

\* autoRegisterShellDataSources()
RegisterShell(g) ==
    /\ regPc[g] = "shell"
    /\ LET D == goalDims[g] \cap ShellDims
       IN  IF D = {} THEN SkipSource(g) ELSE PlanSource(g, "shell", D, "saveShell")
    /\ UNCHANGED <<sources, unreadable, goalDims, doomed, added, userRemoved>>

\* A write that fails is logged, and the goal is registered without.
SaveSource(g) ==
    /\ regPc[g] \in {"saveFiles", "saveShell"}
    /\ regPc' = [regPc EXCEPT ![g] = After(@)] /\ planned' = [planned EXCEPT ![g] = {}]
    /\ \/ /\ sources' = sources \cup
               {[type |-> IF regPc[g] = "saveFiles" THEN "file_existence" ELSE "shell",
                 n |-> g, dims |-> planned[g]]}
          /\ covered' = [covered EXCEPT ![g] = @ \cup planned[g]]
          /\ UNCHANGED srcFaults
       \/ Fails /\ UNCHANGED <<sources, covered>>
    /\ UNCHANGED <<unreadable, goalDims, doomed, added, userRemoved>>

(***************************************************************************)
(* cmdDatasourceDedup(): of those with the same key the first file stays   *)
(***************************************************************************)

Duplicates(E) == {s \in E : \E t \in E : Key(t) = Key(s) /\ t.n < s.n}

FindDuplicates ==
    /\ doomed = {} /\ doomed' = Duplicates(sources \ unreadable) /\ doomed' # {}
    /\ UNCHANGED <<sources, unreadable, regPc, goalDims, planned, added, srcFaults, covered, userRemoved>>

\* One that cannot be removed is logged.
RemoveDuplicate(s) ==
    /\ doomed' = doomed \ {s}
    /\ \/ sources' = sources \ {s} /\ unreadable' = unreadable \ {s} /\ UNCHANGED srcFaults
       \/ s \in sources /\ Fails /\ UNCHANGED <<sources, unreadable>>
    /\ UNCHANGED <<regPc, goalDims, planned, added, covered, userRemoved>>

(***************************************************************************)
(* The choice of a source                                                  *)
(***************************************************************************)

\* buildDeps(): a file that cannot be read ends the loading of all.
Loadable == unreadable = {}

\* findDataSourceForDimension(): the goal's own before one of no goal, before
\* another goal's.  Of several the first in the directory, in any order, is taken.
Serving(d) == {s \in sources : d \in s.dims}
MutFindDataSource(d, g) == {s \in Serving(d) : s.n = g \/ s.n \notin SrcGoals}
FindDataSource(d, g) ==
    LET own == {s \in Serving(d) : s.n = g}
        unscoped == {s \in Serving(d) : s.n \notin SrcGoals}
    IN  IF own # {} THEN own ELSE IF unscoped # {} THEN unscoped ELSE Serving(d)

SrcNext ==
    \/ \E h \in ByHand : AddSource(h)
    \/ \E s \in sources : RemoveSource(s) \/ SpoilSource(s) \/ MendSource(s)
    \/ \E g \in SrcGoals, D \in DimSets : StartRegistration(g, D)
    \/ \E g \in SrcGoals : RegisterFiles(g) \/ RegisterShell(g) \/ SaveSource(g)
    \/ FindDuplicates
    \/ \E s \in doomed : RemoveDuplicate(s)

(***************************************************************************)
(* Properties                                                              *)
(***************************************************************************)

SrcDims == (UNION {h.dims : h \in ByHand}) \cup FileDims \cup ShellDims \cup IssueDims
Source == [type : SrcTypes, n : 1 .. MaxAdded + NumSrcGoals, dims : SUBSET SrcDims]

SrcTypeOK ==
    /\ sources \subseteq Source /\ unreadable \subseteq sources /\ doomed \subseteq Source
    /\ regPc \in [SrcGoals -> {"none", "files", "saveFiles", "shell", "saveShell", "done"}]
    /\ planned \in [SrcGoals -> SUBSET SrcDims] /\ covered \in [SrcGoals -> SUBSET SrcDims]
    /\ added \in 0 .. MaxAdded /\ srcFaults \in 0 .. MaxSrcFaults

\* A dimension that a goal's registration found measured, or had measured, stays
\* measured mechanically - though no source is written for a goal when one of
\* another goal exists, though two registrations may both write one, and though
\* the search for duplicates removes sources of other goals while goals are being
\* registered - until the user removes a source for that dimension
\* (findDataSourceForDimension with autoRegister.. and cmdDatasourceDedup).
StaysMeasured ==
    \A g \in SrcGoals : \A d \in covered[g] :
      \/ FindDataSource(d, g) # {} \/ ~ Loadable
      \/ \E k \in userRemoved : d \in k[2]
=============================================================================
