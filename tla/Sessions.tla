------------------------------ MODULE Sessions ------------------------------
(***************************************************************************)
(* Sessions and the checkpoints of stages (src/src/execution/session-      *)
(* manager.ts, checkpoint-manager.ts, context-builder.ts): both keep one   *)
(* file each and an index that is read, changed and written after it, and  *)
(* a process may die in between.  A session is given the slots of its type *)
(* as far as its token budget goes.                                        *)
(*                                                                         *)
(* Slots have priorities in halves; what they say is left out but for its  *)
(* size.  The writes of one process follow one another.                    *)
(***************************************************************************)
EXTENDS Naturals, Sequences, FiniteSetsExt

CONSTANTS
    SlotSizes,       \* tokens a slot may take
    Budget,          \* contextBudget
    MaxSessions,     \* bound: sessions, and checkpoints, ever made
    MaxSessFaults    \* bound: writes that fail and crashes

ASSUME SessionsAssumption ==
    /\ SlotSizes \subseteq Nat /\ Budget \in Nat
    /\ MaxSessions \in Nat /\ MaxSessFaults \in Nat

VARIABLES
    sessionFile,     \* sessions/<id>.json: "none", "active" or "ended"
    sessionIndex,    \* sessions/index.json
    slots,           \* the slots of the last session before and after the budget
    checkFile,       \* checkpoints/<goal>/<id>.json exists
    checkIndex,      \* checkpoints/<goal>/index.json: what it lists, the newest the highest
    sessPc,          \* the write that comes next, and for which id
    cutSave,         \* history: ids whose saving was cut off
    cutDelete,       \* history: ids whose deletion was cut off
    sessFaults

sessVars == <<sessionFile, sessionIndex, slots, checkFile, checkIndex, sessPc,
              cutSave, cutDelete, sessFaults>>

SessIds == 1 .. MaxSessions
Resting == [at |-> "rest", id |-> 0]
NoSlots == [all |-> [p \in {} |-> 0], kept |-> {}]

SessInit ==
    /\ sessionFile = [i \in SessIds |-> "none"] /\ sessionIndex = <<>>
    /\ slots = NoSlots
    /\ checkFile = [i \in SessIds |-> FALSE] /\ checkIndex = {}
    /\ sessPc = Resting /\ cutSave = {} /\ cutDelete = {} /\ sessFaults = 0

(***************************************************************************)
(* The context of a session                                                *)
(***************************************************************************)

\* buildContextForType(): how many slots each type has, by priority.
SlotsOfType == [task_execution |-> 4, observation |-> 4, task_review |-> 2, goal_review |-> 3]

\* Resource conflicts add a slot of priority 4.5, knowledge and feedback one
\* behind all others.
Priorities(type, conflict, injected) ==
    LET own == {2 * n : n \in 1 .. SlotsOfType[type]} \cup (IF conflict THEN {9} ELSE {})
    IN  own \cup (IF injected THEN {Max(own) + 2} ELSE {})

\* filterSlotsByBudget(): in the order of priority, each that still fits.
TokensOf(s, P) == MapThenSumSet(LAMBDA p : s[p], P)
MutKeptSlots(s) == {p \in DOMAIN s : s[p] <= Budget}
KeptSlots(s) ==
    LET kept[p \in 0 .. Max(DOMAIN s)] ==
            IF p = 0 THEN {}
            ELSE IF p \in DOMAIN s /\ TokensOf(s, kept[p - 1]) + s[p] <= Budget
                 THEN kept[p - 1] \cup {p} ELSE kept[p - 1]
    IN  kept[Max(DOMAIN s)]

(***************************************************************************)
(* Sessions                                                                *)
(***************************************************************************)

SaveFault == sessFaults < MaxSessFaults /\ sessFaults' = sessFaults + 1
FreshId(used) == {i \in SessIds : i \notin used /\ \A j \in 1 .. i - 1 : j \in used}
UsedSessions == {i \in SessIds : sessionFile[i] # "none"}

\* createSession() writes the file and goes on to the index.
CreateSession ==
    /\ sessPc.at = "rest"
    /\ \E i \in FreshId(UsedSessions), type \in DOMAIN SlotsOfType, c, j \in BOOLEAN :
        /\ sessionFile' = [sessionFile EXCEPT ![i] = "active"]
        /\ \E s \in [Priorities(type, c, j) -> SlotSizes] : slots' = [all |-> s, kept |-> KeptSlots(s)]
        /\ sessPc' = [at |-> "session_index", id |-> i]
    /\ UNCHANGED <<sessionIndex, checkFile, checkIndex, cutSave, cutDelete, sessFaults>>

\* endSession() throws for a session it does not find, and writes it again.
EndSession ==
    /\ sessPc.at = "rest"
    /\ \E i \in UsedSessions :
        /\ sessionFile' = [sessionFile EXCEPT ![i] = "ended"]
        /\ sessPc' = [at |-> "session_index", id |-> i]
    /\ slots' = NoSlots
    /\ UNCHANGED <<sessionIndex, checkFile, checkIndex, cutSave, cutDelete, sessFaults>>

\* updateSessionIndex() adds what is not there.
InIndex(i) == \E k \in DOMAIN sessionIndex : sessionIndex[k] = i
MutWithSession(i) == Append(sessionIndex, i)
WithSession(i) == IF InIndex(i) THEN sessionIndex ELSE Append(sessionIndex, i)
UpdateSessionIndex ==
    /\ sessPc.at = "session_index"
    /\ sessionIndex' = WithSession(sessPc.id)
    /\ sessPc' = Resting /\ cutSave' = cutSave \ {sessPc.id} /\ slots' = NoSlots
    /\ UNCHANGED <<sessionFile, checkFile, checkIndex, cutDelete, sessFaults>>

\* getActiveSessions() goes by the index.
ActiveSessions == {sessionIndex[k] : k \in {k \in DOMAIN sessionIndex :
                                              sessionFile[sessionIndex[k]] = "active"}}

\* The index cannot be written, or the process dies first.
IndexCutOff ==
    /\ sessPc.at = "session_index" /\ SaveFault /\ sessPc' = Resting /\ slots' = NoSlots
    /\ cutSave' = IF InIndex(sessPc.id) THEN cutSave ELSE cutSave \cup {sessPc.id}
    /\ UNCHANGED <<sessionFile, sessionIndex, checkFile, checkIndex, cutDelete>>

SessionStep == CreateSession \/ EndSession \/ UpdateSessionIndex \/ IndexCutOff

(***************************************************************************)
(* Checkpoints                                                             *)
(***************************************************************************)

UsedChecks == {i \in SessIds : checkFile[i]} \cup checkIndex \cup cutDelete \cup cutSave
NextCheck == IF UsedChecks = {} THEN 1 ELSE Max(UsedChecks) + 1

\* saveCheckpoint(): the file, then the index.
SaveCheckpoint ==
    /\ sessPc.at = "rest" /\ NextCheck \in SessIds
    /\ checkFile' = [checkFile EXCEPT ![NextCheck] = TRUE]
    /\ sessPc' = [at |-> "add", id |-> NextCheck]
    /\ UNCHANGED <<sessionFile, sessionIndex, slots, checkIndex, cutSave, cutDelete, sessFaults>>
AddToIndex ==
    /\ sessPc.at = "add" /\ checkIndex' = checkIndex \cup {sessPc.id} /\ sessPc' = Resting
    /\ UNCHANGED <<sessionFile, sessionIndex, slots, checkFile, cutSave, cutDelete, sessFaults>>

\* deleteCheckpoint(), and garbageCollect() for what is too old: the file,
\* whose removal may fail, then the index.
DeleteCheckpoint ==
    /\ sessPc.at = "rest"
    /\ \E i \in checkIndex :
        /\ sessPc' = [at |-> "remove", id |-> i]
        /\ \/ checkFile' = [checkFile EXCEPT ![i] = FALSE] /\ UNCHANGED sessFaults
           \/ SaveFault /\ UNCHANGED checkFile
    /\ UNCHANGED <<sessionFile, sessionIndex, slots, checkIndex, cutSave, cutDelete>>
MutRemaining(id) == checkIndex
Remaining(id) == checkIndex \ {id}
RemoveFromIndex ==
    /\ sessPc.at = "remove" /\ sessPc' = Resting /\ checkIndex' = Remaining(sessPc.id)
    /\ cutDelete' = cutDelete \ {sessPc.id}
    /\ UNCHANGED <<sessionFile, sessionIndex, slots, checkFile, cutSave, sessFaults>>

\* What was cut off between file and index.
CheckCutOff ==
    /\ sessPc.at \in {"add", "remove"} /\ SaveFault /\ sessPc' = Resting
    /\ IF sessPc.at = "add" THEN cutSave' = cutSave \cup {sessPc.id} /\ UNCHANGED cutDelete
       ELSE cutDelete' = cutDelete \cup {sessPc.id} /\ UNCHANGED cutSave
    /\ UNCHANGED <<sessionFile, sessionIndex, slots, checkFile, checkIndex>>

\* loadCheckpoint(): the latest that is listed, if its file can be read; 0 if not.
LoadCheckpoint ==
    IF checkIndex = {} \/ ~checkFile[Max(checkIndex)] THEN 0 ELSE Max(checkIndex)

CheckpointStep ==
    SaveCheckpoint \/ AddToIndex \/ DeleteCheckpoint \/ RemoveFromIndex \/ CheckCutOff

-----------------------------------------------------------------------------
\* Types of the files and of the step that comes next.
SessTypeOK ==
    /\ sessionFile \in [SessIds -> {"none", "active", "ended"}] /\ checkFile \in [SessIds -> BOOLEAN]
    /\ sessionIndex \in Seq(SessIds) /\ checkIndex \subseteq SessIds
    /\ sessPc.at \in {"rest", "session_index", "add", "remove"}
    /\ slots.kept \subseteq DOMAIN slots.all

\* The context of a session stays within its budget, and the slot that matters
\* most is left out only if it alone goes beyond it.
WithinBudget ==
    DOMAIN slots.all # {} =>
        /\ TokensOf(slots.all, slots.kept) <= Budget
        /\ 2 \in slots.kept \/ slots.all[2] > Budget

\* Every session is listed once, with its file, and so is found while it is
\* active, unless its creation was cut off.
SessionsFound ==
    /\ \A k, m \in DOMAIN sessionIndex :
        /\ sessionFile[sessionIndex[k]] # "none"
        /\ sessionIndex[k] = sessionIndex[m] => k = m
    /\ \A i \in SessIds \ (cutSave \cup {sessPc.id}) :
        sessionFile[i] = "active" => i \in ActiveSessions

\* Whatever was cut off, a checkpoint is there to be loaded while any is
\* listed, as long as no deletion was cut off.
CheckpointLoads ==
    sessPc.at = "rest" /\ cutDelete = {} /\ checkIndex # {} => LoadCheckpoint # 0
=============================================================================
