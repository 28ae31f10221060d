------------------------------ MODULE Pipeline ------------------------------
(***************************************************************************)
(* A task as a pipeline of stages (src/src/execution/pipeline-executor.ts, *)
(* task-pipeline-cycle.ts) and the circuit breakers of the adapters        *)
(* (adapter-layer.ts).  The stages run in order; an implementor may need   *)
(* an approved plan first; a stage that fails is tried again, with another *)
(* adapter and then only if a human agrees; after every stage the state of *)
(* the run is written to the file of the task, which a run that was        *)
(* interrupted would go on from.                                           *)
(*                                                                         *)
(* Prompts and outputs are left out.  Whether the verdict handed on is the *)
(* one of the last stage whose result there is, the code decides.          *)
(***************************************************************************)
EXTENDS Naturals, Sequences, FiniteSets, SequencesExt

CONSTANTS
    NumStages,            \* stages of the pipeline
    MaxRetries,           \* maxRetries
    FAILURE_THRESHOLD,    \* failures in a row that open a circuit
    BreakerCooldown,             \* cooldown_ms, in ticks
    MaxPipeFaults         \* bound: writes that fail and crashes

ASSUME PipelineAssumption ==
    /\ NumStages \in Nat \ {0} /\ MaxRetries \in Nat \ {0}
    /\ FAILURE_THRESHOLD \in Nat \ {0} /\ BreakerCooldown \in Nat /\ MaxPipeFaults \in Nat

Stages == 1 .. NumStages
Verdicts == {"pass", "partial", "fail"}
Options == [implementors : SUBSET Stages,          \* the other roles need no plan
            plan_required : BOOLEAN, fail_fast : BOOLEAN,
            trusted : BOOLEAN,                     \* trustScore >= HIGH_TRUST_THRESHOLD
            approvalFn : BOOLEAN, findAlternativeAdapter : BOOLEAN]
NoResult == [status |-> "none", verdict |-> "fail"]

VARIABLES
    options,       \* the pipeline and the executor's dependencies
    pipeFile,      \* pipelines/<task>.json: its status and completed stages
    pipePc,        \* where the run stands
    stage,         \* the stage under way
    attempt,       \* how often it failed so far
    completed,     \* completed_stages: verdict by stage, in order
    onOther,       \* the alternative adapter is used
    planned,       \* history: stages whose plan was approved in this run
    executed,      \* history: executions of each stage in this run
    result,        \* what run() returned
    pipeFaults

pipeVars == <<options, pipeFile, pipePc, stage, attempt, completed, onOther, planned,
              executed, result, pipeFaults>>

PipeInit ==
    /\ options \in Options
    /\ pipeFile = [status |-> "none", completed |-> <<>>]
    /\ pipePc = "idle" /\ stage = 1 /\ attempt = 0 /\ completed = <<>> /\ onOther = FALSE
    /\ planned = {} /\ executed = [i \in Stages |-> 0] /\ result = NoResult /\ pipeFaults = 0

WriteFault == pipeFaults < MaxPipeFaults /\ pipeFaults' = pipeFaults + 1

\* run() starts over, whatever the file says, unless it says interrupted.
StartPipeline ==
    /\ pipePc = "idle"
    /\ completed' = IF pipeFile.status = "interrupted" THEN pipeFile.completed ELSE <<>>
    /\ stage' = Len(completed') + 1
    /\ pipeFile' = [status |-> "running", completed |-> completed']
    /\ pipePc' = "stage" /\ attempt' = 0 /\ onOther' = FALSE /\ planned' = {}
    /\ executed' = [i \in Stages |-> 0] /\ result' = NoResult
    /\ UNCHANGED <<options, pipeFaults>>

\* The next stage, through the gate if it needs a plan; the end of the run if
\* there is none.
MutNeedsPlan(i) == i \in options.implementors /\ options.plan_required /\ ~options.trusted
NeedsPlan(i) == i \in options.implementors /\ options.plan_required
NextStage ==
    /\ pipePc = "stage"
    /\ pipePc' = IF stage > NumStages THEN "finish" ELSE IF NeedsPlan(stage) THEN "plan" ELSE "attempt"
    /\ attempt' = 0 /\ onOther' = FALSE
    /\ UNCHANGED <<options, pipeFile, stage, completed, planned, executed, result, pipeFaults>>

\* runPlanApprovalGate(): the adapter may throw; a trusted task needs nobody,
\* another one a human, and without one it is denied.
PlanApproved(threw, answer) == ~threw /\ (options.trusted \/ (options.approvalFn /\ answer))
RunPlanApprovalGate ==
    /\ pipePc = "plan"
    /\ \E threw, answer \in BOOLEAN :
        IF PlanApproved(threw, answer)
        THEN /\ planned' = planned \cup {stage} /\ pipePc' = "attempt"
             /\ UNCHANGED pipeFile
        ELSE /\ pipeFile' = [pipeFile EXCEPT !.status = "failed"] /\ pipePc' = "finish"
             /\ UNCHANGED planned
    /\ UNCHANGED <<options, stage, attempt, completed, onOther, executed, result, pipeFaults>>

\* executeWithEscalation(): one attempt unless there is someone to turn to.
\* The human is asked before the last of MaxRetries.
MutMaxAttempts == MaxRetries + 1
MaxAttempts == IF options.approvalFn \/ options.findAlternativeAdapter THEN MaxRetries ELSE 1
AsksHuman == attempt = MaxRetries - 1 /\ options.approvalFn

\* makeStageResult() knows success and failure only: an adapter that stopped
\* without an error and without success counts as failed.
Verdict(v) == IF v = "pass" THEN "pass" ELSE "fail"
StageEnds(v) ==
    /\ completed' = Append(completed, v)
    /\ pipeFile' = [pipeFile EXCEPT !.completed = completed']
    /\ pipePc' = "after_stage" /\ UNCHANGED attempt

Attempt ==
    /\ pipePc = "attempt"
    /\ \E switch \in BOOLEAN :
        /\ switch => attempt = 1 /\ options.findAlternativeAdapter
        /\ onOther' = (onOther \/ switch)
    /\ \/ AsksHuman /\ StageEnds("fail") /\ UNCHANGED executed        \* the human says no
       \/ /\ executed' = [executed EXCEPT ![stage] = @ + 1]
          /\ \E v \in Verdicts :
              IF v # "fail" THEN StageEnds(Verdict(v))
              ELSE IF attempt + 1 = MaxAttempts THEN StageEnds("fail")
              ELSE attempt' = attempt + 1 /\ UNCHANGED <<completed, pipeFile, pipePc>>
    /\ UNCHANGED <<options, stage, planned, result, pipeFaults>>

\* fail_fast ends the run with the stage that failed.
MutStops == ~options.fail_fast /\ Last(completed) = "fail"
Stops == options.fail_fast /\ Last(completed) = "fail"
AfterStage ==
    /\ pipePc = "after_stage"
    /\ IF Stops THEN /\ pipeFile' = [pipeFile EXCEPT !.status = "failed"] /\ pipePc' = "finish"
                     /\ UNCHANGED stage
       ELSE stage' = stage + 1 /\ pipePc' = "stage" /\ UNCHANGED pipeFile
    /\ UNCHANGED <<options, attempt, completed, onOther, planned, executed, result, pipeFaults>>

\* What was not failed is completed; the verdict is that of the last result.
FinishPipeline ==
    /\ pipePc = "finish"
    /\ pipeFile' = [pipeFile EXCEPT !.status = IF @ = "running" THEN "completed" ELSE @]
    /\ result' = [status |-> pipeFile'.status,
                  verdict |-> IF completed = <<>> THEN "fail" ELSE Last(completed)]
    /\ pipePc' = "idle"
    /\ UNCHANGED <<options, stage, attempt, completed, onOther, planned, executed, pipeFaults>>

\* A write fails, no adapter is registered, or the process dies: the file stays.
PipelineCutOff ==
    /\ pipePc # "idle" /\ WriteFault
    /\ pipePc' = "idle" /\ result' = NoResult
    /\ UNCHANGED <<options, pipeFile, stage, attempt, completed, onOther, planned, executed>>

\* runPipelineTaskCycle(): what becomes of the task.
ActionOf(verdict) ==
    CASE verdict = "pass" -> "completed" [] verdict = "partial" -> "keep" [] verdict = "fail" -> "discard"

PipelineStep ==
    \/ StartPipeline \/ NextStage \/ RunPlanApprovalGate \/ Attempt \/ AfterStage
    \/ FinishPipeline \/ PipelineCutOff

(***************************************************************************)
(* The circuit breaker of an adapter                                       *)
(***************************************************************************)

VARIABLES
    circuit,      \* state, failure_count and the time since last_failure_at
    inARow        \* history: failures since the last success, and when

breakerVars == <<circuit, inARow>>

BreakerInit ==
    /\ circuit = [state |-> "closed", failures |-> 0, since |-> BreakerCooldown]
    /\ inARow = [failures |-> 0, since |-> BreakerCooldown]

RecordSuccess ==
    /\ circuit' = [circuit EXCEPT !.state = "closed", !.failures = 0]
    /\ inARow' = [inARow EXCEPT !.failures = 0]

\* The count goes on beyond the threshold; the model lets it rest there.
Opens(n) == n >= FAILURE_THRESHOLD
RecordFailure ==
    /\ LET n == circuit.failures + 1 IN
       circuit' = [state |-> IF Opens(n) THEN "open" ELSE circuit.state,
                   failures |-> IF n > FAILURE_THRESHOLD THEN FAILURE_THRESHOLD ELSE n,
                   since |-> 0]
    /\ inARow' = [failures |-> IF inARow.failures = FAILURE_THRESHOLD THEN FAILURE_THRESHOLD
                               ELSE inARow.failures + 1,
                  since |-> 0]

\* isAvailable() lets an open circuit half open once it has cooled down.
MutCooledDown == TRUE
CooledDown == circuit.since >= BreakerCooldown
Available == circuit.state # "open" \/ CooledDown
IsAvailable ==
    /\ circuit' = IF circuit.state = "open" /\ CooledDown
                  THEN [circuit EXCEPT !.state = "half_open"] ELSE circuit
    /\ UNCHANGED inARow
TimePasses ==
    /\ circuit.since < BreakerCooldown
    /\ circuit' = [circuit EXCEPT !.since = @ + 1] /\ inARow' = [inARow EXCEPT !.since = @ + 1]

BreakerStep == RecordSuccess \/ RecordFailure \/ IsAvailable \/ TimePasses

-----------------------------------------------------------------------------
\* Types of the run, its file and the breaker.
PipeTypeOK ==
    /\ options \in Options
    /\ pipeFile.status \in {"none", "running", "completed", "failed"}
    /\ pipePc \in {"idle", "stage", "plan", "attempt", "after_stage", "finish"}
    /\ stage \in 1 .. NumStages + 1 /\ attempt \in 0 .. MaxRetries - 1
    /\ completed \in Seq({"pass", "fail"}) /\ onOther \in BOOLEAN /\ planned \subseteq Stages
    /\ result.status \in {"none", "completed", "failed"} /\ result.verdict \in {"pass", "fail"}
    /\ circuit.state \in {"closed", "open", "half_open"} /\ circuit.since \in 0 .. BreakerCooldown
    /\ circuit.failures \in 0 .. FAILURE_THRESHOLD

\* An implementor acts only on a plan approved in the same run, whatever was
\* approved before a crash, and no stage is tried more often than it may be.
PlanFirst ==
    /\ options.plan_required =>
           \A i \in options.implementors : executed[i] > 0 => i \in planned
    /\ \A i \in Stages : executed[i] <= MaxAttempts

\* A run reported as completed has a result for every stage, and with fail_fast
\* none of them failed: its task is then completed.  A run reported as failed
\* either ends with a stage that failed or with a plan that was denied.
VerdictSound ==
    /\ result.status = "completed" =>
           /\ Len(completed) = NumStages
           /\ options.fail_fast => ~Contains(completed, "fail") /\ ActionOf(result.verdict) = "completed"
    /\ result.status = "failed" =>
           \/ completed # <<>> /\ Last(completed) = "fail" /\ ActionOf(result.verdict) = "discard"
           \/ Len(completed) < NumStages /\ NeedsPlan(Len(completed) + 1)

\* What the file lists is what the run has done, as far as it came.
FileFollows == pipePc # "idle" => pipeFile.completed = completed

\* An adapter that failed too often in a row is not used again before it has
\* had the time to recover, however often it is asked for.
BreakerHolds ==
    inARow.failures = FAILURE_THRESHOLD /\ Available => inARow.since = BreakerCooldown
=============================================================================
