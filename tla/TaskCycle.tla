----------------------------- MODULE TaskCycle -----------------------------
(***************************************************************************)
(* TaskLifecycle.runTaskCycle for one goal (src/src/execution): select a   *)
(* dimension and generate a task, the three checks before execution, the   *)
(* adapter, the three-layer verification, and what the verdict does to the *)
(* goal file, the task file, the failure context and the trust store       *)
(* (src/src/traits/trust-manager.ts).                                      *)
(*                                                                         *)
(* Models decide the contents: which task is generated, what the reviewer  *)
(* says, whether a revert succeeds are choices.  Another process may write *)
(* the goal file between any two steps, and the process may die.  Numbers  *)
(* are hundredths.  Every task has the category "normal", as generateTask  *)
(* gives it, so there is one trust balance.                                *)
(***************************************************************************)
EXTENDS Integers, FiniteSets

CONSTANTS
    Dims,        \* dimensions of the goal
    Kind,        \* the threshold type of a dimension: min, max or other
    Gated,       \* is there a permanent gate for the category
    Values,      \* what an observation or another process may write
    MaxCycles,   \* bound: cycles
    MaxEdits,    \* bound: writes of the goal file from outside
    MaxCrashes   \* bound: crashes

ASSUME TaskAssumption ==
    /\ Dims # {} /\ Kind \in [Dims -> {"min", "max", "other"}]
    /\ Gated \in BOOLEAN
    /\ Values \subseteq Nat
    /\ MaxCycles \in Nat /\ MaxEdits \in Nat /\ MaxCrashes \in Nat

VARIABLES
    val, integrity,   \* goal.json: current_value and state_integrity
    task,             \* the file of the cycle's task; earlier ones are not read again
    history,          \* task-history.json: the statuses recorded in it
    context,          \* last-failure-context.json: the verdict in it
    trust, stored,    \* the trust balance; in the store while its write is under way
    pc,
    success,          \* the execution result the verifier is given
    verdict, previous, update,  \* the verification result: verdict,
                      \* previous_value and new_value (or Unset)
    seenVal, seenIntegrity,   \* the goal file as handleVerdict loaded it
    act,              \* action of the last cycle's result
    consent,          \* did a human approve the task
    flagged,          \* did the ethics gate flag the task
    ran,              \* did the adapter get the task
    cycles, edits, crashes

goal   == <<val, integrity>>
judged == <<success, verdict, previous, update>>
seen   == <<seenVal, seenIntegrity>>
balance == <<trust, stored>>
asked  == <<consent, flagged, ran>>
bounds == <<cycles, edits, crashes>>
vars == <<goal, task, history, context, balance, pc, judged, seen, act, asked, bounds>>

-----------------------------------------------------------------------------
(* Values *)

Unset  == -1
Status == {"pending", "running", "completed", "timed_out", "error"}
Verdicts == {"pass", "partial", "fail"}
Actions == {"none", "completed", "keep", "discard", "escalate", "approval_denied",
            "capability_acquiring"}
Task == [dim : Dims, reversibility : {"reversible", "irreversible", "unknown"},
         intent : {"increase", "decrease", "neutral"}, status : Status,
         failures : 0..1]

Least(a, b) == IF a < b THEN a ELSE b
Most(a, b)  == IF a < b THEN b ELSE a

-----------------------------------------------------------------------------
(* TrustManager *)

SuccessDelta == 3
FailureDelta == 10
Bounded(n) == Most(-100, Least(100, n))

\* The rate limit may leave out a success, never a failure.
RecordSuccess == trust' \in {trust, Bounded(trust + SuccessDelta)}
RecordFailure == trust' = Bounded(trust - FailureDelta)

\* requiresApproval: runTaskCycle leaves the confidence at its default, which
\* is the threshold, so the quadrant is never observe_and_propose.
HighTrust == 20
HighConfidence == 50
DefaultConfidence == 50
ObserveAndPropose == trust < HighTrust /\ DefaultConfidence < HighConfidence
MutNeedsApproval(t) == t.reversibility = "irreversible" \/ Gated \/ ObserveAndPropose
NeedsApproval(t) == \/ t.reversibility \in {"irreversible", "unknown"}
                    \/ Gated
                    \/ ObserveAndPropose

-----------------------------------------------------------------------------
(* The verifier's rules *)

\* Contradiction resolution of the mechanical layer and the reviewer: a
\* mechanical failure decides, a reviewer who disagrees with a mechanical pass
\* is asked once more.
Resolved(mechanical, review, again) ==
    IF mechanical = "failed" THEN "fail"
    ELSE IF mechanical = "passed" /\ review = "fail" THEN again
    ELSE review

Progress(v) == IF v = "pass" THEN 20 ELSE 15
Proposed(current, v) == Least(100, current + Progress(v))

\* P0: a pass whose update moves away from the target is only partial.
Worsened(d, current, next) ==
    \/ Kind[d] = "min" /\ next < current - 5
    \/ Kind[d] = "max" /\ next > current + 5

\* clampDimensionUpdate: at most 0.3 or 30% of the current value.
MaxDelta(current) == Most(30, (current * 30) \div 100)
MutClamped(current, next) == next
Clamped(current, next) ==
    Most(current - MaxDelta(current), Least(current + MaxDelta(current), next))

\* checkDimensionDirection.
Agrees(intent, current, next) ==
    /\ intent = "increase" => next >= current
    /\ intent = "decrease" => next <= current
-----------------------------------------------------------------------------
(* The cycle *)

\* A task starts with no failures.
NewTask(d, r, i) == [dim |-> d, reversibility |-> r, intent |-> i,
                     status |-> "pending", failures |-> 0]
NoTask == NewTask(CHOOSE d \in Dims : TRUE, "reversible", "neutral")

\* The locals of runTaskCycle between cycles, with the task: no later cycle
\* reads its file.
Forget ==
    /\ pc' = "idle" /\ task' = NoTask
    /\ success' = FALSE /\ verdict' = "fail" /\ previous' = Unset /\ update' = Unset
    /\ consent' = FALSE /\ flagged' = FALSE /\ ran' = FALSE
    /\ seenVal' = [d \in Dims |-> 0] /\ seenIntegrity' = [d \in Dims |-> "ok"]

Init ==
    /\ val \in [Dims -> Values] /\ integrity = [d \in Dims |-> "ok"]
    /\ task = NoTask /\ history = {} /\ context = "none"
    /\ trust = 0 /\ stored = 0
    /\ pc = "idle"
    /\ success = FALSE /\ verdict = "fail" /\ previous = Unset /\ update = Unset
    /\ seenVal = [d \in Dims |-> 0] /\ seenIntegrity = [d \in Dims |-> "ok"]
    /\ consent = FALSE /\ flagged = FALSE /\ ran = FALSE
    /\ act = "none" /\ cycles = 0 /\ edits = 0 /\ crashes = 0

\* A cycle returns early with a result: nothing was judged or loaded yet.
Return(a) == act' = a /\ stored' = trust /\ Forget

\* selectTargetDimension and generateTask.  Nothing there looks at the
\* integrity of the dimension, and the new task has failed no times.
Generate(d) ==
    /\ pc = "idle" /\ cycles < MaxCycles
    /\ cycles' = cycles + 1
    /\ \E r \in {"reversible", "irreversible", "unknown"},
          i \in {"increase", "decrease", "neutral"} :
        task' = NewTask(d, r, i)
    /\ pc' = "ethics" /\ act' = "none"
    /\ consent' = FALSE /\ flagged' = FALSE /\ ran' = FALSE
    /\ UNCHANGED <<goal, history, context, balance, judged, seen, edits, crashes>>

\* checkDuplicateTask: the entries of the history have no description, so only
\* a description too short for trigrams is found similar to one.
SkipDuplicate ==
    /\ pc = "idle" /\ cycles < MaxCycles
    /\ "completed" \in history
    /\ cycles' = cycles + 1
    /\ Return("discard")
    /\ UNCHANGED <<goal, history, context, trust, edits, crashes>>

\* runEthicsCheck: rejected, or flagged (and a human decides), or passed.
Ethics ==
    /\ pc = "ethics"
    /\ \/ Return("discard")
       \/ Return("approval_denied")
       \/ /\ \E f \in BOOLEAN : flagged' = f /\ consent' = f
          /\ pc' = "capability"
          /\ UNCHANGED <<stored, task, judged, seen, ran, act>>
    /\ UNCHANGED <<goal, history, context, trust, bounds>>

\* runCapabilityCheck: a missing permission goes to a human, another missing
\* capability is acquired first.
Capability ==
    /\ pc = "capability"
    /\ \/ Return("escalate")
       \/ Return("capability_acquiring")
       \/ pc' = "approval" /\ UNCHANGED <<stored, task, judged, seen, asked, act>>
    /\ UNCHANGED <<goal, history, context, trust, bounds>>

\* runIrreversibleApprovalCheck asks again even if the flag was approved.
Approval ==
    /\ pc = "approval"
    /\ \/ NeedsApproval(task) /\ Return("approval_denied")
       \/ /\ consent' = (consent \/ NeedsApproval(task))
          /\ pc' = "execute"
          /\ UNCHANGED <<stored, task, judged, seen, flagged, ran, act>>
    /\ UNCHANGED <<goal, history, context, trust, bounds>>

\* before_tool: a rejection is an execution that failed, and is verified too.
GuardrailRejects ==
    /\ pc = "execute"
    /\ success' = FALSE /\ pc' = "verify"
    /\ UNCHANGED <<goal, task, history, context, balance, verdict, previous, update, seen,
                   act, asked, bounds>>

\* executeTask marks the task running before it calls the adapter.
Start ==
    /\ pc = "execute"
    /\ task' = [task EXCEPT !.status = "running"]
    /\ pc' = "running"
    /\ UNCHANGED <<goal, history, context, balance, judged, seen, act, asked, bounds>>

\* The adapter returns, finds a duplicate, throws or times out; the status is
\* its answer, and after_tool and the health check may still turn a success
\* into a failure that the file does not show.
Execute ==
    /\ pc = "running"
    /\ ran' = TRUE
    /\ \E s \in {"completed", "timed_out", "error"} :
        /\ task' = [task EXCEPT !.status = s]
        /\ success' \in (IF s = "completed" THEN BOOLEAN ELSE {FALSE})
    /\ pc' = "verify"
    /\ UNCHANGED <<goal, history, context, balance, verdict, previous, update, seen, act,
                   consent, flagged, bounds>>

\* verifyTask: an issue URL in the output of a success passes without further
\* verification and updates nothing; otherwise the layers decide, and the
\* update starts from the value the goal file has now.
VerifyByUrl ==
    /\ pc = "verify" /\ success
    /\ verdict' = "pass" /\ previous' = Unset /\ update' = Unset
    /\ pc' = "judge" /\ success' = FALSE
    /\ UNCHANGED <<goal, task, history, context, balance, seen, act, asked, bounds>>

Verify ==
    /\ pc = "verify"
    /\ \E m \in {"skipped", "passed", "failed"}, r, again \in Verdicts :
        verdict' = Resolved(m, r, again)
    /\ previous' = IF verdict' = "fail" THEN Unset ELSE val[task.dim]
    /\ update' = IF verdict' = "fail" THEN Unset ELSE Proposed(val[task.dim], verdict')
    /\ pc' = "judge" /\ success' = FALSE          \* not read again
    /\ UNCHANGED <<goal, task, history, context, balance, seen, act, asked, bounds>>

\* handleVerdict up to its first write of the task: the contradiction check,
\* the failure context (whose write may fail) and the trust record.
Judge ==
    /\ pc = "judge"
    /\ LET contradicted == /\ verdict = "pass" /\ update # Unset
                           /\ Worsened(task.dim, previous, update)
       IN  verdict' = IF contradicted THEN "partial" ELSE verdict
    /\ stored' = trust
    /\ context' \in {context, IF verdict' = "pass" THEN "none" ELSE verdict'}
    /\ \/ verdict' = "pass" /\ RecordSuccess /\ pc' = "record"
       \/ verdict' = "fail" /\ RecordFailure /\ pc' = "record"
       \/ verdict' = "partial" /\ UNCHANGED trust /\ pc' = "load"
    /\ UNCHANGED <<goal, task, history, success, previous, update, seen, act, asked, bounds>>

\* The task file gets the verdict: a pass clears the failures, a failure counts.
Record ==
    /\ pc = "record"
    /\ IF verdict = "pass"
         THEN task' = [task EXCEPT !.status = "completed", !.failures = 0] /\ pc' = "load"
         ELSE task' = [task EXCEPT !.failures = @ + 1] /\ pc' = "react"
    /\ UNCHANGED <<goal, history, context, balance, judged, seen, act, asked, bounds>>

\* handleFailure: the third failure and what cannot be reverted go to a human;
\* a revert that fails leaves the dimension uncertain.
FailureLimit == 3
React ==
    /\ pc = "react"
    /\ \/ /\ task.failures >= FailureLimit \/ task.reversibility # "reversible"
          /\ act' = "escalate" /\ pc' = "log"
       \/ /\ task.failures < FailureLimit /\ task.reversibility = "reversible"
          /\ \/ act' = "discard" /\ pc' = "log"
             \/ act' = "escalate" /\ pc' = "load"
    /\ UNCHANGED <<goal, task, history, context, balance, judged, seen, asked, bounds>>

\* The goal file is loaded, changed and written whole.
Load ==
    /\ pc = "load"
    /\ seenVal' = val /\ seenIntegrity' = integrity
    /\ pc' = "save"
    /\ UNCHANGED <<goal, task, history, context, balance, judged, act, asked, bounds>>

\* A verified update is applied if it agrees with the intention of the task.
Applied ==
    IF update # Unset /\ Agrees(task.intent, seenVal[task.dim], update)
      THEN [seenVal EXCEPT ![task.dim] = Clamped(@, update)]
      ELSE seenVal

Save ==
    /\ pc = "save"
    /\ IF verdict = "fail"
         THEN val' = seenVal /\ integrity' = [seenIntegrity EXCEPT ![task.dim] = "uncertain"]
         ELSE val' = Applied /\ integrity' = seenIntegrity
    /\ pc' = "log"
    /\ UNCHANGED <<task, history, context, balance, judged, seen, act, asked, bounds>>

\* appendTaskHistory, and the cycle returns.
Log ==
    /\ pc = "log"
    /\ history' = history \cup {task.status}
    /\ act' = CASE verdict = "pass" -> "completed"
                 [] verdict = "partial" -> "keep"
                 [] OTHER -> act
    /\ stored' = trust
    /\ Forget
    /\ UNCHANGED <<goal, context, trust, bounds>>

-----------------------------------------------------------------------------
(* Around the cycle *)

\* A call of a model or a write throws: the core loop catches it, and what was
\* written stays.
Throw ==
    /\ pc # "idle"
    /\ Forget /\ act' = "none" /\ stored' = trust
    /\ UNCHANGED <<goal, history, context, trust, bounds>>

\* The process dies and is started again: memory is lost.
Crash ==
    /\ crashes < MaxCrashes
    /\ crashes' = crashes + 1
    /\ Forget /\ act' = "none"
    /\ trust' \in {trust, stored} /\ stored' = trust'
    /\ UNCHANGED <<goal, history, context, cycles, edits>>

\* An observation between cycles, or another process at any time, writes a value.
Edit(d) ==
    /\ edits < MaxEdits
    /\ edits' = edits + 1
    /\ \E v \in Values : val' = [val EXCEPT ![d] = v]
    /\ UNCHANGED <<integrity, task, history, context, balance, pc, judged, seen, act, asked,
                   cycles, crashes>>

Next ==
    \/ \E d \in Dims : Generate(d) \/ Edit(d)
    \/ SkipDuplicate \/ Ethics \/ Capability \/ Approval
    \/ GuardrailRejects \/ Start \/ Execute \/ VerifyByUrl \/ Verify
    \/ Judge \/ Record \/ React \/ Load \/ Save \/ Log
    \/ Throw \/ Crash

Spec == Init /\ [][Next]_vars

-----------------------------------------------------------------------------
(* Properties *)

Steps == {"idle", "ethics", "capability", "approval", "execute", "running", "verify", "judge",
          "record", "react", "load", "save", "log"}

\* Every variable stays in its type, trust in its bounds; no task fails more
\* than once, as every cycle generates its own.
TypeOK ==
    /\ val \in [Dims -> Nat] /\ integrity \in [Dims -> {"ok", "uncertain"}]
    /\ task \in Task /\ history \subseteq Status /\ context \in Verdicts \cup {"none"}
    /\ trust \in -100..100 /\ stored \in -100..100
    /\ pc \in Steps /\ success \in BOOLEAN /\ verdict \in Verdicts
    /\ previous \in Nat \cup {Unset} /\ update \in Nat \cup {Unset}
    /\ seenVal \in [Dims -> Nat] /\ seenIntegrity \in [Dims -> {"ok", "uncertain"}]
    /\ act \in Actions
    /\ consent \in BOOLEAN /\ flagged \in BOOLEAN /\ ran \in BOOLEAN
    /\ cycles \in Nat /\ edits \in Nat /\ crashes \in Nat

\* The adapter gets a task that cannot be undone, may not be, was flagged or
\* falls under a permanent gate only if a human approved this very task.
Consent ==
    ran /\ (task.reversibility # "reversible" \/ flagged \/ Gated) => consent

\* What handling a verdict writes into the goal file differs from what it
\* loaded only in the task's dimension, only for a pass or a partial pass, not
\* against the task's intention, and by no more than the allowed change -
\* whatever was written since the update was computed.
SavesBounded ==
    \A d \in Dims : val'[d] # seenVal[d] =>
        /\ d = task.dim /\ verdict # "fail"
        /\ val'[d] <= seenVal[d] + MaxDelta(seenVal[d])
        /\ val'[d] >= seenVal[d] - MaxDelta(seenVal[d])
        /\ task.intent = "increase" => val'[d] >= seenVal[d]
        /\ task.intent = "decrease" => val'[d] <= seenVal[d]
UpdateBounded == [][pc = "save" /\ pc' = "log" => SavesBounded]_vars
=============================================================================
