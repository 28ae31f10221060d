-------------------------- MODULE TaskCycleProofs --------------------------
(***************************************************************************)
(* Whatever the models answer, whoever writes the goal file and whenever   *)
(* the process dies: no task that needs a human's word runs without it,    *)
(* and no verdict moves a dimension further than it may.                   *)
(***************************************************************************)
EXTENDS TaskCycle, TLAPS

Before == {"idle", "ethics", "capability", "approval"}
Final  == {"react", "load", "save", "log"}

\* A task fails in the last steps of its cycle or never.
FailsLate == pc \notin Final => task.failures = 0

\* Who approved what, step by step: the flag first, then the rest, then the run.
Approved ==
    /\ flagged => consent
    /\ pc \in Before \cup {"execute"} => ~ran
    /\ pc \notin Before => (task.reversibility # "reversible" \/ Gated => consent)

CycleInv == TypeOK /\ FailsLate /\ Approved

USE TaskAssumption DEF TaskAssumption

-----------------------------------------------------------------------------
(* Records and numbers *)

LEMMA NewTaskType ==
  ASSUME NEW d \in Dims, NEW r \in {"reversible", "irreversible", "unknown"},
         NEW i \in {"increase", "decrease", "neutral"}
  PROVE  NewTask(d, r, i) \in Task /\ NewTask(d, r, i).failures = 0
  BY DEF NewTask, Task, Status

LEMMA NoTaskType == NoTask \in Task /\ NoTask.failures = 0
  BY NewTaskType DEF NoTask

\* A new status changes nothing else of a task.
LEMMA StatusExcept ==
  ASSUME NEW t \in Task, NEW s \in Status
  PROVE  /\ [t EXCEPT !.status = s] \in Task
         /\ [t EXCEPT !.status = s].reversibility = t.reversibility
         /\ [t EXCEPT !.status = s].failures = t.failures
  BY DEF Task

LEMMA BoundedType ==
  ASSUME NEW n \in Int
  PROVE  Bounded(n) \in -100..100
  BY DEF Bounded, Least, Most

LEMMA ProposedType ==
  ASSUME NEW n \in Nat, NEW v \in Verdicts
  PROVE  Proposed(n, v) \in Nat
  BY DEF Proposed, Progress, Least

\* The clamp stays within the allowed change and never turns an increase into
\* a decrease, or a decrease into an increase.
LEMMA ClampedBounds ==
  ASSUME NEW n \in Nat, NEW m \in Nat
  PROVE  /\ MaxDelta(n) \in Nat /\ Clamped(n, m) \in Nat
         /\ Clamped(n, m) <= n + MaxDelta(n)
         /\ Clamped(n, m) >= n - MaxDelta(n)
         /\ m >= n => Clamped(n, m) >= n
         /\ m <= n => Clamped(n, m) <= n
  <1>1. (n * 30) \div 100 \in Int
    OBVIOUS
  <1>2. MaxDelta(n) \in Nat
    BY <1>1 DEF MaxDelta, Most
  <1> QED
    BY <1>2 DEF Clamped, Least, Most

\* What a verified update leaves in the goal file.
LEMMA AppliedBounds ==
  ASSUME TypeOK
  PROVE  /\ Applied \in [Dims -> Nat]
         /\ \A d \in Dims : Applied[d] # seenVal[d] =>
              /\ d = task.dim
              /\ Applied[d] = Clamped(seenVal[d], update)
              /\ update \in Nat /\ Agrees(task.intent, seenVal[d], update)
  <1>1. task.dim \in Dims /\ seenVal \in [Dims -> Nat] /\ update \in Nat \cup {Unset}
    BY DEF TypeOK, Task
  <1>2. CASE update # Unset /\ Agrees(task.intent, seenVal[task.dim], update)
    <2>1. update \in Nat /\ seenVal[task.dim] \in Nat
      BY <1>1, <1>2
    <2>2. Clamped(seenVal[task.dim], update) \in Nat
      BY <2>1, ClampedBounds
    <2>3. Applied = [seenVal EXCEPT ![task.dim] = Clamped(seenVal[task.dim], update)]
      BY <1>1, <1>2 DEF Applied
    <2> QED
      BY <1>1, <1>2, <2>1, <2>2, <2>3
  <1>3. CASE ~(update # Unset /\ Agrees(task.intent, seenVal[task.dim], update))
    BY <1>1, <1>3 DEF Applied
  <1> QED
    BY <1>2, <1>3

-----------------------------------------------------------------------------
(* The invariant *)

LEMMA CycleInit == Init => CycleInv
  <1> SUFFICES ASSUME Init PROVE CycleInv
    OBVIOUS
  <1>1. val \in [Dims -> Nat]
    BY DEF Init
  <1>2. /\ integrity \in [Dims -> {"ok", "uncertain"}]
        /\ seenVal \in [Dims -> Nat] /\ seenIntegrity \in [Dims -> {"ok", "uncertain"}]
    BY DEF Init
  <1>3. task \in Task /\ task.failures = 0
    BY NoTaskType DEF Init
  <1>4. TypeOK
    <2>1. /\ pc \in Steps /\ verdict \in Verdicts /\ act \in Actions
          /\ history \subseteq Status /\ context \in Verdicts \cup {"none"}
          /\ previous \in Nat \cup {Unset} /\ update \in Nat \cup {Unset}
      BY DEF Init, Steps, Verdicts, Actions
    <2>2. /\ trust \in -100..100 /\ stored \in -100..100
          /\ cycles \in Nat /\ edits \in Nat /\ crashes \in Nat
      BY DEF Init
    <2>3. success \in BOOLEAN /\ consent \in BOOLEAN /\ flagged \in BOOLEAN /\ ran \in BOOLEAN
      BY DEF Init
    <2> QED
      BY <1>1, <1>2, <1>3, <2>1, <2>2, <2>3 DEF TypeOK
  <1>5. FailsLate /\ Approved
    BY <1>3 DEF Init, FailsLate, Approved, Before
  <1> QED
    BY <1>4, <1>5 DEF CycleInv

\* What every return, throw and crash leaves behind.
LEMMA ForgetClears ==
  ASSUME Forget
  PROVE  /\ pc' = "idle" /\ task' \in Task /\ task'.failures = 0
         /\ success' = FALSE /\ verdict' \in Verdicts
         /\ previous' = Unset /\ update' = Unset
         /\ consent' = FALSE /\ flagged' = FALSE /\ ran' = FALSE
         /\ seenVal' \in [Dims -> Nat] /\ seenIntegrity' \in [Dims -> {"ok", "uncertain"}]
  BY NoTaskType DEF Forget, Verdicts

\* An early return, a throw and a crash keep the invariant.
LEMMA ForgetInv ==
  ASSUME CycleInv, Forget, UNCHANGED goal,
         history' \subseteq Status, context' \in Verdicts \cup {"none"},
         trust' \in -100..100, stored' \in -100..100, act' \in Actions,
         cycles' \in Nat, edits' \in Nat, crashes' \in Nat
  PROVE  CycleInv'
  <1>1. TypeOK'
    BY ForgetClears DEF CycleInv, TypeOK, goal, Steps
  <1>2. FailsLate' /\ Approved'
    BY ForgetClears DEF FailsLate, Approved, Before
  <1> QED
    BY <1>1, <1>2 DEF CycleInv

LEMMA ReturnInv ==
  ASSUME CycleInv, NEW a \in Actions, Return(a),
         UNCHANGED <<goal, history, context, trust, edits, crashes>>, cycles' \in Nat
  PROVE  CycleInv'
  BY ForgetInv DEF Return, CycleInv, TypeOK

LEMMA EarlySteps ==
  ASSUME CycleInv, (\E d \in Dims : Generate(d)) \/ SkipDuplicate \/ Ethics \/ Capability \/ Approval
  PROVE  CycleInv'
  <1> USE DEF CycleInv
  <1>1. ASSUME NEW d \in Dims, Generate(d) PROVE CycleInv'
    <2>1. task' \in Task /\ task'.failures = 0
      BY <1>1, NewTaskType DEF Generate
    <2>2. /\ pc' = "ethics" /\ act' = "none" /\ cycles' = cycles + 1
          /\ consent' = FALSE /\ flagged' = FALSE /\ ran' = FALSE
          /\ UNCHANGED <<goal, history, context, balance, judged, seen, edits, crashes>>
      BY <1>1 DEF Generate
    <2>3. TypeOK'
      <3>1. consent' \in BOOLEAN /\ flagged' \in BOOLEAN /\ ran' \in BOOLEAN
        BY <2>2
      <3>2. pc' \in Steps /\ act' \in Actions /\ cycles' \in Nat
        BY <2>2 DEF TypeOK, Steps, Actions
      <3> QED
        BY <2>1, <2>2, <3>1, <3>2 DEF TypeOK, goal, balance, judged, seen
    <2>4. FailsLate' /\ Approved'
      BY <2>1, <2>2 DEF FailsLate, Approved, Before
    <2> QED
      BY <2>3, <2>4
  <1>2. CASE SkipDuplicate
    BY <1>2, ReturnInv DEF SkipDuplicate, Actions, TypeOK
  <1>3. CASE Ethics
    <2>1. CASE Return("discard") \/ Return("approval_denied")
      BY <1>3, <2>1, ReturnInv DEF Ethics, Actions, TypeOK, bounds
    <2>2. CASE pc' = "capability"
      <3>1. ~Return("discard") /\ ~Return("approval_denied")
        BY <2>2 DEF Return, Forget
      <3>2. PICK f \in BOOLEAN : flagged' = f /\ consent' = f
        BY <1>3, <3>1 DEF Ethics
      <3>3. /\ UNCHANGED <<stored, task, judged, seen, ran, act>>
            /\ UNCHANGED <<goal, history, context, trust, bounds>> /\ pc = "ethics"
        BY <1>3, <3>1 DEF Ethics
      <3>4. TypeOK'
        BY <2>2, <3>2, <3>3 DEF TypeOK, goal, judged, seen, bounds, Steps
      <3>5. FailsLate' /\ Approved'
        BY <2>2, <3>2, <3>3 DEF FailsLate, Approved, Before, Final
      <3> QED
        BY <3>4, <3>5
    <2> QED
      BY <1>3, <2>1, <2>2 DEF Ethics
  <1>4. CASE Capability
    <2>1. CASE Return("escalate") \/ Return("capability_acquiring")
      BY <1>4, <2>1, ReturnInv DEF Capability, Actions, TypeOK, bounds
    <2>2. CASE /\ pc' = "approval" /\ UNCHANGED <<stored, task, judged, seen, asked, act>>
               /\ UNCHANGED <<goal, history, context, trust, bounds>> /\ pc = "capability"
      <3>1. TypeOK'
        BY <2>2 DEF TypeOK, goal, judged, seen, asked, bounds, Steps
      <3>2. FailsLate' /\ Approved'
        BY <2>2 DEF FailsLate, Approved, Before, Final, asked
      <3> QED
        BY <3>1, <3>2
    <2> QED
      BY <1>4, <2>1, <2>2 DEF Capability
  <1>5. CASE Approval
    <2>1. CASE Return("approval_denied")
      BY <1>5, <2>1, ReturnInv DEF Approval, Actions, TypeOK, bounds
    <2>2. CASE /\ pc = "approval" /\ pc' = "execute" /\ consent' = (consent \/ NeedsApproval(task))
               /\ UNCHANGED <<stored, task, judged, seen, flagged, ran, act>>
               /\ UNCHANGED <<goal, history, context, trust, bounds>>
      <3>1. consent' \in BOOLEAN
        BY <2>2 DEF TypeOK, NeedsApproval
      <3>2. TypeOK'
        BY <2>2, <3>1 DEF TypeOK, goal, judged, seen, bounds, Steps
      <3>3. task.reversibility # "reversible" \/ Gated => NeedsApproval(task)
        BY DEF TypeOK, Task, NeedsApproval
      <3>4. FailsLate' /\ Approved'
        BY <2>2, <3>3 DEF FailsLate, Approved, Before, Final
      <3> QED
        BY <3>2, <3>4
    <2> QED
      BY <1>5, <2>1, <2>2 DEF Approval
  <1> QED
    BY <1>1, <1>2, <1>3, <1>4, <1>5

\* The steps that run the task and judge it.
LEMMA RunSteps ==
  ASSUME CycleInv, GuardrailRejects \/ Start \/ Execute \/ VerifyByUrl \/ Verify
  PROVE  CycleInv'
  <1> USE DEF CycleInv
  <1>1. CASE GuardrailRejects
    <2>1. TypeOK'
      BY <1>1 DEF GuardrailRejects, TypeOK, goal, balance, seen, asked, bounds, Steps
    <2>2. FailsLate' /\ Approved'
      BY <1>1 DEF GuardrailRejects, FailsLate, Approved, Before, Final, asked
    <2> QED
      BY <2>1, <2>2
  <1>2. CASE Start
    <2> task \in Task /\ task.failures = 0 /\ "running" \in Status
      BY <1>2 DEF Start, TypeOK, FailsLate, Status, Final
    <2>1. task' \in Task /\ task'.reversibility = task.reversibility /\ task'.failures = 0
      <3>1. task' = [task EXCEPT !.status = "running"]
        BY <1>2 DEF Start
      <3> QED
        BY <3>1, StatusExcept
    <2>2. /\ pc = "execute" /\ pc' = "running"
          /\ UNCHANGED <<goal, history, context, balance, judged, seen, act, asked, bounds>>
      BY <1>2 DEF Start
    <2>3. TypeOK'
      BY <2>1, <2>2 DEF TypeOK, goal, balance, judged, seen, asked, bounds, Steps
    <2>4. FailsLate' /\ Approved'
      BY <2>1, <2>2 DEF FailsLate, Approved, Before, asked
    <2> QED
      BY <2>3, <2>4
  <1>3. CASE Execute
    <2>1. PICK s \in {"completed", "timed_out", "error"} :
            /\ task' = [task EXCEPT !.status = s]
            /\ success' \in (IF s = "completed" THEN BOOLEAN ELSE {FALSE})
      BY <1>3 DEF Execute
    <2> task \in Task /\ task.failures = 0 /\ s \in Status
      BY <1>3 DEF Execute, TypeOK, FailsLate, Status, Final
    <2>2. task' \in Task /\ task'.reversibility = task.reversibility /\ task'.failures = 0
      BY <2>1, StatusExcept
    <2>3. /\ pc = "running" /\ pc' = "verify" /\ ran' = TRUE
          /\ UNCHANGED <<goal, history, context, balance, verdict, previous, update, seen,
                         act, consent, flagged, bounds>>
      BY <1>3 DEF Execute
    <2>4. success' \in BOOLEAN
      BY <2>1
    <2>5. TypeOK'
      BY <2>2, <2>3, <2>4 DEF TypeOK, goal, balance, seen, bounds, Steps
    <2>6. FailsLate' /\ Approved'
      BY <2>2, <2>3 DEF FailsLate, Approved, Before
    <2> QED
      BY <2>5, <2>6
  <1>4. CASE VerifyByUrl
    <2>1. TypeOK'
      BY <1>4 DEF VerifyByUrl, TypeOK, goal, balance, seen, asked, bounds, Steps, Verdicts
    <2>2. FailsLate' /\ Approved'
      BY <1>4 DEF VerifyByUrl, FailsLate, Approved, Before, Final, asked
    <2> QED
      BY <2>1, <2>2
  <1>5. CASE Verify
    <2>1. PICK m \in {"skipped", "passed", "failed"}, r \in Verdicts, again \in Verdicts :
            verdict' = Resolved(m, r, again)
      BY <1>5 DEF Verify
    <2>2. verdict' \in Verdicts
      BY <2>1 DEF Resolved, Verdicts
    <2>3. val[task.dim] \in Nat /\ Proposed(val[task.dim], verdict') \in Nat
      BY <2>2, ProposedType DEF TypeOK, Task
    <2>4. previous' \in Nat \cup {Unset} /\ update' \in Nat \cup {Unset}
      BY <1>5, <2>3 DEF Verify
    <2>5. /\ pc = "verify" /\ pc' = "judge" /\ success' = FALSE
          /\ UNCHANGED <<goal, task, history, context, balance, seen, act, asked, bounds>>
      BY <1>5 DEF Verify
    <2>6. TypeOK'
      BY <2>2, <2>4, <2>5 DEF TypeOK, goal, balance, seen, asked, bounds, Steps
    <2>7. FailsLate' /\ Approved'
      BY <2>5 DEF FailsLate, Approved, Before, Final, asked
    <2> QED
      BY <2>6, <2>7
  <1> QED
    BY <1>1, <1>2, <1>3, <1>4, <1>5

\* The steps that carry the verdict out.
LEMMA VerdictSteps ==
  ASSUME CycleInv, Judge \/ Record \/ React \/ Load \/ Save \/ Log
  PROVE  CycleInv'
  <1> USE DEF CycleInv
  <1>1. CASE Judge
    <2>1. /\ pc = "judge" /\ pc' \in {"record", "load"} /\ stored' = trust
          /\ UNCHANGED <<goal, task, history, success, previous, update, seen, act, asked, bounds>>
      BY <1>1 DEF Judge
    <2>2. verdict' \in Verdicts
      BY <1>1 DEF Judge, TypeOK, Verdicts
    <2>3. context' \in Verdicts \cup {"none"}
      BY <1>1, <2>2 DEF Judge, TypeOK
    <2>4. trust' \in -100..100
      BY <1>1, BoundedType DEF Judge, TypeOK, RecordSuccess, RecordFailure, SuccessDelta,
         FailureDelta
    <2>5. TypeOK'
      BY <2>1, <2>2, <2>3, <2>4 DEF TypeOK, goal, seen, asked, bounds, Steps
    <2>6. FailsLate' /\ Approved'
      BY <2>1 DEF FailsLate, Approved, Before, Final, asked
    <2> QED
      BY <2>5, <2>6
  <1>2. CASE Record
    <2>1. /\ pc = "record" /\ pc' \in {"load", "react"}
          /\ UNCHANGED <<goal, history, context, balance, judged, seen, act, asked, bounds>>
      BY <1>2 DEF Record
    <2>2. task.failures = 0 /\ task \in Task
      BY <2>1 DEF FailsLate, Final, TypeOK
    <2>3. task' \in Task /\ task'.reversibility = task.reversibility
      <3>1. \/ task' = [task EXCEPT !.status = "completed", !.failures = 0]
            \/ task' = [task EXCEPT !.failures = 1]
        BY <1>2, <2>2 DEF Record
      <3> QED
        <4> HIDE DEF CycleInv
        <4>1. CASE task' = [task EXCEPT !.status = "completed", !.failures = 0]
          <5>1. "completed" \in Status /\ 0 \in 0..1
            BY DEF Status
          <5> QED
            BY <2>2, <4>1, <5>1 DEF Task
        <4>2. CASE task' = [task EXCEPT !.failures = 1]
          <5>1. 1 \in 0..1
            OBVIOUS
          <5> QED
            BY <2>2, <4>2, <5>1 DEF Task
        <4> QED
          BY <3>1, <4>1, <4>2
    <2>4. TypeOK'
      BY <2>1, <2>3 DEF TypeOK, goal, balance, judged, seen, asked, bounds, Steps
    <2>5. FailsLate' /\ Approved'
      BY <2>1, <2>3 DEF FailsLate, Approved, Before, Final, asked
    <2> QED
      BY <2>4, <2>5
  <1>3. CASE React
    <2>1. /\ pc = "react" /\ pc' \in {"log", "load"} /\ act' \in Actions
          /\ UNCHANGED <<goal, task, history, context, balance, judged, seen, asked, bounds>>
      BY <1>3 DEF React, Actions
    <2>2. TypeOK'
      BY <2>1 DEF TypeOK, goal, balance, judged, seen, asked, bounds, Steps
    <2>3. FailsLate' /\ Approved'
      BY <2>1 DEF FailsLate, Approved, Before, Final, asked
    <2> QED
      BY <2>2, <2>3
  <1>4. CASE Load
    <2>1. TypeOK'
      BY <1>4 DEF Load, TypeOK, goal, balance, judged, asked, bounds, Steps
    <2>2. FailsLate' /\ Approved'
      BY <1>4 DEF Load, FailsLate, Approved, Before, Final, asked
    <2> QED
      BY <2>1, <2>2
  <1>5. CASE Save
    <2>1. val' \in [Dims -> Nat]
      BY <1>5, AppliedBounds DEF Save, TypeOK
    <2>2. integrity' \in [Dims -> {"ok", "uncertain"}]
      BY <1>5 DEF Save, TypeOK
    <2>3. /\ pc = "save" /\ pc' = "log"
          /\ UNCHANGED <<task, history, context, balance, judged, seen, act, asked, bounds>>
      BY <1>5 DEF Save
    <2>4. TypeOK'
      BY <2>1, <2>2, <2>3 DEF TypeOK, balance, judged, seen, asked, bounds, Steps
    <2>5. FailsLate' /\ Approved'
      BY <2>3 DEF FailsLate, Approved, Before, Final, asked
    <2> QED
      BY <2>4, <2>5
  <1>6. CASE Log
    <2>1. act' \in Actions
      BY <1>6 DEF Log, TypeOK, Actions
    <2>2. history' \subseteq Status
      BY <1>6 DEF Log, TypeOK, Task
    <2> QED
      BY <1>6, <2>1, <2>2, ForgetInv DEF Log, TypeOK, bounds
  <1> QED
    BY <1>1, <1>2, <1>3, <1>4, <1>5, <1>6

\* What may happen between the steps.
LEMMA OutsideSteps ==
  ASSUME CycleInv, Throw \/ Crash \/ (\E d \in Dims : Edit(d))
  PROVE  CycleInv'
  <1> USE DEF CycleInv
  <1>1. CASE Throw
    BY <1>1, ForgetInv DEF Throw, TypeOK, Actions, bounds
  <1>2. CASE Crash
    BY <1>2, ForgetInv DEF Crash, TypeOK, Actions
  <1>3. ASSUME NEW d \in Dims, Edit(d) PROVE CycleInv'
    <2>1. val' \in [Dims -> Nat]
      BY <1>3 DEF Edit, TypeOK
    <2>2. /\ edits' = edits + 1
          /\ UNCHANGED <<integrity, task, history, context, balance, pc, judged, seen, act,
                         asked, cycles, crashes>>
      BY <1>3 DEF Edit
    <2>3. TypeOK'
      BY <2>1, <2>2 DEF TypeOK, balance, judged, seen, asked
    <2>4. FailsLate' /\ Approved'
      BY <2>2 DEF FailsLate, Approved, asked
    <2> QED
      BY <2>3, <2>4
  <1> QED
    BY <1>1, <1>2, <1>3

LEMMA CycleStutter == CycleInv /\ UNCHANGED vars => CycleInv'
  BY DEF CycleInv, TypeOK, FailsLate, Approved, vars, goal, balance, judged, seen, asked, bounds

THEOREM CycleInvariant == Spec => []CycleInv
  <1>1. Init => CycleInv
    BY CycleInit
  <1>2. CycleInv /\ [Next]_vars => CycleInv'
    BY EarlySteps, RunSteps, VerdictSteps, OutsideSteps, CycleStutter DEF Next
  <1> QED
    BY <1>1, <1>2, PTL DEF Spec

-----------------------------------------------------------------------------
(* The theorems *)

\* Every reachable state is well typed: trust stays within its bounds, no value
\* goes below zero and no task of a cycle fails twice, however long the loop runs.
THEOREM CycleTyped == Spec => []TypeOK
  BY CycleInvariant, PTL DEF CycleInv

\* A task that needs approval reaches the adapter only with it, for every goal,
\* whatever the gates say and whenever the process died before.
THEOREM ConsentFirst == Spec => []Consent
  <1>1. CycleInv => Consent
    BY DEF CycleInv, Approved, Before, Consent
  <1> QED
    BY <1>1, CycleInvariant, PTL

\* A verdict moves the goal file only as far as the clamp allows, in the
\* task's dimension and not against its intention, whatever else was written.
THEOREM UpdatesBounded == Spec => UpdateBounded
  <1>1. CycleInv /\ [Next]_vars => [pc = "save" /\ pc' = "log" => SavesBounded]_vars
    <2> SUFFICES ASSUME CycleInv, Next, pc = "save", pc' = "log" PROVE SavesBounded
      BY DEF vars
    <2> TypeOK
      BY DEF CycleInv
    <2>1. Save
      BY DEF Next, Generate, SkipDuplicate, Ethics, Capability, Approval, GuardrailRejects, Start,
         Execute, VerifyByUrl, Verify, Judge, Record, React, Load, Log, Throw, Crash, Edit, Forget,
         Return
    <2> SUFFICES ASSUME NEW d \in Dims, val'[d] # seenVal[d]
                 PROVE  /\ d = task.dim /\ verdict # "fail"
                        /\ val'[d] <= seenVal[d] + MaxDelta(seenVal[d])
                        /\ val'[d] >= seenVal[d] - MaxDelta(seenVal[d])
                        /\ task.intent = "increase" => val'[d] >= seenVal[d]
                        /\ task.intent = "decrease" => val'[d] <= seenVal[d]
      BY DEF SavesBounded
    <2>2. verdict # "fail" /\ val' = Applied
      BY <2>1 DEF Save
    <2>3. /\ d = task.dim /\ val'[d] = Clamped(seenVal[d], update)
          /\ update \in Nat /\ Agrees(task.intent, seenVal[d], update)
      BY <2>2, AppliedBounds
    <2>4. seenVal[d] \in Nat
      BY DEF TypeOK
    <2> QED
      BY <2>2, <2>3, <2>4, ClampedBounds DEF Agrees
  <1> QED
    BY <1>1, CycleInvariant, PTL DEF Spec, UpdateBounded
=============================================================================
