----------------------------- MODULE MCServices -----------------------------
(***************************************************************************)
(* The services of the loop for TLC: the files of a goal, a group of       *)
(* tasks, reports and notices, events, sessions and stage checkpoints, the *)
(* pipeline and the breaker of its adapters, agents, and calls of language *)
(* models, the terminal interface, the log file, and the judgement of a    *)
(* task.  No two of them share a variable: the first to move in a          *)
(* behaviour is the only one that does.                                    *)
(***************************************************************************)
EXTENDS AtomicFile, ParallelGroup, Reports, Events, Sessions, Pipeline, Agents, Models, Processes, Terminal, LogFile,
        Review

VARIABLE part

Parts == {"file", "group", "summary", "notice", "events", "session", "checkpoint",
          "pipeline", "breaker", "acp", "a2a", "issue", "call", "gate", "process", "terminal",
          "log", "review"}

servicesVars == <<vars, groupVars, repVars, eventVars, sessVars, pipeVars, breakerVars,
                  acpVars, a2aVars, issueVars, callVars, gateVars, procVars, tuiVars, logVars,
                  reviewVars, part>>

\* Only the parts named by who may change their variables.
Only(who) ==
    /\ part \in who /\ UNCHANGED part
    /\ IF part = "file" THEN TRUE ELSE UNCHANGED vars
    /\ IF part = "group" THEN TRUE ELSE UNCHANGED groupVars
    /\ IF part \in {"summary", "notice"} THEN TRUE ELSE UNCHANGED repVars
    /\ IF part = "events" THEN TRUE ELSE UNCHANGED eventVars
    /\ IF part \in {"session", "checkpoint"} THEN TRUE ELSE UNCHANGED sessVars
    /\ IF part = "pipeline" THEN TRUE ELSE UNCHANGED pipeVars
    /\ IF part = "breaker" THEN TRUE ELSE UNCHANGED breakerVars
    /\ IF part = "acp" THEN TRUE ELSE UNCHANGED acpVars
    /\ IF part = "a2a" THEN TRUE ELSE UNCHANGED a2aVars
    /\ IF part = "issue" THEN TRUE ELSE UNCHANGED issueVars
    /\ IF part = "call" THEN TRUE ELSE UNCHANGED callVars
    /\ IF part = "gate" THEN TRUE ELSE UNCHANGED gateVars
    /\ IF part = "process" THEN TRUE ELSE UNCHANGED procVars
    /\ IF part = "terminal" THEN TRUE ELSE UNCHANGED tuiVars
    /\ IF part = "log" THEN TRUE ELSE UNCHANGED logVars
    /\ IF part = "review" THEN TRUE ELSE UNCHANGED reviewVars

\* What is a choice for one part is settled for all others.
Settled ==
    /\ part = "pipeline" \/ options = CHOOSE o \in Options : TRUE
    /\ part = "events" \/ schedule = {}
    /\ part = "call" \/ client = [provider |-> "openai", guarded |-> TRUE, retry |-> TRUE]
    /\ part = "review" \/ given = [registry |-> TRUE, command |-> TRUE, url |-> FALSE]

ServicesInit ==
    /\ Init /\ GroupInit /\ RepInit /\ EventsInit /\ SessInit /\ PipeInit /\ BreakerInit
    /\ AcpInit /\ A2AInit /\ IssueInit /\ CallInit /\ GateInit /\ ProcInit /\ TuiInit /\ LogInit /\ ReviewInit
    /\ part \in Parts /\ Settled

FileSteps       == Only({"file"}) /\ Next
GroupSteps      == Only({"group"}) /\ GroupNext
SummarySteps    == Only({"summary"}) /\ SummaryStep
NoticeSteps     == Only({"notice"}) /\ NoticeStep
EventSteps      == Only({"events"}) /\ EventsNext
SessionSteps    == Only({"session"}) /\ SessionStep
CheckpointSteps == Only({"checkpoint"}) /\ CheckpointStep
PipelineSteps   == Only({"pipeline"}) /\ PipelineStep
BreakerSteps    == Only({"breaker"}) /\ BreakerStep
AcpSteps        == Only({"acp"}) /\ AcpStep
A2ASteps        == Only({"a2a"}) /\ A2AStep
IssueSteps      == Only({"issue"}) /\ IssueStep
CallSteps       == Only({"call"}) /\ CallStep
GateSteps       == Only({"gate"}) /\ GateStep
ProcessSteps    == Only({"process"}) /\ ProcStep
TerminalSteps   == Only({"terminal"}) /\ TuiStep
ReviewSteps     == Only({"review"}) /\ ReviewNext
LogSteps        == Only({"log"}) /\ LogNext

ServicesNext ==
    \/ FileSteps \/ GroupSteps \/ SummarySteps \/ NoticeSteps \/ EventSteps
    \/ SessionSteps \/ CheckpointSteps \/ PipelineSteps \/ BreakerSteps
    \/ AcpSteps \/ A2ASteps \/ IssueSteps \/ CallSteps \/ GateSteps \/ ProcessSteps
    \/ TerminalSteps \/ LogSteps \/ ReviewSteps

\* Fair are the workers of a group (FairGroupSpec), the timer of every request,
\* the events, the timer and the last signal of a process, and a review with its
\* timers: not the answers of agents and models.
ServicesFairness ==
    /\ WF_servicesVars(Only({"group"}) /\ Work)
    /\ \A i \in Requests : WF_servicesVars(Only({"acp"}) /\ OnAbort(i))
    /\ WF_servicesVars(Only({"process"}) /\ (OnProcessError \/ OnProcessClose \/ TimerFires \/ Kill))
    /\ WF_servicesVars(Only({"review"}) /\ ReviewMoves)

ServicesSpec == ServicesInit /\ [][ServicesNext]_servicesVars /\ ServicesFairness

\* Types of the services but those of the file and the group, which have theorems
\* of their own.
TypesOK ==
    CASE part \in {"summary", "notice"} -> RepTypeOK
      [] part = "events" -> EventsTypeOK
      [] part \in {"session", "checkpoint"} -> SessTypeOK
      [] part \in {"pipeline", "breaker"} -> PipeTypeOK
      [] part \in {"acp", "a2a", "issue"} -> AgentsTypeOK
      [] part \in {"call", "gate"} -> ModelsTypeOK
      [] part = "process" -> ProcTypeOK
      [] part = "terminal" -> TuiTypeOK
      [] part = "log" -> LogTypeOK
      [] part = "review" -> ReviewTypeOK
      [] OTHER -> TRUE

\* What each service promises the loop: a summary adds up, a notice keeps its
\* distance, an event stays visible until it is handled, a session keeps within
\* its budget and is found again, a stage's checkpoint loads; a planned stage
\* waits for its plan and the verdict is that of the stages, a failing adapter
\* is left alone, an answer belongs to its request, a remote success is one, an
\* issue is created once, what a client refused is not asked again, and what the
\* ethics gate let pass it had judged, the caller of a process is told once, the
\* terminal approves what was seen, loses no question and tells what goes on, the
\* log tells what happened in its order, and a verdict is earned and told when
\* nothing of it is left to do.
ServicesSound ==
    CASE part = "summary" -> SumsAgree
      [] part = "notice" -> SpacedOut
      [] part = "events" -> EventVisible
      [] part \in {"session", "checkpoint"} -> WithinBudget /\ SessionsFound /\ CheckpointLoads
      [] part = "pipeline" -> PlanFirst /\ VerdictSound /\ FileFollows
      [] part = "breaker" -> BreakerHolds
      [] part = "acp" -> OwnAnswer
      [] part = "a2a" -> RemoteCompleted
      [] part = "issue" -> OneIssue
      [] part = "call" -> RefusedOnce
      [] part = "gate" -> VerdictEarned
      [] part = "process" -> ToldOnce
      [] part = "terminal" -> ApprovedAsShown /\ NoneLost /\ DashTells
      [] part = "log" -> LogOrdered
      [] part = "review" -> RulingEarned /\ NothingLeftOpen
      [] OTHER -> TRUE

\* What was started comes to an end: every group of tasks, knots included; every
\* request over ACP, whatever becomes of the process; a call of the model through
\* codex, even if the program does not listen to the signal; and the judgement of
\* a task by a verdict or an error, whether or not the model ever answers.
Started(i) ==
    CASE part = "group" -> groupPc = "waves"
      [] part = "acp" -> i \in pending
      [] part = "process" -> call = "codex" /\ Waiting
      [] part = "review" -> reviewPc = "open"
      [] OTHER -> FALSE
Ended(i) ==
    CASE part = "group" -> groupPc = "idle"
      [] part = "acp" -> i \notin pending
      [] part = "process" -> ~ Waiting
      [] part = "review" -> Over \/ reviewPc = "thrown"
      [] OTHER -> TRUE
WorkEnds == \A i \in Requests : Started(i) ~> Ended(i)

\* Test bounds.
Hours == [n \in Notices |-> IF n = "stall" THEN 2 ELSE 0]
TwoChannels == <<{}, {"stall"}>>
=============================================================================
