------------------------------- MODULE Agents -------------------------------
(***************************************************************************)
(* How an adapter waits for an agent (src/src/adapters): the ACP adapter   *)
(* keeps one process and matches answers to requests by their id; the A2A  *)
(* adapter follows a task of another machine over a stream or by polling;  *)
(* the issue adapter looks for an open issue like the one it is to create. *)
(* Each has a timer, and the agent goes on after it.                       *)
(*                                                                         *)
(* What is asked and answered is left out.  The other machine and the      *)
(* tracker are modelled by what the adapters rely on.                      *)
(***************************************************************************)
EXTENDS Naturals, FiniteSets

CONSTANTS
    MaxRequests,      \* bound: requests over ACP
    MaxWait,          \* maxWaitMs, in polls
    Creators,         \* tasks that create the same issue at once
    MaxIssues         \* bound: issues ever created

ASSUME AgentsAssumption == MaxRequests \in Nat /\ MaxWait \in Nat /\ MaxIssues \in Nat

Requests == 1 .. MaxRequests

VARIABLES
    child,         \* the process: a signal leaves its exitCode null
    request,       \* requestId
    pending,       \* requests that sendRequest() waits for: tasks may share the adapter
    working,       \* requests the agent works on
    answers,       \* answers on their way
    sessionKey,    \* the request whose answer gave the key, 0 if none
    acpResult      \* of each request: stopped_reason, and the answer it was taken from

acpVars == <<child, request, pending, working, answers, sessionKey, acpResult>>

AcpInit ==
    /\ child = "none" /\ request = 0 /\ pending = {} /\ working = {} /\ answers = {}
    /\ sessionKey = 0 /\ acpResult = [i \in Requests |-> [from |-> 0, reason |-> "none"]]

AcpReport(S, from, reason) ==
    /\ acpResult' = [i \in Requests |-> IF i \in S THEN [from |-> from, reason |-> reason] ELSE acpResult[i]]
    /\ pending' = pending \ S

\* execute() starts the process unless it has one without an exit code.
MustSpawn == child \in {"none", "exited"}
ExecuteACP ==
    /\ request < MaxRequests
    /\ request' = request + 1 /\ pending' = pending \cup {request'}
    /\ IF MustSpawn
       THEN child' = "alive" /\ working' = {request'} /\ answers' = {}
       ELSE /\ working' = IF child = "alive" THEN working \cup {request'} ELSE working
            /\ UNCHANGED <<child, answers>>
    /\ UNCHANGED <<sessionKey, acpResult>>

\* The agent answers when it likes, with a result or an error.
AgentAnswers ==
    /\ \E id \in working, kind \in {"result", "error"} :
        answers' = answers \cup {[id |-> id, kind |-> kind]} /\ working' = working \ {id}
    /\ UNCHANGED <<child, request, pending, sessionKey, acpResult>>

\* onData() of each request takes the answer to it and skips any other.
MutTakenBy(a) == pending
TakenBy(a) == pending \cap {a.id}
OnData ==
    /\ \E a \in answers :
        /\ answers' = answers \ {a}
        /\ AcpReport(TakenBy(a), a.id, IF a.kind = "result" THEN "completed" ELSE "error")
        /\ sessionKey' = IF TakenBy(a) # {} /\ a.kind = "result" THEN a.id ELSE sessionKey
    /\ UNCHANGED <<child, request, working>>

\* onError(), onClose(): the process is gone; killed, it still looks alive.
OnClose ==
    /\ child = "alive" /\ child' \in {"exited", "killed"}
    /\ working' = {} /\ answers' = {} /\ AcpReport(pending, 0, "error")
    /\ UNCHANGED <<request, sessionKey>>

\* The timer of a request ends the waiting, not the agent.
MutTimesOut(i) == i \in pending /\ child = "alive"
TimesOut(i) == i \in pending
OnAbort(i) ==
    /\ TimesOut(i) /\ AcpReport({i}, 0, "timeout")
    /\ UNCHANGED <<child, request, working, answers, sessionKey>>

AcpStep == ExecuteACP \/ AgentAnswers \/ OnData \/ OnClose \/ \E i \in Requests : OnAbort(i)

(***************************************************************************)
(* A2A                                                                     *)
(***************************************************************************)

VARIABLES
    remote,      \* the state of the task on the other machine
    a2aPc,       \* where execute() stands
    seen,        \* the last task that came over the stream
    polls,       \* polls so far
    aborted,     \* the timer of the task has run out
    a2aResult    \* stopped_reason

a2aVars == <<remote, a2aPc, seen, polls, aborted, a2aResult>>

Terminal == {"completed", "failed", "canceled", "rejected"}
A2AStates == {"submitted", "working", "input-required", "auth-required"} \cup Terminal

A2AInit ==
    remote = "none" /\ a2aPc = "idle" /\ seen = "none" /\ polls = 0 /\ aborted = FALSE
    /\ a2aResult = "none"

A2AReport(reason) == a2aResult' = reason /\ a2aPc' = "idle"

\* mapTaskToResult(): what is canceled counts as timed out; what wants input, or
\* is in no final state, as an error.
MutReasonOf(state) == IF state \in {"failed", "rejected"} THEN "error" ELSE "completed"
ReasonOf(state) ==
    CASE state = "completed" -> "completed" [] state = "canceled" -> "timeout" [] OTHER -> "error"

\* execute() streams if the agent's card says it can, and polls otherwise.
ExecuteA2A ==
    /\ a2aPc = "idle" /\ remote' = "submitted" /\ a2aPc' \in {"stream", "send"}
    /\ seen' = "none" /\ polls' = 0 /\ aborted' = FALSE /\ a2aResult' = "none"

\* The other machine.
RemoteMoves ==
    /\ remote \notin Terminal \cup {"none"} /\ remote' \in A2AStates \ {remote, "submitted"}
    /\ UNCHANGED <<a2aPc, seen, polls, aborted, a2aResult>>
TimerRunsOut ==
    /\ a2aPc # "idle" /\ ~aborted /\ aborted' = TRUE
    /\ UNCHANGED <<remote, a2aPc, seen, polls, a2aResult>>

\* A call fails: after the timer it counts as timed out.
CallFails ==
    /\ a2aPc # "idle" /\ ~(a2aPc = "poll" /\ polls = MaxWait)
    /\ A2AReport(IF aborted THEN "timeout" ELSE "error")
    /\ UNCHANGED <<remote, seen, polls, aborted>>

\* sendMessage() and getTask() answer with the task as it is.
Answered ==
    IF remote \in Terminal THEN A2AReport(ReasonOf(remote)) ELSE a2aPc' = "poll" /\ UNCHANGED a2aResult
SendTask ==
    /\ a2aPc = "send" /\ Answered
    /\ UNCHANGED <<remote, seen, polls, aborted>>

\* waitForCompletion(): asks to cancel the task only when it has waited too long.
WaitForCompletion ==
    /\ a2aPc = "poll"
    /\ IF polls = MaxWait
       THEN /\ remote' \in {remote} \cup IF remote \in Terminal THEN {} ELSE {"canceled"}
            /\ A2AReport("timeout") /\ UNCHANGED polls
       ELSE IF aborted THEN A2AReport("timeout") /\ UNCHANGED <<remote, polls>>
       ELSE Answered /\ polls' = polls + 1 /\ UNCHANGED remote
    /\ UNCHANGED <<seen, aborted>>

\* sendMessageStream(): only a whole task is kept, not an update of its status,
\* and what was seen last is what counts when the stream ends.
StreamTask ==
    /\ a2aPc = "stream" /\ ~aborted /\ seen' = remote
    /\ UNCHANGED <<remote, a2aPc, polls, aborted, a2aResult>>
StreamEnds ==
    /\ a2aPc = "stream"
    /\ A2AReport(IF aborted THEN "timeout" ELSE IF seen = "none" THEN "error" ELSE ReasonOf(seen))
    /\ UNCHANGED <<remote, seen, polls, aborted>>

A2AStep ==
    \/ ExecuteA2A \/ RemoteMoves \/ TimerRunsOut \/ CallFails \/ SendTask
    \/ WaitForCompletion \/ StreamTask \/ StreamEnds

(***************************************************************************)
(* Issues                                                                  *)
(***************************************************************************)

VARIABLES
    issues,      \* open issues with the title of the task
    creator,     \* where each task stands
    listed,      \* history: issues there were when a task looked, MaxIssues + 1 if it could not
    doubled      \* history: an issue was created that none of the looks would have shown

issueVars == <<issues, creator, listed, doubled>>

IssueInit ==
    /\ issues = 0 /\ creator = [c \in Creators |-> "idle"]
    /\ listed = [c \in Creators |-> 0] /\ doubled = FALSE

\* checkOpenIssueExists(): if gh fails, it counts as not there.
MutFound(c, shown) == FALSE
Found(c, shown) == shown /\ issues > 0
CheckOpenIssueExists(c) ==
    /\ creator[c] = "idle"
    /\ \E shown \in BOOLEAN :
        /\ creator' = [creator EXCEPT ![c] = IF Found(c, shown) THEN "skipped" ELSE "create"]
        /\ listed' = [listed EXCEPT ![c] = IF shown THEN issues ELSE MaxIssues + 1]
    /\ UNCHANGED <<issues, doubled>>

\* spawnCreate(): the issue may be there although the call failed or ran out of
\* time; a repository that is not detected ends it before.
SpawnCreate(c) ==
    /\ creator[c] = "create" /\ issues < MaxIssues
    /\ \E created \in BOOLEAN :
        /\ issues' = IF created THEN issues + 1 ELSE issues
        /\ doubled' = (doubled \/ (created /\ listed[c] # issues))
        /\ creator' \in {[creator EXCEPT ![c] = r] :
                            r \in {"error", "timeout"} \cup IF created THEN {"completed"} ELSE {}}
    /\ UNCHANGED listed

\* The same task comes again.
Again(c) ==
    /\ creator[c] \notin {"idle", "create"} /\ creator' = [creator EXCEPT ![c] = "idle"]
    /\ listed' = [listed EXCEPT ![c] = 0] /\ UNCHANGED <<issues, doubled>>

IssueStep == \E c \in Creators : CheckOpenIssueExists(c) \/ SpawnCreate(c) \/ Again(c)

-----------------------------------------------------------------------------
\* Types of the three.
AgentsTypeOK ==
    /\ child \in {"none", "alive", "exited", "killed"} /\ request \in 0 .. MaxRequests
    /\ pending \subseteq 1 .. request /\ working \subseteq Requests /\ sessionKey \in 0 .. request
    /\ answers \subseteq [id : Requests, kind : {"result", "error"}]
    /\ \A i \in Requests : acpResult[i].reason \in {"none", "completed", "error", "timeout"}
    /\ remote \in A2AStates \cup {"none"} /\ seen \in A2AStates \cup {"none"} /\ polls \in 0 .. MaxWait
    /\ a2aPc \in {"idle", "send", "poll", "stream"} /\ aborted \in BOOLEAN
    /\ a2aResult \in {"none", "completed", "error", "timeout"}
    /\ issues \in 0 .. MaxIssues
    /\ creator \in [Creators -> {"idle", "create", "skipped", "completed", "error", "timeout"}]

\* Over ACP a request that is reported as completed was answered itself, however
\* late the answers to others come, and so was the one whose session goes on.
OwnAnswer ==
    /\ \A i \in Requests : acpResult[i].reason = "completed" => acpResult[i].from = i
    /\ sessionKey # 0 => acpResult[sessionKey].reason = "completed"

\* Over A2A a task that is reported as completed has been completed.
RemoteCompleted == a2aResult = "completed" => remote = "completed"

\* There is one issue for a task, also after a call that failed although it had
\* created it, unless the list could not be read or another task came between.
OneIssue == issues > 1 => doubled
=============================================================================
