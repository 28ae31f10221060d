----------------------------- MODULE Processes -----------------------------
(***************************************************************************)
(* One call that is answered by a child process, or by a model in place of *)
(* one: the command-line agents (src/src/adapters/spawn-helper.ts and its  *)
(* callers), the model reached through the codex program                   *)
(* (src/src/llm/codex-llm-client.ts), the search for the repository of an  *)
(* issue (src/src/adapters/github-issue.ts: gh, and git if gh does not     *)
(* know) and the agent that is a model (src/src/adapters/claude-api.ts).   *)
(*                                                                         *)
(* Node tells of a process by two events, error and close: a process that  *)
(* could not be started gives both, one that ended gives close once nobody *)
(* holds its output any more.                                              *)
(***************************************************************************)
EXTENDS Integers

CONSTANT MaxCalls    \* bound: calls

ASSUME ProcessAssumption == MaxCalls \in Nat

VARIABLES
    call,        \* who waits: "agent", "codex", "gh", "git" or "api"
    process,     \* "none", "unstarted", "running", "ended" or "closed"
    code,        \* its exit code, -1 for none
    timedOut,    \* the timer has run out
    report,      \* what the caller was told
    told,     \* history: how often the caller was told something
    calls

procVars == <<call, process, code, timedOut, report, told, calls>>

ProcInit ==
    /\ call = "agent" /\ process = "none" /\ code = -1 /\ timedOut = FALSE
    /\ report = "settled" /\ told = 0 /\ calls = 0

Waiting == report = "none"

\* settled, resolved, and for promises the first of two told: later ones are
\* passed over.
MutSettle(r) == report' = r /\ told' = told + 1
Settle(r) ==
    IF Waiting THEN report' = r /\ told' = told + 1 ELSE UNCHANGED <<report, told>>

Launch(c) ==
    /\ call' = c /\ code' = -1 /\ timedOut' = FALSE
    /\ process' \in {"running"} \cup IF c = "api" THEN {} ELSE {"unstarted"}

Begin ==
    /\ ~Waiting /\ process \in {"none", "closed"} /\ calls < MaxCalls /\ calls' = calls + 1
    /\ \E c \in {"agent", "codex", "gh", "api"} : Launch(c)
    /\ report' = "none" /\ told' = 0

\* spawnResultToAgentResult() and the others' own readings of the same three
\* facts; codex must have left a file, and git an address of GitHub.
MutReasons == IF code = 0 THEN {"completed"} ELSE {"error"}
Reasons ==
    IF timedOut THEN {IF call \in {"gh", "git"} THEN "error" ELSE "timeout"}
    ELSE IF code # 0 THEN {"error"}
    ELSE {"completed"} \cup IF call \in {"codex", "git"} THEN {"error"} ELSE {}

\* spawnGitRemote(): asked when gh does not know, if there is time left.
AskGit == Waiting /\ call = "gh" /\ ~timedOut
GitRemote == Launch("git") /\ UNCHANGED <<report, told>>

\* The event error, and after it close; that of gh finds resolved set.
OnProcessError ==
    /\ process = "unstarted"
    /\ IF AskGit THEN GitRemote
       ELSE /\ Settle("error")
            /\ process' = "ended" /\ UNCHANGED <<call, code, timedOut>>
    /\ UNCHANGED calls

Exits ==
    /\ process = "running" /\ process' = "ended" /\ code' \in {0, 1}
    /\ UNCHANGED <<call, timedOut, report, told, calls>>

\* The event close.  gh may end well without naming a repository.
OnProcessClose ==
    /\ process = "ended"
    /\ \/ AskGit /\ GitRemote
       \/ /\ AskGit => code = 0
          /\ \E r \in Reasons : Settle(r)
          /\ process' = "closed" /\ UNCHANGED <<call, code, timedOut>>
    /\ UNCHANGED calls

\* The timer asks the process to end, which it may do as it likes or not at
\* all; for the model it told itself.
TimerFires ==
    /\ Waiting /\ ~timedOut /\ timedOut' = TRUE
    /\ IF call = "api" THEN Settle("timeout") /\ UNCHANGED process
       ELSE /\ process' \in {process} \cup IF process = "running" THEN {"ended"} ELSE {}
            /\ UNCHANGED <<report, told>>
    /\ UNCHANGED <<call, code, calls>>

\* The codex client does not leave it at asking.
MutKills == FALSE
Kills == call = "codex" /\ timedOut
Kill ==
    /\ Kills /\ process = "running" /\ process' = "ended"
    /\ UNCHANGED <<call, code, timedOut, report, told, calls>>

ProcStep == Begin \/ OnProcessError \/ Exits \/ OnProcessClose \/ TimerFires \/ Kill

-----------------------------------------------------------------------------
\* Types of a call and its process.
ProcTypeOK ==
    /\ call \in {"agent", "codex", "gh", "git", "api"} /\ code \in {-1, 0, 1}
    /\ process \in {"none", "unstarted", "running", "ended", "closed"}
    /\ timedOut \in BOOLEAN /\ report \in {"settled", "none", "completed", "error", "timeout"}
    /\ calls \in 0 .. MaxCalls

\* The caller is told once, though there are three events that could tell it,
\* and is told of a success only if the process ended well within its time,
\* however it took the signal that came with the timer.
ToldOnce ==
    /\ told <= 1
    /\ report = "completed" => code = 0 /\ ~timedOut
    /\ report = "timeout" => timedOut
=============================================================================
