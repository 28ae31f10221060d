------------------------------- MODULE Models -------------------------------
(***************************************************************************)
(* Calls of a language model (src/src/llm: base-llm-client.ts, llm-client, *)
(* openai-client, ollama-client, codex-llm-client) and the ethics gate     *)
(* that judges with one (src/src/traits/ethics-gate.ts).  A call is tried  *)
(* a few times; an answer that is not the JSON asked for may be asked for  *)
(* once more.  A verdict of the gate goes to a log that is read, appended  *)
(* to and written back, and checks of several tasks may overlap.           *)
(*                                                                         *)
(* Messages are left out; of an error only whether it is the client's own. *)
(***************************************************************************)
EXTENDS Naturals, FiniteSets

CONSTANTS
    MAX_RETRY_ATTEMPTS,          \* of one call
    Confidences,                 \* confidences a model may give, in tenths
    CONFIDENCE_FLAG_THRESHOLD,   \* below it a pass becomes a flag
    Checkers,                    \* tasks that have something checked
    MaxModelFaults               \* bound: crashes, and logs that cannot be written

ASSUME ModelsAssumption ==
    /\ MAX_RETRY_ATTEMPTS \in Nat \ {0} /\ Confidences \subseteq Nat
    /\ CONFIDENCE_FLAG_THRESHOLD \in Nat /\ MaxModelFaults \in Nat

Clients == {"anthropic", "openai", "ollama", "codex"}

VARIABLES
    client,      \* the provider, and whether guardrails and a retry of the parse are set
    callPc,      \* where the call stands
    tries,       \* attempts that failed
    reasked,     \* the model was asked for JSON once more
    callOutcome,     \* what the caller gets
    refused      \* history: a client error came back

callVars == <<client, callPc, tries, reasked, callOutcome, refused>>

CallInit ==
    /\ client \in [provider : Clients, guarded : BOOLEAN, retry : BOOLEAN]
    /\ callPc = "idle" /\ tries = 0 /\ reasked = FALSE /\ callOutcome = "none" /\ refused = FALSE

\* before_model: only the Anthropic client has guardrails.
Guarded == client.guarded /\ client.provider = "anthropic"
SendMessage ==
    /\ callPc = "idle"
    /\ tries' = 0 /\ reasked' = FALSE /\ refused' = FALSE
    /\ \/ callPc' = "attempt" /\ callOutcome' = "none"
       \/ Guarded /\ callOutcome' = "rejected" /\ UNCHANGED callPc
    /\ UNCHANGED client

\* An attempt that the provider refuses for what was sent is not repeated by two
\* of the clients; the OpenAI client looks for a prefix its library never gives,
\* and the one for Codex sees only exit codes.
MutGivesUp(clientError) == clientError /\ client.provider = "anthropic"
GivesUp(clientError) == clientError /\ client.provider \in {"anthropic", "ollama"}
AttemptFails ==
    /\ callPc = "attempt"
    /\ \E clientError \in BOOLEAN :
        /\ refused' = (refused \/ (clientError /\ client.provider \in {"anthropic", "ollama"}))
        /\ IF GivesUp(clientError) \/ tries + 1 = MAX_RETRY_ATTEMPTS
           THEN callPc' = "idle" /\ callOutcome' = "thrown" /\ tries' = tries + 1
           ELSE tries' = tries + 1 /\ UNCHANGED <<callPc, callOutcome>>
    /\ UNCHANGED <<client, reasked>>

\* after_model, then parseJSON(): asked once more, which only the Anthropic client
\* can, the call starts from the first attempt; there is no third time.
AttemptAnswers ==
    /\ callPc = "attempt"
    /\ \/ Guarded /\ callOutcome' = "rejected" /\ callPc' = "idle" /\ UNCHANGED <<tries, reasked>>
       \/ callOutcome' = "parsed" /\ callPc' = "idle" /\ UNCHANGED <<tries, reasked>>
       \/ IF client.retry /\ client.provider = "anthropic" /\ ~reasked
          THEN reasked' = TRUE /\ tries' = 0 /\ UNCHANGED <<callPc, callOutcome>>
          ELSE callOutcome' = "thrown" /\ callPc' = "idle" /\ UNCHANGED <<tries, reasked>>
    /\ UNCHANGED <<client, refused>>

CallStep == SendMessage \/ AttemptFails \/ AttemptAnswers

(***************************************************************************)
(* The ethics gate                                                         *)
(***************************************************************************)

VARIABLES
    checker,       \* of each task: where its check stands, its verdict and the log it read
    truth,         \* history: what the rules and the model said, the model's confidence
    ethicsLog,     \* ethics/ethics-log.json: whose verdicts are in it
    overlapped,    \* history: two checks were under way at once
    gateFaults

gateVars == <<checker, truth, ethicsLog, overlapped, gateFaults>>

Unchecked == [at |-> "idle", verdict |-> "none", read |-> {}]
GateInit ==
    /\ checker = [c \in Checkers |-> Unchecked]
    /\ truth = [c \in Checkers |-> [rule |-> FALSE, said |-> "none", confidence |-> 0]]
    /\ ethicsLog = {} /\ overlapped = FALSE /\ gateFaults = 0

Checking == {c \in Checkers : checker[c].at \in {"read", "write"}}
Now(c, at, verdict, read) == checker' = [checker EXCEPT ![c] = [at |-> at, verdict |-> verdict, read |-> read]]

\* applyConfidenceOverride(), and parseVerdictSafe() for what is not a verdict.
MutOverridden(said, confidence) == said
Overridden(said, confidence) ==
    IF said = "garbled" THEN "flag"
    ELSE IF said = "pass" /\ confidence < CONFIDENCE_FLAG_THRESHOLD THEN "flag" ELSE said

\* checkLayer1(): some rule matches what is checked.
Layer1Rejects(c) == truth' = [truth EXCEPT ![c].rule = TRUE]

\* check(), checkMeans(): a rule of the first layer rejects without a model.  A
\* call that throws, or a gateway that cannot parse, throws on.
Check(c) ==
    /\ checker[c].at = "idle"
    /\ \/ Layer1Rejects(c) /\ Now(c, "read", "reject", {})
       \/ \E said \in {"reject", "flag", "pass", "garbled"}, n \in Confidences :
            /\ truth' = [truth EXCEPT ![c] = [rule |-> FALSE, said |-> said, confidence |-> n]]
            /\ Now(c, "read", Overridden(said, n), {})
       \/ Now(c, "done", "none", {}) /\ UNCHANGED truth
    /\ overlapped' = (overlapped \/ (checker'[c].at = "read" /\ Checking # {}))
    /\ UNCHANGED <<ethicsLog, gateFaults>>

\* appendLog() reads, appends and writes; the verdict is given when it is done.
ReadLog(c) ==
    /\ checker[c].at = "read" /\ Now(c, "write", checker[c].verdict, ethicsLog)
    /\ UNCHANGED <<truth, ethicsLog, overlapped, gateFaults>>
MutWithVerdict(c) == {c}
WithVerdict(c) == checker[c].read \cup {c}
WriteLog(c) ==
    /\ checker[c].at = "write"
    /\ \/ ethicsLog' = WithVerdict(c) /\ Now(c, "done", checker[c].verdict, {}) /\ UNCHANGED gateFaults
       \/ /\ gateFaults < MaxModelFaults /\ gateFaults' = gateFaults + 1
          /\ Now(c, "done", "none", {}) /\ UNCHANGED ethicsLog
    /\ UNCHANGED <<truth, overlapped>>

GateStep == \E c \in Checkers : Check(c) \/ ReadLog(c) \/ WriteLog(c)

-----------------------------------------------------------------------------
\* Types of a call and of the gate.
ModelsTypeOK ==
    /\ callPc \in {"idle", "attempt"} /\ tries \in 0 .. MAX_RETRY_ATTEMPTS
    /\ reasked \in BOOLEAN /\ refused \in BOOLEAN
    /\ callOutcome \in {"none", "parsed", "thrown", "rejected"}
    /\ \A c \in Checkers : /\ checker[c].at \in {"idle", "read", "write", "done"}
                           /\ checker[c].verdict \in {"none", "reject", "flag", "pass"}
    /\ ethicsLog \subseteq Checkers

\* What a provider refuses for what was sent is not sent again (by the clients
\* that can tell), even when an answer was to be repeated for its form.
RefusedOnce == refused => callPc = "idle" /\ callOutcome # "parsed"

\* A task is only passed by the gate when no rule spoke against it and the model
\* was sure of it, and its verdict is in the log unless checks overlapped.
VerdictEarned ==
    \A c \in Checkers :
        /\ checker[c].verdict = "pass" =>
               ~truth[c].rule /\ truth[c].said = "pass"
               /\ truth[c].confidence >= CONFIDENCE_FLAG_THRESHOLD
        /\ checker[c].at = "done" /\ checker[c].verdict # "none" => c \in ethicsLog \/ overlapped
=============================================================================
