---------------------------- MODULE Negotiation ----------------------------
(***************************************************************************)
(* How a goal comes to be (src/src/goal/goal-negotiator.ts and its steps,   *)
(* src/src/cli/commands/goal-write.ts): the negotiation under a time limit, *)
(* what is stored of it, and what the caller does with the answer.          *)
(*                                                                         *)
(* The negotiation is raced against a timer and goes on when it loses.     *)
(* Dimensions are asked for together and assessed independently; what the  *)
(* models say is a choice.                                                 *)
(***************************************************************************)
EXTENDS Integers, FiniteSets

CONSTANTS
    NegDims,          \* dimensions a negotiation may come up with
    HasCapabilities   \* are adapter capabilities known (step 4b)

ASSUME NegotiationAssumption == NegDims # {} /\ HasCapabilities \in BOOLEAN

VARIABLES
    step,          \* where _negotiate is
    assessed,      \* feasibilityResults, by dimension
    asked,         \* the dimensions the goal was broken into
    response,      \* responseType
    initial,       \* initialConfidence
    goalFile,      \* goals/<id>/goal.json: its confidence_flag, or "none"
    logFile,       \* goals/<id>/negotiation-log.json
    caller         \* what the caller knows
negVars == <<step, assessed, asked, response, initial, goalFile, logFile, caller>>

Assessments  == {"realistic", "ambitious", "infeasible"}
Levels       == {"high", "medium", "low"}
Result == [assessment : Assessments, confidence : Levels]
\* A call that fails, or whose answer cannot be read, counts as this.
FailedEvaluation == [assessment |-> "ambitious", confidence |-> "low"]
Answers == {"accept", "counter_propose", "flag_as_ambitious"}
NotAsked == [d \in NegDims |-> [assessment |-> "realistic", confidence |-> "high"]]

-----------------------------------------------------------------------------
(* determineResponseType *)

Has(field, value) == \E d \in asked : assessed[d][field] = value
ResponseType == IF Has("assessment", "infeasible") THEN "counter_propose"
                ELSE IF Has("confidence", "low") THEN "flag_as_ambitious"
                ELSE "accept"
MutInitialConfidence == IF Has("confidence", "low") THEN "low"
                        ELSE IF Has("confidence", "medium") THEN "medium" ELSE "high"
InitialConfidence ==
    IF Has("assessment", "infeasible") \/ Has("confidence", "low") THEN "low"
    ELSE IF Has("confidence", "medium") THEN "medium" ELSE "high"

-----------------------------------------------------------------------------
NegInit ==
    /\ step = "ethics" /\ assessed = NotAsked /\ asked = {} /\ response = "accept"
    /\ initial = "high" /\ goalFile = "none" /\ logFile = FALSE /\ caller = "waiting"

\* An exception reaches the caller unless the timer came first.
Throw(told) == step' = "stopped" /\ caller' = IF caller = "waiting" THEN told ELSE caller
Files == UNCHANGED <<goalFile, logFile>>

EthicsCheck ==
    /\ step = "ethics" /\ Files /\ UNCHANGED <<assessed, asked, response, initial>>
    /\ \/ step' = "decompose" /\ UNCHANGED caller
       \/ \E told \in {"rejected", "failed"} : Throw(told)
\* runDecompositionStep and the baseline; an unreadable answer is an exception.
Decompose ==
    /\ step = "decompose" /\ Files /\ UNCHANGED <<assessed, response, initial>>
    /\ \/ step' = "evaluate" /\ asked' \in SUBSET NegDims /\ UNCHANGED caller
       \/ Throw("failed") /\ UNCHANGED asked
Evaluate ==
    /\ step = "evaluate" /\ Files /\ UNCHANGED <<asked, response, initial, caller>>
    /\ \E answers \in [asked -> Result \union {FailedEvaluation}] :
         assessed' = [d \in NegDims |-> IF d \in asked THEN answers[d] ELSE assessed[d]]
    /\ step' = IF HasCapabilities THEN "capability" ELSE "respond"
\* A gap that cannot be closed makes its dimension infeasible and leaves its
\* confidence; a failed call is passed over.
CapabilityCheck ==
    /\ step = "capability" /\ step' = "respond"
    /\ \E gaps \in SUBSET asked :
         assessed' = [d \in NegDims |-> IF d \in gaps
                          THEN [assessed[d] EXCEPT !.assessment = "infeasible"] ELSE assessed[d]]
    /\ Files /\ UNCHANGED <<asked, response, initial, caller>>
Respond ==
    /\ step = "respond" /\ Files /\ UNCHANGED <<assessed, asked>>
    /\ \/ /\ step' = "save" /\ response' = ResponseType /\ initial' = InitialConfidence
          /\ UNCHANGED caller
       \/ Throw("failed") /\ UNCHANGED <<response, initial>>
SaveNegotiated ==
    /\ step = "save" /\ UNCHANGED <<assessed, asked, response, initial, logFile>>
    /\ \/ step' = "log" /\ goalFile' = initial /\ UNCHANGED caller
       \/ Throw("failed") /\ UNCHANGED goalFile
MutSaveLog ==
    /\ step = "log" /\ UNCHANGED <<assessed, asked, response, initial, goalFile>>
    /\ step' = "stopped" /\ logFile' \in BOOLEAN
    /\ caller' = IF caller = "waiting" THEN "answered" ELSE caller
SaveLog ==
    /\ step = "log" /\ UNCHANGED <<assessed, asked, response, initial, goalFile>>
    /\ \/ /\ step' = "stopped" /\ logFile' = TRUE
          /\ caller' = IF caller = "waiting" THEN "answered" ELSE caller
       \/ Throw("failed") /\ UNCHANGED logFile

NegTimeout ==
    /\ caller = "waiting" /\ step # "stopped" /\ caller' = "timed_out"
    /\ UNCHANGED <<step, assessed, asked, response, initial, goalFile, logFile>>
\* The command ends with the answer it was given and takes the process with it.
CallerExits ==
    /\ caller \in {"timed_out", "failed", "rejected"} /\ step # "stopped" /\ step' = "stopped"
    /\ UNCHANGED <<assessed, asked, response, initial, goalFile, logFile, caller>>
\* A counter-proposal is put to the user; a refusal deletes the goal.
MutConfirm ==
    /\ caller = "answered" /\ UNCHANGED <<step, assessed, asked, response, initial>>
    /\ \/ caller' = "registered" /\ Files
       \/ /\ response = "counter_propose" /\ caller' = "declined" /\ Files
Confirm ==
    /\ caller = "answered" /\ UNCHANGED <<step, assessed, asked, response, initial>>
    /\ \/ caller' = "registered" /\ Files
       \/ /\ response = "counter_propose" /\ caller' = "declined"
          /\ goalFile' = "none" /\ logFile' = FALSE

NegNext == \/ EthicsCheck \/ Decompose \/ Evaluate \/ CapabilityCheck \/ Respond
           \/ SaveNegotiated \/ SaveLog \/ NegTimeout \/ CallerExits \/ Confirm

-----------------------------------------------------------------------------
\* Types of the negotiation and of what it stores.
NegTypeOK ==
    /\ step \in {"ethics", "decompose", "evaluate", "capability", "respond", "save", "log",
                 "stopped"}
    /\ assessed \in [NegDims -> Result] /\ asked \subseteq NegDims
    /\ response \in Answers /\ initial \in Levels /\ goalFile \in Levels \union {"none"}
    /\ logFile \in BOOLEAN
    /\ caller \in {"waiting", "answered", "rejected", "failed", "timed_out", "registered",
                   "declined"}

\* What the user is told is what the disk says: a registered goal is stored with
\* its log and a confidence its assessments justify (nothing above "low" with an
\* infeasible or doubtful dimension), and a rejected or refused one is not
\* stored, also when the timer, the exit or a failed write came in between.
RegisteredAsTold ==
    /\ caller = "registered" =>
         /\ logFile /\ goalFile # "none"
         /\ goalFile # "low" => \A d \in asked :
              assessed[d].assessment # "infeasible" /\ assessed[d].confidence # "low"
    /\ caller \in {"rejected", "declined"} => goalFile = "none" /\ ~logFile
=============================================================================
