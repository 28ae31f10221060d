------------------------------- MODULE Review -------------------------------
(***************************************************************************)
(* How a task is judged (verifyTask in src/src/execution/task-verifier.ts) *)
(* in detail: the command of its criterion, the reviews by a language      *)
(* model, each in a session of its own with a timer and retries, and the   *)
(* revert of what failed.  Of all that, TaskCycle has only the verdict.    *)
(*                                                                         *)
(* A call that was given up is still under way, and may be answered at any *)
(* later time.                                                             *)
(***************************************************************************)
EXTENDS Naturals, FiniteSets

CONSTANTS
    Registries,      \* is a registry of adapters handed to the TaskLifecycle?
    ReviewRetries,   \* maxRetries of the completion judger
    MaxReviewFaults  \* bound: failed reads and writes of sessions, goal and result

ASSUME ReviewAssumption ==
    Registries \subseteq BOOLEAN /\ ReviewRetries \in Nat /\ MaxReviewFaults \in Nat

Reviews == 1 .. 2
Tries == 1 .. ReviewRetries + 1
\* "odd" is JSON of another form, "garbled" no JSON, "none" the last try's failure.
Answers == {"pass", "partial", "fail", "odd", "garbled"}

VARIABLES
    given,           \* is there an adapter, a criterion that is a command, an issue's URL?
    reviewPc,
    layerOne,        \* what the command says
    review, reviewTry,   \* the review and the try under way
    unanswered,      \* calls not answered yet, <<review, try>>
    reviewAnswer,    \* what the review under way goes by
    reviewed,        \* the results of the reviews
    openReviews,     \* reviews whose session is active
    ruling,          \* the verdict
    onDisk,          \* verification-result.json
    undone,          \* the revert: did the model say that it undid the changes?
    marked,          \* state_integrity of the dimension is "uncertain"
    reviewFaults,
    onTime           \* history: answers that came before the timer, <<review, try, answer>>

reviewVars == <<given, reviewPc, layerOne, review, reviewTry, unanswered, reviewAnswer, reviewed,
                openReviews, ruling, onDisk, undone, marked, reviewFaults, onTime>>
reviewCalls == <<unanswered, onTime>>
reviewOut == <<ruling, onDisk, undone, marked>>

ReviewInit ==
    /\ given \in [registry : Registries, command : BOOLEAN, url : BOOLEAN]
    /\ reviewPc = "execute" /\ layerOne = "skip" /\ review = 0 /\ reviewTry = 0
    /\ unanswered = {} /\ reviewAnswer = "none" /\ reviewed = [r \in Reviews |-> "none"]
    /\ openReviews = {} /\ ruling = "none" /\ onDisk = "none" /\ undone = FALSE /\ marked = FALSE
    /\ reviewFaults = 0 /\ onTime = {}

ReviewFault == reviewFaults < MaxReviewFaults /\ reviewFaults' = reviewFaults + 1

(***************************************************************************)
(* The command                                                             *)
(***************************************************************************)

\* The URL of an issue in the output of a success passes at once, unsaved.
UrlPasses ==
    /\ reviewPc = "execute" /\ given.url
    /\ reviewPc' = "judged" /\ ruling' = "pass"
    /\ UNCHANGED <<given, layerOne, review, reviewTry, reviewCalls, reviewAnswer, reviewed, openReviews,
                   onDisk, undone, marked, reviewFaults>>

\* runMechanicalVerification(): a command that nothing can run counts as passed.
\* Neither cli/setup.ts nor tui/entry.ts hands over a registry.
RunCommand ==
    /\ reviewPc = "execute" /\ ~ given.url /\ reviewPc' = "open"
    /\ layerOne' \in IF ~ given.command THEN {"skip"}
                     ELSE IF ~ given.registry THEN {"assumed"} ELSE {"pass", "fail"}
    /\ UNCHANGED <<given, review, reviewTry, reviewCalls, reviewAnswer, reviewed, openReviews, reviewOut,
                   reviewFaults>>

(***************************************************************************)
(* A review                                                                *)
(***************************************************************************)

\* createSession(): one that fails ends the verification with an error.
OpenReview ==
    /\ reviewPc = "open"
    /\ \/ /\ reviewPc' = "ask" /\ review' = review + 1 /\ reviewTry' = 1
          /\ openReviews' = openReviews \cup {review'} /\ UNCHANGED reviewFaults
       \/ ReviewFault /\ reviewPc' = "thrown" /\ UNCHANGED <<review, reviewTry, openReviews>>
    /\ UNCHANGED <<given, layerOne, reviewCalls, reviewAnswer, reviewed, reviewOut>>

AskReviewer ==
    /\ reviewPc = "ask" /\ reviewPc' = "wait"
    /\ unanswered' = unanswered \cup {<<review, reviewTry>>}
    /\ UNCHANGED <<given, layerOne, review, reviewTry, reviewAnswer, reviewed, openReviews, reviewOut,
                   reviewFaults, onTime>>

\* withRetry(): what failed is tried again after a while.
TriedOut == reviewTry = ReviewRetries + 1

TryFails ==
    IF TriedOut THEN reviewPc' = "close" /\ reviewAnswer' = "none"
               ELSE reviewPc' = "backoff" /\ UNCHANGED reviewAnswer

\* withTimeout(): the promise is settled by what comes first; what is answered
\* later settles nothing.
MutAwaited(c) == c[1] = review /\ reviewPc \in {"wait", "backoff"}
Awaited(c) == c = <<review, reviewTry>> /\ reviewPc = "wait"

CallAnswered(c, a) ==
    /\ unanswered' = unanswered \ {c}
    /\ IF Awaited(c) THEN reviewAnswer' = a /\ reviewPc' = "close"
                     ELSE UNCHANGED <<reviewAnswer, reviewPc>>
    /\ onTime' = IF c = <<review, reviewTry>> /\ reviewPc = "wait"
                   THEN onTime \cup {<<c[1], c[2], a>>} ELSE onTime
    /\ UNCHANGED <<given, layerOne, review, reviewTry, reviewed, openReviews, reviewOut, reviewFaults>>

ReviewCallFails(c) ==
    /\ unanswered' = unanswered \ {c}
    /\ IF Awaited(c) THEN TryFails ELSE UNCHANGED <<reviewAnswer, reviewPc>>
    /\ UNCHANGED <<given, layerOne, review, reviewTry, reviewed, openReviews, reviewOut, reviewFaults,
                   onTime>>

MutReviewTimer == FALSE
ReviewTimer ==
    /\ reviewPc = "wait" /\ TryFails
    /\ UNCHANGED <<given, layerOne, review, reviewTry, reviewCalls, reviewed, openReviews, reviewOut,
                   reviewFaults>>

TryAgain ==
    /\ reviewPc = "backoff" /\ reviewPc' = "ask" /\ reviewTry' = reviewTry + 1
    /\ UNCHANGED <<given, layerOne, review, reviewCalls, reviewAnswer, reviewed, openReviews, reviewOut,
                   reviewFaults>>

\* The session is ended inside the try that reads the answer: if that fails, the
\* answer counts as one that could not be read, and the session is ended again.
\* It may have been ended all the same, with the index left to write.
MutEndReview(r) == UNCHANGED openReviews
EndReview(r) == openReviews' = openReviews \ {r}
CloseReview ==
    /\ reviewPc = "close"
    /\ \/ /\ reviewPc' = "resolve" /\ EndReview(review)
          /\ reviewed' = [reviewed EXCEPT ![review] =
                            IF reviewAnswer \in {"pass", "partial"} THEN reviewAnswer ELSE "fail"]
          /\ UNCHANGED <<reviewAnswer, reviewFaults>>
       \/ /\ ReviewFault /\ openReviews' \in {openReviews, openReviews \ {review}}
          /\ IF reviewAnswer \in {"none", "garbled"}
               THEN reviewPc' = "thrown" /\ UNCHANGED reviewAnswer
               ELSE reviewAnswer' = "garbled" /\ UNCHANGED reviewPc
          /\ UNCHANGED reviewed
    /\ UNCHANGED <<given, layerOne, review, reviewTry, reviewCalls, reviewOut>>

(***************************************************************************)
(* The verdict                                                             *)
(***************************************************************************)

\* What the command says comes first; a failing review beside a command that passed
\* is repeated, once.
MutVerdictOf == reviewed[review]
VerdictOf == IF layerOne = "fail" THEN "fail" ELSE reviewed[review]

Resolve ==
    /\ reviewPc = "resolve"
    /\ IF layerOne \in {"pass", "assumed"} /\ reviewed[review] = "fail" /\ review = 1
         THEN reviewPc' = "open" /\ UNCHANGED ruling
         ELSE reviewPc' = "save" /\ ruling' = VerdictOf
    /\ UNCHANGED <<given, layerOne, review, reviewTry, reviewCalls, reviewAnswer, reviewed, openReviews,
                   onDisk, undone, marked, reviewFaults>>

\* The goal is read and the result written; either may fail.
SaveResult ==
    /\ reviewPc = "save"
    /\ \/ reviewPc' = "judged" /\ onDisk' = ruling /\ UNCHANGED reviewFaults
       \/ ReviewFault /\ reviewPc' = "thrown" /\ UNCHANGED onDisk
    /\ UNCHANGED <<given, layerOne, review, reviewTry, reviewCalls, reviewAnswer, reviewed, openReviews,
                   ruling, undone, marked>>

(***************************************************************************)
(* attemptRevert(): no timer, and whatever goes wrong is a failed revert   *)
(***************************************************************************)

StartRevert ==
    /\ reviewPc = "judged" /\ ruling = "fail"
    /\ \/ reviewPc' = "reverting" /\ UNCHANGED reviewFaults
       \/ ReviewFault /\ reviewPc' = "mark"
    /\ UNCHANGED <<given, layerOne, review, reviewTry, reviewCalls, reviewAnswer, reviewed, openReviews,
                   reviewOut>>

\* What was undone is known only if the session could be ended and the answer read.
RevertAnswered ==
    /\ reviewPc = "reverting"
    /\ undone' \in BOOLEAN
    /\ \/ reviewPc' = (IF undone' THEN "discarded" ELSE "mark") /\ UNCHANGED reviewFaults
       \/ ReviewFault /\ reviewPc' = "mark"
    /\ UNCHANGED <<given, layerOne, review, reviewTry, reviewCalls, reviewAnswer, reviewed, openReviews,
                   ruling, onDisk, marked>>

RevertThrows ==
    /\ reviewPc = "reverting" /\ reviewPc' = "mark"
    /\ UNCHANGED <<given, layerOne, review, reviewTry, reviewCalls, reviewAnswer, reviewed, openReviews,
                   reviewOut, reviewFaults>>

\* setDimensionIntegrity(), before the task goes to a human.
Mark ==
    /\ reviewPc = "mark"
    /\ \/ reviewPc' = "escalated" /\ marked' = TRUE /\ UNCHANGED reviewFaults
       \/ ReviewFault /\ reviewPc' = "thrown" /\ UNCHANGED marked
    /\ UNCHANGED <<given, layerOne, review, reviewTry, reviewCalls, reviewAnswer, reviewed, openReviews,
                   ruling, onDisk, undone>>

\* What a review does by itself, its timers included.
ReviewMoves ==
    \/ OpenReview \/ AskReviewer \/ ReviewTimer \/ TryAgain \/ CloseReview
    \/ Resolve \/ SaveResult

ReviewNext ==
    \/ UrlPasses \/ RunCommand \/ ReviewMoves
    \/ \E c \in unanswered : ReviewCallFails(c) \/ \E a \in Answers : CallAnswered(c, a)
    \/ StartRevert \/ RevertAnswered \/ RevertThrows \/ Mark

(***************************************************************************)
(* Properties                                                              *)
(***************************************************************************)

ReviewTypeOK ==
    /\ layerOne \in {"skip", "assumed", "pass", "fail"} /\ review \in 0 .. 2 /\ reviewTry \in 0 .. ReviewRetries + 1
    /\ unanswered \subseteq Reviews \X Tries /\ reviewAnswer \in Answers \cup {"none"}
    /\ reviewed \in [Reviews -> {"none", "pass", "partial", "fail"}] /\ openReviews \subseteq Reviews
    /\ ruling \in {"none", "pass", "partial", "fail"} /\ reviewFaults \in 0 .. MaxReviewFaults

Over == reviewPc \in {"judged", "reverting", "mark", "discarded", "escalated"}

\* A good verdict is earned: no failing command is outvoted, and the last try of
\* the last review was answered with it before its timer - not an earlier try
\* that was given up and answered while the next was under way - and of an answer
\* only one counts.  A good answer in time is turned into a failure by a failing
\* command or a session that could not be ended, and by nothing else (verifyTask
\* with withRetry and withTimeout).
RulingEarned ==
    /\ ruling \in {"pass", "partial"} /\ ~ given.url =>
         /\ layerOne # "fail" /\ <<review, reviewTry, ruling>> \in onTime
         /\ review = 2 => layerOne \in {"pass", "assumed"} /\ reviewed[1] = "fail"
    /\ \A x, y \in onTime : x[1] = y[1] => x = y
    /\ ruling = "fail" /\ layerOne # "fail" /\ reviewFaults = 0 =>
         \A r \in 1 .. review, a \in {"pass", "partial"} : \A t \in Tries : <<r, t, a>> \notin onTime

\* When a verdict is given, every review's session has ended, what is on the disk
\* is the verdict, and a failed task whose changes stay is known to be uncertain
\* before a human is asked (endSession, writeRaw and setDimensionIntegrity, any of
\* which may fail).
NothingLeftOpen ==
    /\ Over => openReviews = {} /\ (given.url \/ onDisk = ruling)
    /\ reviewPc = "escalated" => marked
    /\ reviewPc = "discarded" => undone /\ ruling = "fail"

\* What is verified by running a command has passed only if the command was run
\* and passed: mechanical checks come first (runMechanicalVerification).
MechanicalFirst ==
    ruling \in {"pass", "partial"} /\ given.command /\ ~ given.url => layerOne = "pass"

ReviewSpec == ReviewInit /\ [][ReviewNext]_reviewVars
=============================================================================
