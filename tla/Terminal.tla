------------------------------ MODULE Terminal ------------------------------
(***************************************************************************)
(* The terminal interface (src/src/tui): commands typed into the chat, the *)
(* controller that starts, watches and stops the one CoreLoop, and the     *)
(* overlay that asks the user to approve a task.                           *)
(*                                                                         *)
(* Commands are handled asynchronously, and one chosen from the list of    *)
(* suggestions is taken while others are still being handled.  A run goes  *)
(* on after stop() until it looks at the flag.  What is drawn follows the  *)
(* state of the component at some later time, and a key answers what is    *)
(* drawn.                                                                  *)
(*                                                                         *)
(* Left out: commands that touch neither the loop nor a request; the       *)
(* progress and trust that are polled (only whether the interval is set);  *)
(* the results of a run other than "stopped" (one value, "ended"); and     *)
(* requests made before the interface is mounted, as nothing starts the    *)
(* loop before.                                                            *)
(***************************************************************************)
EXTENDS Naturals, FiniteSets, Sequences

CONSTANTS Runnable,     \* goals on file that are active or waiting
          GoalIds,      \* ids a command may spell out, of these goals and of others
          NoGoal,
          MaxRuns,      \* bound: runs of the loop
          MaxQuestions, \* bound: questions put to the user
          MaxCommands   \* bound: commands typed

ASSUME TerminalAssumption == Runnable \subseteq GoalIds /\ MaxRuns \in Nat /\ MaxQuestions \in Nat /\ MaxCommands \in Nat

VARIABLES dash,      \* what the controller says: running, status, goal, poll
          starting,  \* goals whose start() is still reading the first state
          loops,     \* the runs of CoreLoop: goal, under way or not, question waited for
          halt,      \* CoreLoop.stopped
          questions, \* requests made: by which run, the answer, the keys pressed on it
          asked,     \* approvalRequest and its ref: number of the question, or 0
          drawn,     \* the question on the screen, or 0
          inFlight,  \* commands being handled
          typed,     \* how many were typed
          mounted,
          hasty      \* for the model: a stop came while something was under way

tuiVars == <<dash, starting, loops, halt, questions, asked, drawn, inFlight,
             typed, mounted, hasty>>

Underway == {r \in DOMAIN loops : loops[r].on}
Quiet == Underway = {} /\ starting = <<>>

TuiInit ==
    /\ dash = [running |-> FALSE, status |-> "idle", goal |-> NoGoal, poll |-> FALSE]
    /\ starting = <<>> /\ loops = <<>> /\ halt = FALSE
    /\ questions = <<>> /\ asked = 0 /\ drawn = 0
    /\ inFlight = {} /\ typed = 0 /\ mounted = TRUE /\ hasty = FALSE

-----------------------------------------------------------------------------
\* The chat takes a command if no overlay has its place.
Type ==
    /\ mounted /\ drawn = 0 /\ typed < MaxCommands
    /\ \E what \in {"start", "start id", "stop"} :
         \E name \in CASE what = "start"    -> {NoGoal} \cup Runnable
                       [] what = "start id" -> GoalIds
                       [] what = "stop"     -> {NoGoal} :
           inFlight' = inFlight \cup {[n |-> typed + 1, what |-> what, name |-> name]}
    /\ typed' = typed + 1
    /\ UNCHANGED <<dash, starting, loops, halt, questions, asked, drawn, mounted, hasty>>

\* ActionHandler.handleStart(): the goal of the id given, whatever it is; the goal
\* named, or the only one there is, if it can run.
Chosen(c) ==
    CASE c.what = "start id" -> {c.name}
      [] c.what = "start"    -> IF c.name # NoGoal THEN Runnable \cap {c.name}
                                ELSE IF Cardinality(Runnable) = 1 THEN Runnable ELSE {}

\* LoopController.start() up to its first await.
MutMayLaunch == TRUE
MayLaunch == ~dash.running
Start(g) ==
    /\ IF MayLaunch
       THEN /\ dash' = [dash EXCEPT !.running = TRUE, !.status = "running", !.goal = g]
            /\ starting' = Append(starting, g)
       ELSE UNCHANGED <<dash, starting>>
    /\ UNCHANGED <<halt, questions, asked, hasty>>

\* A promise is resolved once; a second answer does nothing.
Answer(q, a) ==
    IF q # 0 /\ questions[q].answer = "none"
    THEN [questions EXCEPT ![q].answer = a] ELSE questions

\* LoopController.stop().
Halted ==
    /\ halt' = TRUE
    /\ dash' = [running |-> FALSE, status |-> "stopped", goal |-> NoGoal, poll |-> FALSE]
    /\ hasty' = (hasty \/ ~Quiet)
    /\ UNCHANGED <<starting, loops>>

\* The command stop rejects the open question first.
MutStop == Halted /\ asked' = 0 /\ UNCHANGED questions
Stop == Halted /\ questions' = Answer(asked, "no") /\ asked' = 0

\* handleInput() after the intent is recognised and its action has answered.
Handle ==
    /\ \E c \in inFlight :
         /\ inFlight' = inFlight \ {c}
         /\ \/ c.what = "stop" /\ Stop
            \/ /\ c.what # "stop"
               /\ LET g == Chosen(c)
                  IN \/ g # {} /\ \E x \in g : Start(x)
                     \/ g = {} /\ UNCHANGED <<dash, starting, halt, questions, asked, hasty>>
    /\ UNCHANGED <<loops, drawn, typed, mounted>>

\* start() after the first refresh: the interval is set and run() begins, which
\* clears the flag, whatever was said in the meantime.
Run ==
    /\ starting # <<>> /\ Len(loops) < MaxRuns
    /\ starting' = Tail(starting)
    /\ loops' = Append(loops, [goal |-> Head(starting), on |-> TRUE, waits |-> 0])
    /\ halt' = FALSE /\ dash' = [dash EXCEPT !.poll = TRUE]
    /\ UNCHANGED <<questions, asked, drawn, inFlight, typed, mounted, hasty>>

\* A refresh rejects, the first of start() or a later one: nobody waits for it, and
\* a rejection nobody handles ends the process.
RefreshRejects ==
    /\ starting # <<>> \/ loops # <<>>
    /\ dash' = [running |-> FALSE, status |-> "idle", goal |-> NoGoal, poll |-> FALSE]
    /\ starting' = <<>> /\ loops' = <<>> /\ halt' = FALSE /\ hasty' = FALSE
    /\ questions' = <<>> /\ asked' = 0 /\ drawn' = 0 /\ inFlight' = {} /\ mounted' = FALSE
    /\ UNCHANGED typed

-----------------------------------------------------------------------------
\* approvalFn(): the handler of the interface keeps the last request.  A run of a
\* goal that cannot run ends before it asks.
Ask ==
    /\ Len(questions) < MaxQuestions
    /\ \E r \in Underway :
         /\ loops[r].waits = 0 /\ loops[r].goal \in Runnable
         /\ questions' = Append(questions, [by |-> r, answer |-> "none", keys |-> {}])
         /\ loops' = [loops EXCEPT ![r].waits = Len(questions) + 1]
    /\ asked' = Len(questions) + 1
    /\ UNCHANGED <<dash, starting, halt, drawn, inFlight, typed, mounted, hasty>>

Draw ==
    /\ mounted /\ drawn # asked /\ drawn' = asked
    /\ UNCHANGED <<dash, starting, loops, halt, questions, asked, inFlight, typed, mounted, hasty>>

\* ApprovalOverlay: the key answers the request the overlay was drawn with.
MutMeant == asked
Meant == drawn
Key ==
    /\ mounted /\ drawn # 0
    /\ \E k \in {"yes", "no"} :
         questions' = [Answer(Meant, k) EXCEPT ![drawn].keys = @ \cup {k}]
    /\ asked' = 0
    /\ UNCHANGED <<dash, starting, loops, halt, drawn, inFlight, typed, mounted, hasty>>

\* The task goes on with the answer, after files have been read and so not before
\* the screen has followed.
Resume ==
    /\ \E r \in Underway :
         /\ loops[r].waits \notin {0, drawn}
         /\ questions[loops[r].waits].answer # "none"
         /\ loops' = [loops EXCEPT ![r].waits = 0]
    /\ UNCHANGED <<dash, starting, halt, questions, asked, drawn, inFlight, typed, mounted, hasty>>

\* The run ends, by itself or as it was told to, and its then() or catch()
\* speaks for the controller.
RunEnds ==
    /\ \E r \in Underway :
         /\ loops[r].waits = 0
         /\ loops' = [loops EXCEPT ![r].on = FALSE]
         /\ \E s \in {"ended"} \cup IF halt THEN {"stopped"} ELSE {} :
              dash' = [dash EXCEPT !.running = FALSE, !.status = s, !.poll = FALSE]
         /\ hasty' = (hasty /\ ~(Underway = {r} /\ starting = <<>>))
    /\ UNCHANGED <<starting, halt, questions, asked, drawn, inFlight, typed, mounted>>

\* The interface is closed: the hook stops the loop and leaves the question.
Unmount ==
    /\ mounted /\ mounted' = FALSE /\ Halted /\ drawn' = 0
    /\ UNCHANGED <<questions, asked, inFlight, typed>>

TuiStep ==
    \/ Type \/ Handle \/ Run \/ RefreshRejects \/ Ask \/ Draw \/ Key \/ Resume \/ RunEnds \/ Unmount

-----------------------------------------------------------------------------
\* Types of the terminal interface.
TuiTypeOK ==
    /\ dash.status \in {"idle", "running", "stopped", "ended"}
    /\ asked \in 0 .. Len(questions) /\ drawn \in 0 .. Len(questions)
    /\ typed \in 0 .. MaxCommands /\ halt \in BOOLEAN

\* A task is let through only by a yes pressed while it was on the screen,
\* though another request may have taken its place before it was drawn, and a
\* stop may be handled in between.
ApprovedAsShown ==
    \A q \in DOMAIN questions : questions[q].answer = "yes" => "yes" \in questions[q].keys

\* A request that waits is the one asked, unless another run asked too, and so a
\* run that is alone never waits for an answer nobody can give.
NoneLost ==
    mounted =>
      \A q \in DOMAIN questions :
        questions[q].answer = "none" /\ asked # q =>
          \E p \in DOMAIN questions : questions[p].by # questions[q].by

\* What the dashboard says is so, and one run at most is under way, as long as
\* no stop has overtaken a run that still goes on.
DashTells ==
    ~hasty =>
      /\ Cardinality(Underway) + Len(starting) <= 1
      /\ dash.running = ~Quiet
      /\ dash.poll = (Underway # {})
      /\ \A r \in Underway : dash.goal = loops[r].goal
=============================================================================
