------------------------------ MODULE Curiosity ------------------------------
(***************************************************************************)
(* CuriosityEngine (src/src/traits/curiosity-engine.ts, -proposals.ts):    *)
(* when a run has ended, triggers in the goals lead to proposals of new    *)
(* goals, which the user approves or rejects.  Each answer of the model    *)
(* and of the ethics gate is waited for, and others act meanwhile; the     *)
(* state is in memory, loaded by those operations that wait, and saved     *)
(* with nobody waiting, so that saves may overtake one another.            *)
(*                                                                         *)
(* Of a description the hash is kept, of a goal what the triggers look at. *)
(***************************************************************************)
EXTENDS Integers, Sequences, FiniteSets, SequencesExt

CONSTANTS
    Descriptions,      \* of proposed goals
    GoalKinds,         \* what the goals may look like: a subset of CurGoals
    MaxActive,         \* max_active_proposals
    Expiry,            \* proposal_expiry_hours
    LoopLimit,         \* unproductive_loop_limit
    Period,            \* periodic_exploration_hours
    MaxProposals,      \* bound: proposals ever made
    MaxSaves,          \* bound: saves under way
    MaxCurHours,       \* bound: hours that pass
    MaxCurFaults       \* bound: saves that fail and restarts

\* A goal, and what is odd about it: a dimension whose escalation level is above
\* 0, one far from its history, or half of them observed with no confidence.
CurGoals == [origin : {"user", "curiosity"}, status : {"active", "waiting", "completed"},
             odd : {"nothing", "stalled", "deviates", "unclear"}]

ASSUME CuriosityAssumption ==
    /\ GoalKinds \subseteq CurGoals
    /\ MaxActive \in Nat /\ Expiry \in Nat /\ LoopLimit \in Nat \ {0} /\ Period \in Nat
    /\ MaxProposals \in Nat /\ MaxSaves \in Nat /\ MaxCurHours \in Nat /\ MaxCurFaults \in Nat

VARIABLES
    curiosity,     \* the state in memory: proposals, rejected hashes, last exploration
    loadedState,   \* _stateLoaded
    curFile,       \* curiosity/state.json
    saves,         \* saves under way, in order, and whether a later one has landed
    gen,           \* generateProposals(): where it stands, when it began, proposals
                   \* active then and made since, the item before the gate and
                   \* (history) whether it had been rejected
    refusedEver,   \* history: descriptions the user rejected
    forgotten,     \* history: a save was lost or overtaken
    curHour, curFaults

curVars == <<curiosity, loadedState, curFile, saves, gen, refusedEver,
             forgotten, curHour, curFaults>>

Never == -1
EmptyState == [proposals |-> <<>>, rejected |-> {}, explored |-> Never]
NoGeneration == [at |-> "no", began |-> 0, base |-> 0, made |-> 0,
                 item |-> CHOOSE d \in Descriptions : TRUE, again |-> FALSE]

CurInit ==
    /\ curiosity = EmptyState /\ loadedState = FALSE
    /\ curFile = EmptyState /\ saves = <<>>
    /\ gen = NoGeneration /\ refusedEver = {} /\ forgotten = FALSE
    /\ curHour = 0 /\ curFaults = 0

(***************************************************************************)
(* What is looked at                                                       *)
(***************************************************************************)

UserGoals(goals) == {g \in goals : g.origin # "curiosity"}
Shows(goals, what) == \E g \in goals : g.status = "active" /\ g.odd = what

TaskQueueEmpty(goals) ==
    UserGoals(goals) # {} /\ \A g \in UserGoals(goals) : g.status \in {"completed", "waiting"}
UnexpectedObservation(goals) == Shows(goals, "deviates")
RepeatedFailures(goals) == Shows(UserGoals(goals), "stalled")
UndefinedProblems(goals) == Shows(goals, "unclear")
PeriodicExploration(s) == s.explored = Never \/ curHour - s.explored >= Period

EvaluateTriggers(goals, s) ==
    {t \in {"task_queue_empty", "unexpected_observation", "repeated_failure",
            "undefined_problem", "periodic_exploration"} :
        CASE t = "task_queue_empty" -> TaskQueueEmpty(goals)
          [] t = "unexpected_observation" -> UnexpectedObservation(goals)
          [] t = "repeated_failure" -> RepeatedFailures(goals)
          [] t = "undefined_problem" -> UndefinedProblems(goals)
          [] t = "periodic_exploration" -> PeriodicExploration(s)}

\* The quick check looks for three of the five.
ShouldExplore(goals, s) ==
    TaskQueueEmpty(goals) \/ PeriodicExploration(s) \/ RepeatedFailures(goals)

\* Percent of the resources that curiosity may take.
ResourceBudget(goals) ==
    IF \A g \in UserGoals(goals) : g.status = "completed" THEN 100
    ELSE IF \A g \in UserGoals(goals) : g.status \in {"completed", "waiting"} THEN 50 ELSE 20

ActiveIn(s) == {i \in DOMAIN s.proposals : s.proposals[i].status \in {"pending", "approved"}}
MutInRejectionCooldown(d) == FALSE
InRejectionCooldown(d) == d \in curiosity.rejected

(***************************************************************************)
(* State                                                                   *)
(***************************************************************************)

\* saveState(): the state as it is now is on its way to the disk.
SaveState(s) ==
    /\ Len(saves) < MaxSaves
    /\ saves' = Append(saves, [state |-> s, late |-> FALSE])

CurFault == curFaults < MaxCurFaults /\ curFaults' = curFaults + 1

SaveLands ==
    /\ \E k \in DOMAIN saves :
        \/ /\ curFile' = saves[k].state /\ forgotten' = (forgotten \/ saves[k].late)
           /\ saves' = RemoveAt([j \in DOMAIN saves |->
                                    [saves[j] EXCEPT !.late = @ \/ j < k]], k)
           /\ UNCHANGED curFaults
        \/ /\ CurFault /\ forgotten' = TRUE
           /\ saves' = RemoveAt(saves, k) /\ UNCHANGED curFile
    /\ UNCHANGED <<curiosity, loadedState, gen, refusedEver, curHour>>

\* Another process starts with nothing in memory.
CurRestart ==
    /\ CurFault /\ forgotten' = (forgotten \/ saves # <<>>) /\ saves' = <<>>
    /\ curiosity' = EmptyState /\ loadedState' = FALSE /\ gen' = NoGeneration
    /\ UNCHANGED <<curFile, refusedEver, curHour>>

LoadState == curFile

(***************************************************************************)
(* After a run                                                             *)
(***************************************************************************)

\* checkAutoExpiration().  No proposal is ever given the goal that came of it,
\* so that incrementLoopCount() finds none and the limit is never reached.
AfterExpiration(s) ==
    [s EXCEPT !.proposals = [i \in DOMAIN @ |->
        IF @[i].status = "pending" /\ @[i].expires <= curHour THEN [@[i] EXCEPT !.status = "expired"]
        ELSE IF @[i].status = "approved" /\ @[i].loops >= LoopLimit
             THEN [@[i] EXCEPT !.status = "auto_closed"]
        ELSE @[i]]]

\* generateProposals() begins, unless the user has enough to look at.
Capacity(base, made) == base + made < MaxActive
BeginGeneration(s) ==
    IF Capacity(Cardinality(ActiveIn(s)), 0)
    THEN /\ gen' = [NoGeneration EXCEPT !.at = "trigger", !.began = curHour,
                                        !.base = Cardinality(ActiveIn(s))]
         /\ curiosity' = IF PeriodicExploration(s) THEN [s EXCEPT !.explored = curHour] ELSE s
    ELSE gen' = [NoGeneration EXCEPT !.at = "end"] /\ curiosity' = s

\* The hook: expiration first, on what is in memory; then the quick check, which
\* loads what is on the disk if nothing has been loaded yet, on the one goal of
\* the run.
PostLoop(goal) ==
    /\ gen.at = "no"
    /\ LET s == IF loadedState THEN AfterExpiration(curiosity) ELSE LoadState
       IN  /\ IF loadedState /\ s # curiosity THEN SaveState(s) ELSE UNCHANGED saves
           /\ IF ShouldExplore({goal}, s) /\ EvaluateTriggers({goal}, s) # {}
              THEN BeginGeneration(s) ELSE curiosity' = s /\ UNCHANGED gen
    /\ loadedState' = TRUE
    /\ UNCHANGED <<curFile, refusedEver, forgotten, curHour, curFaults>>

GoOn(at, made) == gen' = [NoGeneration EXCEPT !.at = at, !.began = gen.began, !.base = gen.base,
                                               !.made = made]
Proposal(d, again) == [description |-> d, status |-> "pending", expires |-> gen.began + Expiry,
                       loops |-> 0, again |-> again]
Propose(d, again) ==
    /\ Len(curiosity.proposals) < MaxProposals
    /\ curiosity' = [curiosity EXCEPT !.proposals = Append(@, Proposal(d, again))]

\* The model answers for the next trigger, or throws and the trigger is lost;
\* how many triggers there are is left open.
NextTrigger ==
    /\ gen.at = "trigger"
    /\ \/ GoOn("transfer", gen.made)
       \/ Capacity(gen.base, gen.made) /\ GoOn("item", gen.made)
    /\ UNCHANGED curiosity

\* The next item of its answer, unless rejected before, goes to the ethics gate.
MutMoreItems == TRUE
MoreItems == Capacity(gen.base, gen.made)
NextItem ==
    /\ gen.at = "item"
    /\ \/ GoOn("trigger", gen.made)
       \/ /\ MoreItems
          /\ \E d \in Descriptions :
                IF InRejectionCooldown(d) THEN UNCHANGED gen
                ELSE gen' = [gen EXCEPT !.at = "ethics", !.item = d, !.again = d \in refusedEver]
    /\ UNCHANGED curiosity

\* Rejected by the gate, or the gate throws; or it becomes a proposal.
EthicsAnswers ==
    /\ gen.at = "ethics"
    /\ \/ GoOn("item", gen.made) /\ UNCHANGED curiosity
       \/ /\ Propose(gen.item, gen.again)
          /\ GoOn("item", gen.made + 1)

\* A pattern that could be taken over is proposed without the gate.
ProposeTransfer ==
    /\ gen.at = "transfer"
    /\ \/ GoOn("end", gen.made) /\ UNCHANGED curiosity
       \/ /\ Capacity(gen.base, gen.made)
          /\ \E d \in Descriptions :
                ~InRejectionCooldown(d) /\ Propose(d, d \in refusedEver)
          /\ GoOn("transfer", gen.made + 1)

Generate ==
    /\ NextTrigger \/ NextItem \/ EthicsAnswers \/ ProposeTransfer
    /\ UNCHANGED <<loadedState, curFile, saves, refusedEver, forgotten, curHour, curFaults>>

EndGeneration ==
    /\ gen.at = "end" /\ gen' = NoGeneration /\ SaveState(curiosity)
    /\ UNCHANGED <<curiosity, loadedState, curFile, refusedEver, forgotten, curHour, curFaults>>

(***************************************************************************)
(* The user                                                                *)
(***************************************************************************)

\* approveProposal(): a proposal that is out of date but was not yet expired too.
Approve(i) ==
    /\ curiosity.proposals[i].status = "pending"
    /\ curiosity' = [curiosity EXCEPT !.proposals = [@ EXCEPT ![i].status = "approved"]]
    /\ SaveState(curiosity') /\ UNCHANGED refusedEver

Reject(i) ==
    /\ curiosity.proposals[i].status = "pending"
    /\ curiosity' = [curiosity EXCEPT !.proposals = [@ EXCEPT ![i].status = "rejected"],
                                      !.rejected = @ \cup {curiosity.proposals[i].description}]
    /\ SaveState(curiosity') /\ refusedEver' = refusedEver \cup {curiosity.proposals[i].description}

Review ==
    /\ \E i \in DOMAIN curiosity.proposals : Approve(i) \/ Reject(i)
    /\ UNCHANGED <<loadedState, curFile, gen, forgotten, curHour, curFaults>>

HourPasses ==
    /\ curHour < MaxCurHours /\ curHour' = curHour + 1
    /\ UNCHANGED <<curiosity, loadedState, curFile, saves, gen, refusedEver,
                   forgotten, curFaults>>

CurNext ==
    \/ \E goal \in GoalKinds : PostLoop(goal)
    \/ Generate \/ EndGeneration \/ Review
    \/ SaveLands \/ CurRestart \/ HourPasses

-----------------------------------------------------------------------------
\* Types of the proposals and of the generation under way.
CurTypeOK ==
    /\ \A i \in DOMAIN curiosity.proposals :
        curiosity.proposals[i].status \in {"pending", "approved", "rejected", "expired", "auto_closed"}
    /\ curiosity.explored \in Never .. MaxCurHours
    /\ gen.at \in {"no", "trigger", "item", "ethics", "transfer", "end"}

\* The user is never shown more than the limit, however reviews and restarts
\* fall between the model's answers.
ProposalsBounded == Cardinality(ActiveIn(curiosity)) <= MaxActive

\* What the user has rejected is not proposed again, in this process or a later
\* one, unless a save was lost or overtaken.
RejectedStayOut ==
    ~forgotten => \A i \in DOMAIN curiosity.proposals : ~curiosity.proposals[i].again

GoalSets == {{g, h} : g, h \in GoalKinds}

\* The quick check does not ask for an exploration without a trigger, and when
\* the queue is empty curiosity has at least the half of the resources.
QuickCheckAgrees ==
    \A goals \in GoalSets :
        /\ ShouldExplore(goals, curiosity) => EvaluateTriggers(goals, curiosity) # {}
        /\ TaskQueueEmpty(goals) => ResourceBudget(goals) >= 50
=============================================================================
