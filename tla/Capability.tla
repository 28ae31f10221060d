----------------------------- MODULE Capability -----------------------------
(***************************************************************************)
(* A capability that a task lacks: detecting it, acquiring it through an   *)
(* adapter, verifying and registering it, or giving it up to the user      *)
(* (src/src/loop/core-loop-capability.ts, src/src/observation/capability-  *)
(* detector.ts and -registry.ts), with every write of the registry a step; *)
(* and the order in which capabilities that depend on one another are to   *)
(* be acquired (capability-dependencies.ts).                               *)
(*                                                                         *)
(* A name and its id differ in case: two names may share an id.            *)
(***************************************************************************)
EXTENDS Naturals, Sequences, FiniteSets, SequencesExt

CONSTANTS
    CapNames,        \* names a model may give a missing capability
    NoName,          \* no name
    IdOf,            \* the id each is registered under
    Permissions,     \* the names that are permissions
    NumCaps,         \* capabilities 1 .. NumCaps with dependencies
    MaxDeficiencies, \* bound: deficiencies found
    MaxCapFaults     \* bound: failed writes and restarts

ASSUME CapabilityAssumption ==
    /\ IsFiniteSet(CapNames) /\ NoName \notin CapNames /\ DOMAIN IdOf = CapNames /\ Permissions \subseteq CapNames
    /\ NumCaps \in Nat /\ MaxDeficiencies \in Nat /\ MaxCapFaults \in Nat

VARIABLES
    registry,        \* capability_registry.json: name, id and status of each
    attempts,        \* capabilityAcquisitionFailures, in the memory of the loop
    capPc,
    missing,         \* the name that is being acquired
    passed,          \* history: names that passed verification
    told,            \* history: names a report to the user was attempted for;
                     \* one that cannot be saved is logged and no more
    deficiencies, capFaults,
    prereqs          \* capability_dependencies.json: depends_on of each

acquireVars == <<registry, attempts, capPc, missing, passed, told, deficiencies, capFaults>>
capVars == <<acquireVars, prereqs>>

Caps == 1 .. NumCaps

CapInit ==
    /\ registry = <<>> /\ attempts = [n \in CapNames |-> 0]
    /\ capPc = "idle" /\ missing = NoName /\ passed = {} /\ told = {}
    /\ deficiencies = 0 /\ capFaults = 0
    /\ prereqs = [c \in Caps |-> {}]

(***************************************************************************)
(* The registry                                                            *)
(***************************************************************************)

\* setCapabilityStatus() finds by name, and adds what it does not find.
MutNamed(n) == {i \in DOMAIN registry : registry[i].id = IdOf[n]}
Named(n) == {i \in DOMAIN registry : registry[i].name = n}
FirstOf(I) == CHOOSE i \in I : \A j \in I : i <= j
SetCapabilityStatus(n, s) ==
    registry' = IF Named(n) # {} THEN [registry EXCEPT ![FirstOf(Named(n))].status = s]
                ELSE Append(registry, [name |-> n, id |-> IdOf[n], status |-> s])

\* registerCapability() finds by id, and replaces what it finds.
WithId(n) == {i \in DOMAIN registry : registry[i].id = IdOf[n]}
RegisterCapability(n) ==
    LET c == [name |-> n, id |-> IdOf[n], status |-> "acquiring"]
    IN  registry' = IF WithId(n) # {} THEN [registry EXCEPT ![FirstOf(WithId(n))] = c]
                    ELSE Append(registry, c)

\* "pulseed capability remove": found by name in any case, removed by id; those
\* that stay keep their order.
Listing(I) == {p \in [1 .. Cardinality(I) -> I] : \A j, k \in DOMAIN p : j < k => p[j] < p[k]}
RemoveCapability(n) ==
    /\ WithId(n) # {}
    /\ \E p \in Listing(DOMAIN registry \ WithId(n)) : registry' = [k \in DOMAIN p |-> registry[p[k]]]
    /\ UNCHANGED <<attempts, capPc, missing, passed, told, deficiencies, capFaults>>

(***************************************************************************)
(* Acquisition                                                             *)
(***************************************************************************)

Goto(pc) == capPc' = pc /\ missing' = IF pc = "idle" THEN NoName ELSE missing

\* detectDeficiency() and planAcquisition(): a permission goes to a human, the
\* rest is marked as being acquired, whatever the registry says of it.
DetectDeficiency(n) ==
    /\ capPc = "idle" /\ deficiencies < MaxDeficiencies
    /\ deficiencies' = deficiencies + 1
    /\ IF n \in Permissions
         THEN UNCHANGED <<registry, capPc, missing>>
         ELSE SetCapabilityStatus(n, "acquiring") /\ capPc' = "acquire" /\ missing' = n
    /\ UNCHANGED <<attempts, passed, told, capFaults>>

\* recordCapabilityFailure(): the third failure in a row is escalated, and
\* every one after it.
MutMaxAttempts == 4
MaxAttempts == 3
RecordFailure ==
    /\ attempts' = [attempts EXCEPT ![missing] = @ + 1]
    /\ Goto(IF attempts[missing] + 1 >= MaxAttempts THEN "escalate" ELSE "idle")
    /\ UNCHANGED <<registry, passed, told, deficiencies, capFaults>>

\* The adapter is asked to set the capability up; it may throw.
AdapterExecutes ==
    /\ capPc = "acquire"
    /\ \/ RecordFailure
       \/ Goto("verify") /\ UNCHANGED <<registry, attempts, passed, told, deficiencies, capFaults>>

\* verifyAcquiredCapability() counts attempts in a task made anew each time, so
\* that a failed one never reaches the number at which it would escalate.
VerifyAcquiredCapability ==
    /\ capPc = "verify"
    /\ \/ RecordFailure
       \/ /\ attempts' = [attempts EXCEPT ![missing] = 0]
          /\ passed' = passed \cup {missing}
          /\ Goto("register")
          /\ UNCHANGED <<registry, told, deficiencies, capFaults>>

Register ==
    /\ capPc = "register" /\ RegisterCapability(missing) /\ Goto("publish")
    /\ UNCHANGED <<attempts, passed, told, deficiencies, capFaults>>
Publish ==
    /\ capPc = "publish" /\ SetCapabilityStatus(missing, "available") /\ Goto("idle")
    /\ UNCHANGED <<attempts, passed, told, deficiencies, capFaults>>

\* escalateCapability(): the user is told first, then the registry.
EscalateToUser ==
    /\ capPc = "escalate" /\ told' = told \cup {missing} /\ Goto("give up")
    /\ UNCHANGED <<registry, attempts, passed, deficiencies, capFaults>>
GiveUp ==
    /\ capPc = "give up" /\ SetCapabilityStatus(missing, "verification_failed") /\ Goto("idle")
    /\ UNCHANGED <<attempts, passed, told, deficiencies, capFaults>>

\* A write of the registry fails, which is logged and no more; or the process
\* dies, and with it the counts.
WriteFails ==
    /\ capPc \in {"register", "publish", "give up"} /\ capFaults < MaxCapFaults
    /\ capFaults' = capFaults + 1 /\ Goto("idle")
    /\ UNCHANGED <<registry, attempts, passed, told, deficiencies>>
CapRestart ==
    /\ capFaults < MaxCapFaults /\ capFaults' = capFaults + 1
    /\ attempts' = [n \in CapNames |-> 0] /\ Goto("idle")
    /\ UNCHANGED <<registry, passed, told, deficiencies>>

AcquireStep ==
    /\ \/ \E n \in CapNames : DetectDeficiency(n) \/ RemoveCapability(n)
       \/ AdapterExecutes \/ VerifyAcquiredCapability \/ Register \/ Publish
       \/ EscalateToUser \/ GiveUp \/ WriteFails \/ CapRestart
    /\ UNCHANGED prereqs

(***************************************************************************)
(* Dependencies                                                            *)
(***************************************************************************)

\* addDependency() replaces what the file says of one capability.
AddDependency ==
    /\ \E c \in Caps, ds \in SUBSET Caps : prereqs' = [prereqs EXCEPT ![c] = ds]
    /\ UNCHANGED acquireVars

\* resolveDependencies(): the least capability all of whose prerequisites have
\* been taken, as often as there is one.
MutReady(taken) == {c \in Caps \ taken : prereqs[c] \cap taken # {} \/ prereqs[c] = {}}
Ready(taken) == {c \in Caps \ taken : prereqs[c] \subseteq taken}
Taken[k \in 0 .. NumCaps] ==
    IF k = 0 THEN <<>>
    ELSE LET order == Taken[k - 1]
             ready == Ready(ToSet(order))
         IN  IF ready = {} THEN order ELSE Append(order, FirstOf(ready))
ResolveDependencies == Taken[NumCaps]

\* detectCircularDependency(): some capability comes before itself.
Complete(S) == \A c \in S : prereqs[c] \subseteq S
Before(p, c) == \A S \in SUBSET Caps : prereqs[c] \subseteq S /\ Complete(S) => p \in S
DetectCircularDependency == \E c \in Caps : Before(c, c)

-----------------------------------------------------------------------------
\* Types of the registry and of the acquisition.
CapTypeOK ==
    /\ \A i \in DOMAIN registry :
        registry[i].status \in {"acquiring", "available", "verification_failed"}
    /\ missing \in CapNames \cup {NoName} /\ (capPc = "idle" <=> missing = NoName)
    /\ prereqs \in [Caps -> SUBSET Caps]

\* What the registry calls available passed its verification, and what it calls
\* failed a report to the user has been attempted for, whatever writes failed and whichever name
\* took the place of another; three failures in a row never stay silent.
StatusEarned ==
    /\ \A i \in DOMAIN registry :
        /\ registry[i].status = "available" => registry[i].name \in passed
        /\ registry[i].status = "verification_failed" => registry[i].name \in told
    /\ \A n \in CapNames : attempts[n] >= 3 => n \in told \/ (capPc = "escalate" /\ missing = n)

\* The order of acquisition puts every prerequisite first, leaves out exactly
\* what is in a circle or behind one, and the search for circles agrees.
AcquisitionOrdered ==
    LET order == ResolveDependencies
        circular == {c \in Caps : Before(c, c)}
        lost == Caps \ ToSet(order)
    IN  /\ \A i \in DOMAIN order : prereqs[order[i]] \subseteq {order[j] : j \in 1 .. i - 1}
        /\ lost = {c \in Caps : \E p \in circular : p = c \/ Before(p, c)}
        /\ DetectCircularDependency <=> lost # {}
=============================================================================
