------------------------------- MODULE Daemon -------------------------------
(***************************************************************************)
(* The daemon: DaemonRunner (src/src/runtime/daemon-runner.ts), the pid    *)
(* file it shares with every other process (src/src/runtime/               *)
(* pid-manager.ts) and the commands start and stop                         *)
(* (src/src/cli/commands/daemon.ts).                                       *)
(*                                                                         *)
(* A pid that a file or a command still names is not given to another      *)
(* process.  cmdStart asks isRunning() before start() asks it again: one   *)
(* check stands for both.  Which goals are due, and in which order, is     *)
(* left open; a run of the CoreLoop is one step that succeeds or throws.   *)
(* The event server, the log and the length of the intervals are left out. *)
(***************************************************************************)
EXTENDS Naturals, FiniteSets

CONSTANTS
    Procs,        \* processes that may run the daemon
    None,         \* no process
    Goals,        \* goals a daemon may be started for
    Requests,     \* bound: the lists of goals given to a start
    MaxRetries,   \* crash_recovery.max_retries
    Overlap,      \* bound: whether a daemon comes up while another still is
    MaxFailures,  \* bound: writes of state or marker that fail
    MaxCrashes    \* bound: processes killed

ASSUME DaemonAssumption ==
    /\ None \notin Procs /\ Requests \subseteq SUBSET Goals
    /\ MaxRetries \in Nat /\ MaxFailures \in Nat /\ MaxCrashes \in Nat
    /\ Overlap \in BOOLEAN

VARIABLES
    pid,       \* the process the pid file names, or None: there is no file
    state,     \* daemon-state.json
    marker,    \* shutdown-state.json: its state field, or "none"
    pc,        \* where start() of a process is
    seen,      \* the pid a starting process has read
    running,   \* processes with this.running
    shutting,  \* processes with this.shuttingDown
    memory,    \* this.state of a process
    want,      \* the goals of its loop
    todo,      \* the goals left in this cycle
    errors,    \* crash_count
    stopper,   \* the stop command: where it is and the pid it has read
    late,      \* history: who has written the pid file since a process (the stop
               \* command: in stopper.late) last read or wrote it
    lastEnd,   \* history: how the last daemon ended
    owed,      \* history: goals the last daemon was stopped with
    doubled,   \* history: two daemons have been up at once
    failures, crashes

files == <<pid, state, marker>>
flags == <<running, shutting>>
work == <<memory, want, todo, errors>>
history == <<lastEnd, owed>>
vars == <<files, pc, seen, flags, work, stopper, late, history, doubled, failures, crashes>>

Fresh == [status |-> "running", interrupted |-> {}]
NotStopping == [pc |-> "idle", seen |-> None, late |-> {}]

\* Processes that hold the pid file, and those with handlers for signals.
Looping == {"first", "mark", "loop", "goals", "run", "saved", "sleep"}
Handled == Looping \cup {"restore", "unlink", "end"}
Up == Handled \cup {"recover"}
Live == Up \cup {"probe", "write"}
Owner(p) == pc[p] \in Up \ {"end"}

\* A pid free for a new process.
Unused(p) ==
    /\ pc[p] = "off" /\ pid # p /\ stopper.seen # p
    /\ \A q \in Procs : seen[q] # p

\* A process is gone, and with it what it had in memory.
Leave(p) ==
    /\ pc' = [pc EXCEPT ![p] = "off"]
    /\ seen' = [seen EXCEPT ![p] = None]
    /\ late' = [late EXCEPT ![p] = {}]
    /\ running' = running \ {p}
    /\ shutting' = shutting \ {p}
    /\ memory' = [memory EXCEPT ![p] = Fresh]
    /\ want' = [want EXCEPT ![p] = {}]
    /\ todo' = [todo EXCEPT ![p] = {}]
    /\ errors' = [errors EXCEPT ![p] = 0]

\* saveDaemonState() and writeShutdownMarker() report a failure to the log
\* and go on.
Save(s) ==
    \/ state' = s /\ UNCHANGED failures
    \/ failures < MaxFailures /\ failures' = failures + 1 /\ UNCHANGED state

WriteMarker(m) ==
    \/ marker' = m /\ UNCHANGED failures
    \/ failures < MaxFailures /\ failures' = failures + 1 /\ UNCHANGED marker

Init ==
    /\ pid = None /\ state = [status |-> "none", interrupted |-> {}]
    /\ marker = "none"
    /\ pc = [p \in Procs |-> "off"]
    /\ seen = [p \in Procs |-> None]
    /\ running = {} /\ shutting = {}
    /\ memory = [p \in Procs |-> Fresh]
    /\ want = [p \in Procs |-> {}]
    /\ todo = [p \in Procs |-> {}]
    /\ errors = [p \in Procs |-> 0]
    /\ stopper = NotStopping
    /\ late = [p \in Procs |-> {}]
    /\ lastEnd = "none" /\ owed = {} /\ doubled = FALSE
    /\ failures = 0 /\ crashes = 0

-----------------------------------------------------------------------------
(* start() *)

\* isRunning(), first half: the pid file is read.
Read(p) ==
    /\ Unused(p)
    /\ pc' = [pc EXCEPT ![p] = "probe"]
    /\ seen' = [seen EXCEPT ![p] = pid]
    /\ UNCHANGED <<files, flags, late, work, stopper, history, failures, crashes, doubled>>

MutAlive == {}
Alive == {q \in Procs : pc[q] \in Live}

\* Second half: a live process refuses the start, a dead one's file goes.
Probe(p) ==
    /\ pc[p] = "probe"
    /\ \/ /\ seen[p] \in Alive
          /\ Leave(p) /\ UNCHANGED pid
       \/ /\ seen[p] \notin Alive
          /\ pid' = IF seen[p] = None THEN pid ELSE None
          /\ pc' = [pc EXCEPT ![p] = "write"]
          /\ UNCHANGED <<seen, late, flags, work>>
    /\ UNCHANGED <<state, marker, stopper, history, failures, crashes, doubled>>

WritePid(p) ==
    /\ pc[p] = "write"
    /\ Overlap \/ \A q \in Procs \ {p} : pc[q] \notin Up
    /\ pid' = p
    /\ pc' = [pc EXCEPT ![p] = "recover"]
    /\ seen' = [seen EXCEPT ![p] = None]
    /\ late' = [q \in Procs |-> IF q = p \/ pc[q] = "off" THEN {} ELSE late[q] \cup {p}]
    /\ stopper' = [stopper EXCEPT !.late =
                       IF stopper.pc \in {"probe", "send"} THEN @ \cup {p} ELSE @]
    /\ doubled' = (doubled \/ \E q \in Procs \ {p} : pc[q] \in Up)
    /\ UNCHANGED <<state, marker, flags, work, history, failures, crashes>>

\* checkCrashRecovery() removes the marker; then the handlers are set.
MutRecover(p) ==
    /\ pc[p] = "recover"
    /\ pc' = [pc EXCEPT ![p] = "restore"]
    /\ UNCHANGED <<files, seen, late, flags, work, stopper, history, failures,
                   crashes, doubled>>
Recover(p) ==
    /\ pc[p] = "recover"
    /\ marker' = "none"
    /\ pc' = [pc EXCEPT ![p] = "restore"]
    /\ UNCHANGED <<pid, state, seen, late, flags, work, stopper, history, failures,
                   crashes, doubled>>

\* restoreState(): the goals of the request, which nothing looks at before, and
\* those that were interrupted.
Restore(p) ==
    /\ pc[p] = "restore"
    /\ \E goals \in Requests :
           want' = [want EXCEPT ![p] = goals \cup state.interrupted]
    /\ running' = running \cup {p}
    /\ pc' = [pc EXCEPT ![p] = "first"]
    /\ UNCHANGED <<files, seen, late, shutting, memory, todo, errors, stopper, history,
                   failures, crashes, doubled>>

SaveFirst(p) ==
    /\ pc[p] = "first"
    /\ Save(memory[p])
    /\ pc' = [pc EXCEPT ![p] = "mark"]
    /\ UNCHANGED <<pid, marker, seen, late, flags, work, stopper, history, crashes,
                   doubled>>

Mark(p) ==
    /\ pc[p] = "mark"
    /\ WriteMarker("running")
    /\ pc' = [pc EXCEPT ![p] = "loop"]
    /\ UNCHANGED <<pid, state, seen, late, flags, work, stopper, history, crashes,
                   doubled>>

-----------------------------------------------------------------------------
(* runLoop() and cleanup() *)

MutGoes(p) == p \notin shutting
Goes(p) == p \in running /\ p \notin shutting

\* A cycle begins with the goals that are due.
Begin(p) ==
    /\ pc[p] = "loop" /\ Goes(p)
    /\ \E due \in SUBSET want[p] : todo' = [todo EXCEPT ![p] = due]
    /\ pc' = [pc EXCEPT ![p] = "goals"]
    /\ UNCHANGED <<files, seen, late, flags, memory, want, errors, stopper, history,
                   failures, crashes, doubled>>

\* Finding the goals that are due throws: handleCriticalError().
Critical(p) ==
    /\ pc[p] = "loop" /\ Goes(p)
    /\ memory' = [memory EXCEPT ![p].status = "crashed"]
    /\ Save(memory'[p])
    /\ running' = running \ {p}
    /\ UNCHANGED <<pid, marker, pc, seen, late, shutting, want, todo, errors, stopper,
                   history, crashes, doubled>>

RunGoal(p) ==
    /\ pc[p] = "goals" /\ p \in running
    /\ \E g \in todo[p] : todo' = [todo EXCEPT ![p] = @ \ {g}]
    /\ pc' = [pc EXCEPT ![p] = "run"]
    /\ UNCHANGED <<files, seen, late, flags, memory, want, errors, stopper, history,
                   failures, crashes, doubled>>

\* The run of a goal returns, or throws: handleLoopError().
RunEnds(p) ==
    /\ pc[p] = "run"
    /\ pc' = [pc EXCEPT ![p] = "goals"]
    /\ \/ UNCHANGED <<errors, running>>
       \/ /\ errors' = [errors EXCEPT ![p] = @ + 1]
          /\ running' = IF errors[p] + 1 >= MaxRetries THEN running \ {p} ELSE running
    /\ UNCHANGED <<files, seen, late, shutting, memory, want, todo, stopper, history,
                   failures, crashes, doubled>>

\* Every goal has had its run, or the daemon is to stop.
SaveCycle(p) ==
    /\ pc[p] = "goals" /\ (todo[p] = {} \/ p \notin running)
    /\ Save(memory[p])
    /\ todo' = [todo EXCEPT ![p] = {}]
    /\ pc' = [pc EXCEPT ![p] = "saved"]
    /\ UNCHANGED <<pid, marker, seen, late, flags, memory, want, errors, stopper,
                   history, crashes, doubled>>

\* shuttingDown is not looked at before the sleep.
Rest(p) ==
    /\ pc[p] = "saved"
    /\ pc' = [pc EXCEPT ![p] = IF p \in running THEN "sleep" ELSE "loop"]
    /\ UNCHANGED <<files, seen, late, flags, work, stopper, history, failures,
                   crashes, doubled>>

\* The interval is over, or an event file has arrived.
Wake(p) ==
    /\ pc[p] = "sleep"
    /\ pc' = [pc EXCEPT ![p] = "loop"]
    /\ UNCHANGED <<files, seen, late, flags, work, stopper, history, failures,
                   crashes, doubled>>

MutLast(p) == [memory[p] EXCEPT !.status = "stopped", !.interrupted = {}]
Last(p) == IF memory[p].status = "crashed" THEN memory[p]
           ELSE [memory[p] EXCEPT !.status = "stopped"]

\* cleanup() saves the last state, ...
Clean(p) ==
    /\ pc[p] = "loop" /\ ~Goes(p)
    /\ memory' = [memory EXCEPT ![p] = Last(p)]
    /\ Save(memory'[p])
    /\ pc' = [pc EXCEPT ![p] = "unlink"]
    /\ owed' = memory[p].interrupted
    /\ UNCHANGED <<pid, marker, seen, late, flags, want, todo, errors, stopper,
                   lastEnd, crashes, doubled>>

\* ... removes the pid file, whatever it says, ...
Unlink(p) ==
    /\ pc[p] = "unlink"
    /\ pid' = None
    /\ pc' = [pc EXCEPT ![p] = "end"]
    /\ UNCHANGED <<state, marker, seen, late, flags, work, stopper, history, failures,
                   crashes, doubled>>

\* ... and writes the marker.
MutEndMark(p) == "clean"
EndMark(p) == IF memory[p].status = "crashed" THEN "running" ELSE "clean"
End(p) ==
    /\ pc[p] = "end"
    /\ WriteMarker(EndMark(p))
    /\ lastEnd' = IF memory[p].status = "crashed" THEN "critical" ELSE "clean"
    /\ Leave(p)
    /\ UNCHANGED <<pid, state, stopper, owed, crashes, doubled>>

-----------------------------------------------------------------------------
(* Signals, stop() and crashes *)

\* History of a process that leaves without End.
Dies(p) ==
    /\ Leave(p)
    /\ IF pc[p] \in Handled THEN lastEnd' = "crash" /\ owed' = {}
       ELSE UNCHANGED history

\* A signal ends a process that has no handlers yet.  The handler remembers
\* it and ends a sleep; from then on the force-stop timer may fire.
Signal(p) ==
    \/ pc[p] \in Live \ Handled /\ Dies(p)
    \/ /\ pc[p] \in Handled
       /\ shutting' = shutting \cup {p}
       /\ pc' = [pc EXCEPT ![p] = IF @ = "sleep" THEN "loop" ELSE @]
       /\ UNCHANGED <<seen, late, running, work, history>>

Interrupt(p) ==
    /\ Signal(p)
    /\ UNCHANGED <<files, stopper, failures, crashes, doubled>>

\* The force-stop timer, which does not end a sleep.
Timer(p) ==
    /\ p \in shutting \cap running
    /\ running' = running \ {p}
    /\ UNCHANGED <<files, pc, seen, late, shutting, work, stopper, history, failures,
                   crashes, doubled>>

\* stop(), which the tests call; before the loop start() would undo it.
StopCall(p) ==
    /\ pc[p] \in Looping
    /\ running' = running \ {p}
    /\ memory' = [memory EXCEPT ![p] = [status |-> "stopping", interrupted |-> want[p]]]
    /\ owed' = want[p]
    /\ pc' = [pc EXCEPT ![p] = IF @ = "sleep" THEN "loop" ELSE @]
    /\ UNCHANGED <<files, seen, late, shutting, want, todo, errors, stopper, lastEnd,
                   failures, crashes, doubled>>

\* The stop command: isRunning() in two halves, ...
StopRead ==
    /\ stopper.pc = "idle"
    /\ stopper' = [pc |-> "probe", seen |-> pid, late |-> {}]
    /\ UNCHANGED <<files, pc, seen, late, flags, work, history, failures, crashes, doubled>>

StopProbe ==
    /\ stopper.pc = "probe"
    /\ \/ /\ stopper.seen \in Alive
          /\ stopper' = [NotStopping EXCEPT !.pc = "found"]
          /\ UNCHANGED pid
       \/ /\ stopper.seen \notin Alive
          /\ stopper' = NotStopping
          /\ pid' = IF stopper.seen = None THEN pid ELSE None
    /\ UNCHANGED <<state, marker, pc, seen, late, flags, work, history, failures,
                   crashes, doubled>>

\* ... then the pid file is read once more, ...
StopReadAgain ==
    /\ stopper.pc = "found"
    /\ stopper' = IF pid = None THEN NotStopping
                  ELSE [pc |-> "send", seen |-> pid, late |-> {}]
    /\ UNCHANGED <<files, pc, seen, late, flags, work, history, failures, crashes, doubled>>

\* ... and the process it names is sent a signal; if there is none any more,
\* the file goes.
StopSend ==
    /\ stopper.pc = "send"
    /\ stopper' = NotStopping
    /\ \/ /\ stopper.seen \in Alive
          /\ Signal(stopper.seen) /\ UNCHANGED pid
       \/ /\ stopper.seen \notin Alive
          /\ pid' = None
          /\ UNCHANGED <<pc, seen, late, flags, work, history>>
    /\ UNCHANGED <<state, marker, failures, crashes, doubled>>

Crash(p) ==
    /\ pc[p] \in Live /\ crashes < MaxCrashes
    /\ crashes' = crashes + 1
    /\ Dies(p)
    /\ UNCHANGED <<files, stopper, failures, doubled>>

\* What a process does by itself once it has started.
Step(p) ==
    \/ Probe(p) \/ WritePid(p) \/ Recover(p) \/ Restore(p) \/ SaveFirst(p) \/ Mark(p)
    \/ Begin(p) \/ Critical(p) \/ RunGoal(p) \/ RunEnds(p) \/ SaveCycle(p)
    \/ Rest(p) \/ Wake(p) \/ Clean(p) \/ Unlink(p) \/ End(p)

StopStep == StopProbe \/ StopReadAgain \/ StopSend

Next ==
    \/ \E p \in Procs :
           Read(p) \/ Step(p) \/ Interrupt(p) \/ Timer(p) \/ StopCall(p) \/ Crash(p)
    \/ StopRead \/ StopStep

Spec == Init /\ [][Next]_vars

\* Processes and the stop command go on once begun: a run of the loop ends
\* and intervals pass.
FairSpec ==
    /\ Spec
    /\ \A p \in Procs : WF_vars(Step(p))
    /\ WF_vars(StopStep)

-----------------------------------------------------------------------------
(* Properties *)

PC == {"off", "probe", "write", "recover", "restore", "first", "mark", "loop",
       "goals", "run", "saved", "sleep", "unlink", "end"}
Memory == [status : {"none", "running", "stopping", "stopped", "crashed"},
           interrupted : SUBSET Goals]

\* Every variable stays in its type.
TypeOK ==
    /\ pid \in Procs \cup {None}
    /\ state \in Memory /\ marker \in {"none", "running", "clean"}
    /\ pc \in [Procs -> PC]
    /\ seen \in [Procs -> Procs \cup {None}]
    /\ running \subseteq Procs /\ shutting \subseteq Procs
    /\ memory \in [Procs -> Memory]
    /\ want \in [Procs -> SUBSET Goals] /\ todo \in [Procs -> SUBSET Goals]
    /\ errors \in [Procs -> Nat]
    /\ stopper \in [pc : {"idle", "probe", "found", "send"}, seen : Procs \cup {None},
                    late : SUBSET Procs]
    /\ late \in [Procs -> SUBSET Procs] /\ doubled \in BOOLEAN
    /\ lastEnd \in {"none", "clean", "critical", "crash"} /\ owed \subseteq Goals
    /\ failures \in Nat /\ crashes \in Nat

\* However starts, stops and crashes overlap, only a command or a daemon that
\* was under way already when a daemon wrote its pid file can take the file
\* from it: whoever looks later finds it alive and leaves the file alone
\* ("Throws if daemon is already running.", daemon-runner.ts:103).
PidNames ==
    [][\A p \in Procs :
          Owner(p) /\ pid = p /\ pid' # p =>
              \/ ~Owner(p)'
              \/ \E q \in Procs \ {p} : p \in late[q] /\ pc'[q] # pc[q]
              \/ p \in stopper.late /\ stopper' # stopper]_vars

\* The marker says "clean_shutdown" only if the last daemon that got past its
\* start ended by itself, and no other has got that far since, whatever
\* writes failed, unless two have been up at once ("to enable crash-vs-clean
\* detection on next startup", daemon-runner.ts:441).
MarkerTrue ==
    ~doubled /\ marker = "clean" =>
        lastEnd = "clean" /\ \A p \in Procs : pc[p] \notin Handled

\* With no failed write and one daemon up at a time, the files tell how the
\* last one ended until the next has read them: a clean end, a critical error
\* and a crash leave different traces.
EndRecorded ==
    ~doubled /\ failures = 0 /\ (\A p \in Procs : pc[p] \notin Handled) =>
        /\ lastEnd = "clean" => state.status = "stopped" /\ marker = "clean"
        /\ lastEnd = "critical" => state.status = "crashed" /\ marker = "running"
        /\ lastEnd = "crash" => marker # "clean"

\* The goals a daemon was working on when stop() ended it are those of the
\* next daemon too (restoreState, daemon-runner.ts:416-435).
InterruptedRestored ==
    ~doubled /\ failures = 0 =>
        \A p \in Procs : pc[p] \in Looping => owed \subseteq want[p]

\* A daemon that was signalled, stopped or failed too often ends, whatever it
\* is doing, wherever the signal finds it.
StoppingEnds ==
    \A p \in Procs :
        (pc[p] \in Handled /\ (p \in shutting \/ (pc[p] # "restore" /\ p \notin running)))
            ~> pc[p] = "off"

=============================================================================
