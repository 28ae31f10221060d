------------------------------- MODULE Events -------------------------------
(***************************************************************************)
(* The event queue: files in events/ that the EventServer, the DriveSystem *)
(* and the daemon read, copy and move, each on its own (src/src/drive/     *)
(* drive-system.ts, src/src/runtime/event-server.ts, daemon-runner.ts).    *)
(*                                                                         *)
(* Every await of processEventFile() and every file of readEventQueue() is *)
(* a step.  A file name is used once.  Files that are no event are left    *)
(* out; they are logged and stay.                                          *)
(***************************************************************************)
EXTENDS Naturals, FiniteSets

CONSTANTS
    EventIds,        \* events, each for the goal of that name
    NoEvent,         \* what a file that does not exist holds
    MaxFiles,        \* bound: files ever written
    MaxEvFaults      \* bound: writes that fail and crashes

ASSUME EventsAssumption ==
    /\ NoEvent \notin EventIds /\ MaxFiles \in Nat /\ MaxEvFaults \in Nat

VARIABLES
    holds,           \* the event in each file
    place,           \* where each file is
    sent,            \* history: events dropped or written, and so to be seen
    posted,          \* events answered with "accepted" whose write is under way
    noticed,         \* files whose change the server's watcher has yet to handle
    handling,        \* what processEventFile() has done for each file
    heard,           \* files the DriveSystem's watcher has yet to handle
    sleeping, woken, \* the daemon's sleep and the wish to end it
    cycle,           \* the daemon's look at the queue: files listed, events read
    schedule,        \* goals with a schedule file that is not due; nobody calls
                     \* updateSchedule()
    closedGoals,     \* goals that are completed, cancelled, archived or abandoned
    evFaults

eventVars == <<holds, place, sent, posted, noticed, handling, heard, sleeping,
                woken, cycle, schedule, closedGoals, evFaults>>

EvFiles == 1 .. MaxFiles
InQueue == {f \in EvFiles : place[f] = "events"}
Idle == [todo |-> {}, found |-> {}, on |-> FALSE]

EventsInit ==
    /\ holds = [f \in EvFiles |-> NoEvent] /\ place = [f \in EvFiles |-> "none"]
    /\ sent = {} /\ posted = {} /\ noticed = {} /\ heard = {}
    /\ handling = [f \in EvFiles |-> "no"]
    /\ sleeping = FALSE /\ woken = FALSE /\ cycle = Idle
    /\ schedule \in SUBSET EventIds /\ closedGoals = {} /\ evFaults = 0

(***************************************************************************)
(* Files                                                                   *)
(***************************************************************************)

\* A new file of events/, complete at once; both watchers see its name appear.
NewFile(e) ==
    \E f \in EvFiles :
        /\ place[f] = "none" /\ \A g \in 1 .. f - 1 : place[g] # "none"
        /\ holds' = [holds EXCEPT ![f] = e] /\ place' = [place EXCEPT ![f] = "events"]
        /\ noticed' = noticed \cup {f} /\ heard' = heard \cup {f}
        /\ sent' = sent \cup {e}

\* A file leaves events/, which the watchers see too.
MoveFile(f, to) ==
    /\ place' = [place EXCEPT ![f] = to]
    /\ noticed' = noticed \cup {f} /\ heard' = heard \cup {f}

EventFault == evFaults < MaxEvFaults /\ evFaults' = evFaults + 1

\* Someone drops an event.
Drop(e) ==
    /\ NewFile(e)
    /\ UNCHANGED <<posted, handling, sleeping, woken, cycle, schedule,
                   closedGoals, evFaults>>

\* POST /events is answered before writeEvent() has written anything, and a
\* write that fails is logged.
Post(e) ==
    /\ e \notin posted /\ posted' = posted \cup {e}
    /\ UNCHANGED <<holds, place, sent, noticed, handling, heard, sleeping,
                   woken, cycle, schedule, closedGoals, evFaults>>
WriteEvent(e) ==
    /\ e \in posted /\ posted' = posted \ {e}
    /\ \/ NewFile(e) /\ UNCHANGED evFaults
       \/ EventFault /\ UNCHANGED <<holds, place, sent, noticed, heard>>
    /\ UNCHANGED <<handling, sleeping, woken, cycle, schedule, closedGoals>>

(***************************************************************************)
(* EventServer.processEventFile()                                          *)
(***************************************************************************)

\* The file is looked for, and read if it is still there.
ReadEventFile(f) ==
    /\ f \in noticed /\ handling[f] = "no"
    /\ noticed' = noticed \ {f}
    /\ handling' = [handling EXCEPT ![f] = IF f \in InQueue THEN "read" ELSE "no"]
    /\ UNCHANGED <<holds, place, sent, posted, heard, sleeping, woken, cycle,
                   schedule, closedGoals, evFaults>>

\* Its event is written again, under another name, into the same directory; a
\* failure leaves the file where it is.
Redispatch(f) ==
    /\ handling[f] = "read"
    /\ \/ /\ NewFile(holds[f]) /\ handling' = [handling EXCEPT ![f] = "written"]
          /\ UNCHANGED evFaults
       \/ /\ EventFault /\ handling' = [handling EXCEPT ![f] = "no"]
          /\ UNCHANGED <<holds, place, sent, noticed, heard>>
    /\ UNCHANGED <<posted, sleeping, woken, cycle, schedule, closedGoals>>

\* Then the file is moved to processed/, if it has not gone elsewhere.
MutMayMove == {"read", "written"}
MayMove == {"written"}
MoveProcessed(f) ==
    /\ handling[f] \in MayMove /\ handling' = [handling EXCEPT ![f] = "no"]
    /\ IF f \in InQueue THEN MoveFile(f, "processed") ELSE UNCHANGED <<place, noticed, heard>>
    /\ UNCHANGED <<holds, sent, posted, sleeping, woken, cycle, schedule,
                   closedGoals, evFaults>>

(***************************************************************************)
(* DriveSystem and daemon                                                  *)
(***************************************************************************)

\* handleWatchEvent(): what is there goes to a queue in memory that nobody drains,
\* and ends the daemon's sleep; a daemon that is not asleep does not notice.
HandleWatchEvent(f) ==
    /\ f \in heard /\ heard' = heard \ {f}
    /\ woken' = (woken \/ (sleeping /\ f \in InQueue))
    /\ UNCHANGED <<holds, place, sent, posted, noticed, handling, sleeping, cycle, schedule,
                   closedGoals, evFaults>>

\* A cycle of the daemon lists events/ and reads file after file, passing over
\* those that have gone by then.
StartCycle ==
    /\ ~cycle.on /\ (~sleeping \/ woken)
    /\ cycle' = [todo |-> InQueue, found |-> {}, on |-> TRUE]
    /\ sleeping' = FALSE /\ woken' = FALSE
    /\ UNCHANGED <<holds, place, sent, posted, noticed, handling, heard, 
                   schedule, closedGoals, evFaults>>
ReadEventQueue(f) ==
    /\ f \in cycle.todo
    /\ cycle' = [cycle EXCEPT !.todo = @ \ {f},
                              !.found = IF f \in InQueue THEN @ \cup {holds[f]} ELSE @]
    /\ UNCHANGED <<holds, place, sent, posted, noticed, handling, heard, 
                   sleeping, woken, schedule, closedGoals, evFaults>>

\* shouldActivate(): a closed goal never; else one with an event, and one whose
\* schedule is due, as it is without a schedule.
ShouldActivate(g) == g \notin closedGoals /\ (g \in cycle.found \/ g \notin schedule)
EndCycle ==
    /\ cycle.on /\ cycle.todo = {} /\ cycle' = Idle
    /\ \E done \in SUBSET {g \in EventIds : ShouldActivate(g)} : closedGoals' = closedGoals \cup done
    /\ sleeping' = TRUE
    /\ UNCHANGED <<holds, place, sent, posted, noticed, handling, heard, woken,
                   schedule, evFaults>>

\* The interval is over.
WakeUp ==
    /\ sleeping /\ woken' = TRUE
    /\ UNCHANGED <<holds, place, sent, posted, noticed, handling, heard, sleeping,
                   cycle, schedule, closedGoals, evFaults>>
\* processEvents() archives what it reads.
ArchiveEvent(f) ==
    /\ f \in InQueue /\ MoveFile(f, "archive")
    /\ UNCHANGED <<holds, sent, posted, handling, sleeping, woken, cycle,
                   schedule, closedGoals, evFaults>>

\* The process dies; the files stay, and nobody is told of those it finds.
DaemonDies ==
    /\ EventFault
    /\ posted' = {} /\ noticed' = {} /\ heard' = {}
    /\ handling' = [f \in EvFiles |-> "no"]
    /\ sleeping' = FALSE /\ woken' = FALSE /\ cycle' = Idle
    /\ UNCHANGED <<holds, place, sent, schedule, closedGoals>>

EventsNext ==
    \/ \E e \in EventIds : Drop(e) \/ Post(e) \/ WriteEvent(e)
    \/ \E f \in EvFiles : \/ ReadEventFile(f) \/ Redispatch(f) \/ MoveProcessed(f)
                          \/ HandleWatchEvent(f) \/ ReadEventQueue(f) \/ ArchiveEvent(f)
    \/ StartCycle \/ EndCycle \/ WakeUp \/ DaemonDies

-----------------------------------------------------------------------------
\* Types of the queue and of those who work on it.
EventsTypeOK ==
    /\ holds \in [EvFiles -> EventIds \cup {NoEvent}]
    /\ place \in [EvFiles -> {"none", "events", "processed", "archive"}]
    /\ handling \in [EvFiles -> {"no", "read", "written"}]
    /\ heard \cup noticed \cup cycle.todo \subseteq {f \in EvFiles : place[f] # "none"}
    /\ woken => sleeping

\* An event that reached the directory is there for the next cycle, or archived,
\* whoever copies, moves or fails meanwhile: a file only goes to processed/ when
\* its event is in another.
EventVisible ==
    \A e \in sent : \E f \in EvFiles : holds[f] = e /\ place[f] \in {"events", "archive"}
=============================================================================
