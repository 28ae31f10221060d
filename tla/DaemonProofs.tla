---------------------------- MODULE DaemonProofs ----------------------------
(***************************************************************************)
(* For any number of processes, goals, failed writes and crashes: only     *)
(* those already under way can take the pid file from the daemon it names, *)
(* and while one daemon is up at a time the files tell how it ended and    *)
(* what it was working on.                                                 *)
(***************************************************************************)
EXTENDS Daemon, TLAPS

USE DaemonAssumption DEF DaemonAssumption

-----------------------------------------------------------------------------
(* Types *)

LEMMA FreshType == Fresh \in Memory
  BY DEF Fresh, Memory

LEMMA LeaveType ==
  ASSUME TypeOK, NEW p \in Procs, Leave(p)
  PROVE  /\ pc' \in [Procs -> PC] /\ seen' \in [Procs -> Procs \cup {None}]
         /\ running' \subseteq Procs /\ shutting' \subseteq Procs
         /\ memory' \in [Procs -> Memory]
         /\ want' \in [Procs -> SUBSET Goals] /\ todo' \in [Procs -> SUBSET Goals]
         /\ errors' \in [Procs -> Nat] /\ late' \in [Procs -> SUBSET Procs]
  <1>1. "off" \in PC
    BY DEF PC
  <1> QED
    BY <1>1, FreshType DEF TypeOK, Leave

LEMMA SaveType ==
  ASSUME TypeOK, NEW s \in Memory, Save(s)
  PROVE  state' \in Memory /\ failures' \in Nat
  BY DEF Save, TypeOK

LEMMA MarkerType ==
  ASSUME TypeOK, NEW m \in {"none", "running", "clean"}, WriteMarker(m)
  PROVE  marker' \in {"none", "running", "clean"} /\ failures' \in Nat
  BY DEF WriteMarker, TypeOK

LEMMA InitType == Init => TypeOK
  <1> SUFFICES ASSUME Init PROVE TypeOK
    OBVIOUS
  <1>1. doubled \in BOOLEAN /\ stopper = NotStopping
    BY DEF Init
  <1>2. stopper \in [pc : {"idle", "probe", "found", "send"}, seen : Procs \cup {None},
                     late : SUBSET Procs]
    BY <1>1 DEF NotStopping
  <1> QED
    BY <1>1, <1>2 DEF Init, TypeOK, Fresh, Memory, PC

\* The start of a process.
LEMMA StartType ==
  ASSUME TypeOK, NEW p \in Procs,
         \/ Read(p) \/ Probe(p) \/ WritePid(p) \/ Recover(p) \/ Restore(p)
         \/ SaveFirst(p) \/ Mark(p)
  PROVE  TypeOK'
  <1>1. CASE Read(p)
    BY <1>1 DEF Read, work, TypeOK, PC, files, flags, history
  <1>2. CASE Probe(p)
    <2>1. CASE Leave(p) /\ UNCHANGED pid
      BY <1>2, <2>1, LeaveType DEF Probe, TypeOK, history
    <2>2. CASE ~(Leave(p) /\ UNCHANGED pid)
      BY <1>2, <2>2 DEF Probe, TypeOK, PC, flags, work, history
    <2> QED
      BY <2>1, <2>2
  <1>3. CASE WritePid(p)
    <2>1. late' \in [Procs -> SUBSET Procs] /\ doubled' \in BOOLEAN
      BY <1>3 DEF WritePid, TypeOK
    <2>2. stopper' \in [pc : {"idle", "probe", "found", "send"}, seen : Procs \cup {None},
                        late : SUBSET Procs]
      BY <1>3 DEF WritePid, TypeOK
    <2> QED
      BY <1>3, <2>1, <2>2 DEF WritePid, TypeOK, PC, flags, work, history
  <1>4. CASE Recover(p)
    BY <1>4 DEF Recover, TypeOK, PC, flags, work, history
  <1>5. CASE Restore(p)
    <2>1. state.interrupted \subseteq Goals
      BY DEF TypeOK, Memory
    <2> QED
      BY <1>5, <2>1 DEF Restore, TypeOK, PC, files, history
  <1>6. CASE SaveFirst(p)
    <2>1. memory[p] \in Memory
      BY DEF TypeOK
    <2>2. state' \in Memory /\ failures' \in Nat
      BY <1>6, <2>1, SaveType DEF SaveFirst
    <2> QED
      BY <1>6, <2>2 DEF SaveFirst, TypeOK, PC, flags, work, history
  <1>7. CASE Mark(p)
    <2>1. marker' \in {"none", "running", "clean"} /\ failures' \in Nat
      BY <1>7, MarkerType DEF Mark
    <2> QED
      BY <1>7, <2>1 DEF Mark, TypeOK, PC, flags, work, history
  <1> QED
    BY <1>1, <1>2, <1>3, <1>4, <1>5, <1>6, <1>7

LEMMA LastType ==
  ASSUME TypeOK, NEW p \in Procs
  PROVE  /\ Last(p) \in Memory
         /\ Last(p).status \in {"stopped", "crashed"}
         /\ Last(p).interrupted = memory[p].interrupted
  BY DEF TypeOK, Memory, Last

\* The loop and the end.
LEMMA LoopType ==
  ASSUME TypeOK, NEW p \in Procs,
         \/ Begin(p) \/ Critical(p) \/ RunGoal(p) \/ RunEnds(p) \/ SaveCycle(p)
         \/ Rest(p) \/ Wake(p) \/ Clean(p) \/ Unlink(p) \/ End(p)
  PROVE  TypeOK'
  <1>1. CASE Begin(p)
    BY <1>1 DEF Begin, TypeOK, PC, files, flags, history
  <1>2. CASE Critical(p)
    <2>1. memory' \in [Procs -> Memory]
      BY <1>2 DEF Critical, TypeOK, Memory
    <2>2. state' \in Memory /\ failures' \in Nat
      BY <1>2, <2>1, SaveType DEF Critical
    <2> QED
      BY <1>2, <2>1, <2>2 DEF Critical, TypeOK, history
  <1>3. CASE RunGoal(p)
    BY <1>3 DEF RunGoal, TypeOK, PC, files, flags, history
  <1>4. CASE RunEnds(p)
    BY <1>4 DEF RunEnds, TypeOK, PC, files, history
  <1>5. CASE SaveCycle(p)
    <2>1. memory[p] \in Memory
      BY DEF TypeOK
    <2>2. state' \in Memory /\ failures' \in Nat
      BY <1>5, <2>1, SaveType DEF SaveCycle
    <2> QED
      BY <1>5, <2>2 DEF SaveCycle, TypeOK, PC, flags, history
  <1>6. CASE Rest(p)
    BY <1>6 DEF Rest, TypeOK, PC, files, flags, work, history
  <1>7. CASE Wake(p)
    BY <1>7 DEF Wake, TypeOK, PC, files, flags, work, history
  <1>8. CASE Clean(p)
    <2>1. memory' \in [Procs -> Memory]
      BY <1>8, LastType DEF Clean, TypeOK
    <2>2. state' \in Memory /\ failures' \in Nat
      BY <1>8, <2>1, SaveType DEF Clean
    <2>3. owed' \subseteq Goals
      BY <1>8 DEF Clean, TypeOK, Memory
    <2> QED
      BY <1>8, <2>1, <2>2, <2>3 DEF Clean, TypeOK, PC, flags
  <1>9. CASE Unlink(p)
    BY <1>9 DEF Unlink, TypeOK, PC, flags, work, history
  <1>10. CASE End(p)
    <2>1. marker' \in {"none", "running", "clean"} /\ failures' \in Nat
      BY <1>10, MarkerType DEF End, EndMark
    <2> QED
      BY <1>10, <2>1, LeaveType DEF End, TypeOK
  <1> QED
    BY <1>1, <1>2, <1>3, <1>4, <1>5, <1>6, <1>7, <1>8, <1>9, <1>10

LEMMA SignalType ==
  ASSUME TypeOK, NEW p \in Procs, Signal(p) \/ Dies(p)
  PROVE  /\ pc' \in [Procs -> PC] /\ seen' \in [Procs -> Procs \cup {None}]
         /\ running' \subseteq Procs /\ shutting' \subseteq Procs
         /\ memory' \in [Procs -> Memory]
         /\ want' \in [Procs -> SUBSET Goals] /\ todo' \in [Procs -> SUBSET Goals]
         /\ errors' \in [Procs -> Nat] /\ late' \in [Procs -> SUBSET Procs]
         /\ lastEnd' \in {"none", "clean", "critical", "crash"} /\ owed' \subseteq Goals
  <1>1. CASE Dies(p)
    BY <1>1, LeaveType DEF Dies, TypeOK, history
  <1>2. CASE Signal(p) /\ ~Dies(p)
    BY <1>2 DEF Signal, TypeOK, PC, work, history
  <1> QED
    BY <1>1, <1>2

\* Signals, stop() and the stop command.
LEMMA StopType ==
  ASSUME TypeOK,
         \/ \E p \in Procs : Interrupt(p) \/ Timer(p) \/ StopCall(p) \/ Crash(p)
         \/ StopRead \/ StopProbe \/ StopReadAgain \/ StopSend
  PROVE  TypeOK'
  <1>1. ASSUME NEW p \in Procs, Interrupt(p) PROVE TypeOK'
    BY <1>1, SignalType DEF Interrupt, TypeOK, files
  <1>2. ASSUME NEW p \in Procs, Timer(p) PROVE TypeOK'
    BY <1>2 DEF Timer, TypeOK, files, work, history
  <1>3. ASSUME NEW p \in Procs, StopCall(p) PROVE TypeOK'
    <2>1. memory' \in [Procs -> Memory] /\ owed' \subseteq Goals
      BY <1>3 DEF StopCall, TypeOK, Memory
    <2> QED
      BY <1>3, <2>1 DEF StopCall, TypeOK, PC, files
  <1>4. ASSUME NEW p \in Procs, Crash(p) PROVE TypeOK'
    BY <1>4, SignalType DEF Crash, TypeOK, files
  <1>5. CASE StopRead
    BY <1>5 DEF StopRead, TypeOK, files, flags, work, history
  <1>6. CASE StopProbe
    BY <1>6 DEF StopProbe, NotStopping, TypeOK, flags, work, history
  <1>7. CASE StopReadAgain
    BY <1>7 DEF StopReadAgain, NotStopping, TypeOK, files, flags, work, history
  <1>8. CASE StopSend
    <2>1. stopper' = NotStopping /\ pid' \in {pid, None}
          /\ UNCHANGED <<state, marker, failures, crashes, doubled>>
      BY <1>8 DEF StopSend
    <2>2. CASE stopper.seen \in Alive /\ Signal(stopper.seen)
      <3>1. stopper.seen \in Procs
        BY <2>2 DEF Alive
      <3> QED
        BY <2>1, <2>2, <3>1, SignalType DEF NotStopping, TypeOK
    <2>3. CASE UNCHANGED <<pc, seen, late, flags, work, history>>
      BY <2>1, <2>3 DEF NotStopping, TypeOK, flags, work, history
    <2> QED
      BY <1>8, <2>2, <2>3 DEF StopSend
  <1> QED
    BY <1>1, <1>2, <1>3, <1>4, <1>5, <1>6, <1>7, <1>8

LEMMA NextType == TypeOK /\ [Next]_vars => TypeOK'
  <1> SUFFICES ASSUME TypeOK, [Next]_vars PROVE TypeOK'
    OBVIOUS
  <1>1. CASE UNCHANGED vars
    BY <1>1 DEF TypeOK, vars, files, flags, work, history
  <1> QED
    BY <1>1, StartType, LoopType, StopType DEF Next, Step, StopStep

\* Every variable stays in its type.
THEOREM DaemonTyped == Spec => []TypeOK
  BY InitType, NextType, PTL DEF Spec

-----------------------------------------------------------------------------
(* The pid file *)

\* Of a daemon that its pid file names: a process that has read or written
\* the file since has read this pid, and found nothing to write or remove; so
\* has the stop command.
PidInv ==
    \A p \in Procs : Owner(p) /\ pid = p =>
        /\ \A q \in Procs \ {p} :
               pc[q] \in Live /\ p \notin late[q] => pc[q] = "probe" /\ seen[q] = p
        /\ stopper.pc \in {"probe", "send"} /\ p \notin stopper.late => stopper.seen = p

\* Two daemons are up at once only after the first time they are.
OneUp == ~doubled => \A p, q \in Procs : pc[p] \in Up /\ pc[q] \in Up => p = q

\* What the files and the memory of the one daemon say of each other.
FileInv ==
    ~doubled =>
      /\ MarkerTrue
      /\ EndRecorded
      /\ InterruptedRestored
      /\ failures = 0 => \A p \in Procs : pc[p] \in {"unlink", "end"} =>
             state = memory[p] /\ memory[p].status \in {"stopped", "crashed"}
      /\ failures = 0 /\ (\A p \in Procs : pc[p] \notin Looping) =>
             owed \subseteq state.interrupted

DaemonInv == TypeOK /\ PidInv /\ OneUp /\ FileInv

LEMMA InitInv == Init => DaemonInv
  <1> SUFFICES ASSUME Init PROVE DaemonInv
    OBVIOUS
  <1>1. PidInv /\ OneUp
    BY DEF Init, PidInv, OneUp, Owner, Up, Handled, Looping
  <1>2. FileInv
    BY DEF Init, FileInv, MarkerTrue, EndRecorded, InterruptedRestored, Looping
  <1> QED
    BY <1>1, <1>2, InitType DEF DaemonInv

\* What PidNames says of a step.
Kept == \A p \in Procs :
            Owner(p) /\ pid = p /\ pid' # p =>
                \/ ~Owner(p)'
                \/ \E q \in Procs \ {p} : p \in late[q] /\ pc'[q] # pc[q]
                \/ p \in stopper.late /\ stopper' # stopper

\* A step of one process that leaves the pid file alone.
LEMMA PidKept ==
  ASSUME TypeOK, PidInv, NEW p \in Procs,
         \A q \in Procs \ {p} : pc'[q] = pc[q] /\ seen'[q] = seen[q] /\ late'[q] = late[q],
         Owner(p)' => Owner(p),
         \/ pc'[p] \notin Live
         \/ /\ pc[p] \in Live /\ late'[p] = late[p]
            /\ (pc'[p] = pc[p] /\ seen'[p] = seen[p]) \/ pc[p] # "probe",
         UNCHANGED <<pid, stopper>>
  PROVE  PidInv' /\ Kept
  <1>1. ASSUME NEW o \in Procs, Owner(o)', pid' = o PROVE Owner(o) /\ pid = o
    BY <1>1 DEF Owner
  <1>2. PidInv'
    BY <1>1 DEF PidInv
  <1>3. Kept
    BY DEF Kept
  <1> QED
    BY <1>2, <1>3

LEMMA StartPid ==
  ASSUME TypeOK, PidInv, NEW p \in Procs,
         \/ Read(p) \/ Probe(p) \/ WritePid(p) \/ Recover(p) \/ Restore(p)
         \/ SaveFirst(p) \/ Mark(p)
  PROVE  PidInv' /\ Kept
  <1> USE DEF Owner, Live, Up, Handled, Looping
  <1>1. CASE Read(p)
    <2>1. /\ pc[p] = "off" /\ pc' = [pc EXCEPT ![p] = "probe"] /\ pid # p
          /\ seen' = [seen EXCEPT ![p] = pid] /\ UNCHANGED <<pid, stopper, late>>
      BY <1>1 DEF Read, Unused, files
    <2> QED
      BY <2>1 DEF TypeOK, PidInv, Kept
  <1>2. CASE Probe(p)
    <2>1. CASE Leave(p) /\ UNCHANGED pid
      BY <1>2, <2>1, PidKept DEF Probe, Leave, TypeOK
    <2>2. CASE ~(Leave(p) /\ UNCHANGED pid)
      <3>1. /\ seen[p] \notin Alive /\ pid' \in {pid, None} /\ UNCHANGED <<seen, late, stopper>>
            /\ pc[p] = "probe" /\ pc' = [pc EXCEPT ![p] = "write"]
        BY <1>2, <2>2 DEF Probe
      <3>2. \A q \in Procs : Owner(q) => q # seen[p]
        BY <3>1 DEF Alive
      <3>3. \A q \in Procs : Owner(q) /\ pid = q => p \in Procs \ {q} /\ q \in late[p]
        BY <3>1, <3>2 DEF PidInv
      <3>4. pc'[p] # pc[p]
        BY <3>1 DEF TypeOK
      <3> QED
        BY <3>1, <3>3, <3>4 DEF PidInv, Kept, TypeOK
    <2> QED
      BY <2>1, <2>2
  <1>3. CASE WritePid(p)
    <2>1. /\ pc[p] = "write" /\ pc' = [pc EXCEPT ![p] = "recover"] /\ pid' = p
          /\ \A q \in Procs \ {p} : pc[q] \in Live => p \in late'[q]
          /\ stopper'.pc \in {"probe", "send"} => p \in stopper'.late
      BY <1>3 DEF WritePid, TypeOK
    <2>2. PidInv'
      BY <2>1 DEF PidInv, TypeOK
    <2>3. \A q \in Procs : Owner(q) /\ pid = q => p \in Procs \ {q} /\ q \in late[p]
      BY <2>1 DEF PidInv
    <2>4. pc'[p] # pc[p]
      BY <2>1 DEF TypeOK
    <2> QED
      BY <2>1, <2>2, <2>3, <2>4 DEF Kept
  <1>4. CASE Recover(p)
    BY <1>4, PidKept DEF Recover, TypeOK
  <1>5. CASE Restore(p)
    BY <1>5, PidKept DEF Restore, TypeOK, files
  <1>6. CASE SaveFirst(p)
    BY <1>6, PidKept DEF SaveFirst, TypeOK
  <1>7. CASE Mark(p)
    BY <1>7, PidKept DEF Mark, TypeOK
  <1> QED
    BY <1>1, <1>2, <1>3, <1>4, <1>5, <1>6, <1>7

LEMMA LoopPid ==
  ASSUME TypeOK, PidInv, NEW p \in Procs,
         \/ Begin(p) \/ Critical(p) \/ RunGoal(p) \/ RunEnds(p) \/ SaveCycle(p)
         \/ Rest(p) \/ Wake(p) \/ Clean(p) \/ Unlink(p) \/ End(p)
  PROVE  PidInv' /\ Kept
  <1> USE DEF Owner, Live, Up, Handled, Looping
  <1>1. CASE Begin(p)
    BY <1>1, PidKept DEF Begin, TypeOK, files
  <1>2. CASE Critical(p)
    BY <1>2, PidKept DEF Critical, TypeOK
  <1>3. CASE RunGoal(p)
    BY <1>3, PidKept DEF RunGoal, TypeOK, files
  <1>4. CASE RunEnds(p)
    BY <1>4, PidKept DEF RunEnds, TypeOK, files
  <1>5. CASE SaveCycle(p)
    BY <1>5, PidKept DEF SaveCycle, TypeOK
  <1>6. CASE Rest(p)
    BY <1>6, PidKept DEF Rest, TypeOK, files
  <1>7. CASE Wake(p)
    BY <1>7, PidKept DEF Wake, TypeOK, files
  <1>8. CASE Clean(p)
    BY <1>8, PidKept DEF Clean, TypeOK
  <1>9. CASE Unlink(p)
    <2>1. /\ pc[p] = "unlink" /\ pc' = [pc EXCEPT ![p] = "end"] /\ pid' = None
          /\ UNCHANGED <<late, stopper>>
      BY <1>9 DEF Unlink
    <2>2. \A q \in Procs \ {p} : Owner(q) /\ pid = q => q \in late[p]
      BY <2>1 DEF PidInv
    <2>3. pc'[p] = "end" /\ PidInv'
      BY <2>1 DEF TypeOK, PidInv
    <2> QED
      BY <2>1, <2>2, <2>3 DEF Kept
  <1>10. CASE End(p)
    BY <1>10, PidKept DEF End, Leave, TypeOK
  <1> QED
    BY <1>1, <1>2, <1>3, <1>4, <1>5, <1>6, <1>7, <1>8, <1>9, <1>10

LEMMA SignalPid ==
  ASSUME TypeOK, PidInv, NEW p \in Procs, Signal(p) \/ Dies(p), UNCHANGED <<pid, stopper>>
  PROVE  PidInv' /\ Kept
  <1> USE DEF Owner, Live, Up, Handled, Looping
  <1>1. CASE Dies(p)
    BY <1>1, PidKept DEF Dies, Leave, TypeOK
  <1>2. CASE Signal(p) /\ ~Dies(p)
    BY <1>2, PidKept DEF Signal, TypeOK
  <1> QED
    BY <1>1, <1>2

LEMMA StopPid ==
  ASSUME TypeOK, PidInv,
         \/ \E p \in Procs : Interrupt(p) \/ Timer(p) \/ StopCall(p) \/ Crash(p)
         \/ StopRead \/ StopProbe \/ StopReadAgain \/ StopSend
  PROVE  PidInv' /\ Kept
  <1> USE DEF Owner, Live, Up, Handled, Looping
  <1>1. ASSUME NEW p \in Procs, Interrupt(p) PROVE PidInv' /\ Kept
    BY <1>1, SignalPid DEF Interrupt, files
  <1>2. ASSUME NEW p \in Procs, Timer(p) PROVE PidInv' /\ Kept
    BY <1>2 DEF Timer, PidInv, Kept, files
  <1>3. ASSUME NEW p \in Procs, StopCall(p) PROVE PidInv' /\ Kept
    BY <1>3, PidKept DEF StopCall, TypeOK, files
  <1>4. ASSUME NEW p \in Procs, Crash(p) PROVE PidInv' /\ Kept
    BY <1>4, SignalPid DEF Crash, files
  <1>5. CASE StopRead
    BY <1>5 DEF StopRead, PidInv, Kept, files
  <1>6. CASE StopProbe
    <2>1. stopper.pc = "probe" /\ stopper'.pc \in {"found", "idle"} /\ UNCHANGED <<pc, seen, late>>
          /\ pid' \in {pid, None} /\ (pid' # pid => stopper.seen \notin Alive)
      BY <1>6 DEF StopProbe, NotStopping
    <2>2. \A q \in Procs : Owner(q) /\ pid = q /\ pid' # q => q \in stopper.late
      BY <2>1 DEF PidInv, Alive
    <2>3. stopper' # stopper /\ PidInv'
      BY <2>1 DEF PidInv
    <2> QED
      BY <2>2, <2>3 DEF Kept
  <1>7. CASE StopReadAgain
    BY <1>7 DEF StopReadAgain, NotStopping, PidInv, Kept, files
  <1>8. CASE StopSend
    <2>1. stopper.pc = "send" /\ stopper' = NotStopping /\ stopper'.pc = "idle"
      BY <1>8 DEF StopSend, NotStopping
    <2>2. CASE stopper.seen \in Alive /\ Signal(stopper.seen) /\ UNCHANGED pid
      <3>1. stopper.seen \in Procs
        BY <2>2 DEF Alive
      <3>2. \A o \in Procs : Owner(o)' => Owner(o)
        BY <2>2, <3>1 DEF Signal, Dies, Leave, TypeOK
      <3>3. \A q \in Procs : pc'[q] \in Live =>
                pc[q] \in Live /\ late'[q] = late[q] /\ seen'[q] = seen[q]
                /\ (pc'[q] = pc[q] \/ pc[q] # "probe")
        BY <2>2, <3>1 DEF Signal, Dies, Leave, TypeOK
      <3>4. PidInv'
        BY <2>1, <2>2, <3>2, <3>3 DEF PidInv
      <3> QED
        BY <2>2, <3>4 DEF Kept
    <2>3. CASE stopper.seen \notin Alive /\ pid' = None /\ UNCHANGED <<pc, seen, late>>
      <3>1. \A q \in Procs : Owner(q) /\ pid = q => q \in stopper.late
        BY <2>1, <2>3 DEF PidInv, Alive
      <3>2. stopper' # stopper /\ PidInv'
        BY <2>1, <2>3 DEF PidInv
      <3> QED
        BY <3>1, <3>2 DEF Kept
    <2> QED
      BY <1>8, <2>2, <2>3 DEF StopSend
  <1> QED
    BY <1>1, <1>2, <1>3, <1>4, <1>5, <1>6, <1>7, <1>8

LEMMA NextPid == TypeOK /\ PidInv /\ [Next]_vars => PidInv' /\ Kept
  <1> SUFFICES ASSUME TypeOK, PidInv, [Next]_vars PROVE PidInv' /\ Kept
    OBVIOUS
  <1>1. CASE UNCHANGED vars
    BY <1>1 DEF PidInv, Kept, Owner, vars, files
  <1> QED
    BY <1>1, StartPid, LoopPid, StopPid DEF Next, Step, StopStep

\* However starts, stops and crashes overlap, nobody who looks at the pid file
\* of a daemon after it was written takes it away.
THEOREM PidAlwaysNames == Spec => PidNames
  <1>1. Init => PidInv
    BY InitInv DEF DaemonInv
  <1>2. TypeOK /\ PidInv /\ [Next]_vars => [Kept]_vars
    BY NextPid
  <1> QED
    BY <1>1, <1>2, InitType, NextType, NextPid, PTL DEF Spec, PidNames, Kept

-----------------------------------------------------------------------------
(* The files a daemon leaves *)

\* The classes of places a daemon may be in.
LEMMA Places ==
  /\ Looping \subseteq Handled /\ Handled \subseteq Up
  /\ \A p : pc[p] \in Handled => Owner(p) \/ pc[p] = "end"
  BY DEF Looping, Handled, Up, Owner

\* One daemon at most has got past its start.
LEMMA OneHandled ==
  ASSUME OneUp, ~doubled, NEW p \in Procs, NEW q \in Procs,
         pc[p] \in Handled, pc[q] \in Handled
  PROVE  p = q
  BY Places DEF OneUp

\* A step that leaves the files and their history alone, within the start,
\* within the loop, or out of a start.
LEMMA FileKept ==
  ASSUME TypeOK, OneUp, FileInv, NEW p \in Procs, NEW v,
         pc' = [pc EXCEPT ![p] = v], pc[p] \in Handled <=> v \in Handled,
         pc[p] \in Looping <=> v \in Looping, v \notin {"unlink", "end"},
         UNCHANGED <<state, marker, lastEnd, owed, failures, memory>>, ~doubled' => ~doubled,
         \A q \in Procs : want'[q] = want[q] \/ (q = p /\ v \notin Handled)
  PROVE  FileInv'
  BY DEF TypeOK, FileInv, MarkerTrue, EndRecorded, InterruptedRestored, Looping, Handled

\* A write of the state in the loop.
LEMMA FileSaved ==
  ASSUME TypeOK, OneUp, FileInv, NEW p \in Procs, NEW v \in Looping, NEW s, Save(s),
         pc' = [pc EXCEPT ![p] = v], pc[p] \in Looping,
         UNCHANGED <<marker, history, want, doubled>>
  PROVE  FileInv'
  <1>1. ASSUME ~doubled, failures' = 0, NEW q \in Procs PROVE pc'[q] \notin {"unlink", "end"}
    BY <1>1, OneHandled DEF TypeOK, Looping, Handled
  <1>2. failures' = 0 => failures = 0
    BY DEF Save, TypeOK
  <1>3. p \in DOMAIN pc /\ pc'[p] \in Looping /\ pc'[p] \in Handled
    BY DEF TypeOK, Handled
  <1>4. \A q \in Procs : (pc'[q] \in Looping <=> pc[q] \in Looping)
                      /\ (pc'[q] \in Handled <=> pc[q] \in Handled)
    BY DEF TypeOK, Handled
  <1> QED
    BY <1>1, <1>2, <1>3, <1>4 DEF FileInv, MarkerTrue, EndRecorded, InterruptedRestored, history

\* A process that dies: nothing of the files changes.
LEMMA FileDied ==
  ASSUME TypeOK, OneUp, FileInv, NEW p \in Procs, Dies(p),
         UNCHANGED <<state, marker, failures, doubled>>
  PROVE  FileInv'
  <1> USE DEF Dies, Leave, TypeOK, FileInv, MarkerTrue, EndRecorded, InterruptedRestored
  <1>1. CASE pc[p] \in Handled
    <2>1. ~doubled => \A q \in Procs : pc'[q] \notin Handled
      BY <1>1, OneHandled DEF Handled, Looping
    <2> QED
      BY <1>1, <2>1 DEF Handled, Looping
  <1>2. CASE pc[p] \notin Handled
    BY <1>2 DEF history, Handled, Looping
  <1> QED
    BY <1>1, <1>2

\* Coming up beside another daemon is remembered.
LEMMA NextUp == TypeOK /\ OneUp /\ [Next]_vars => OneUp'
  <1> SUFFICES ASSUME TypeOK, OneUp, [Next]_vars PROVE OneUp'
    OBVIOUS
  <1> USE DEF Up, Handled, Looping
  <1>1. ASSUME NEW p \in Procs, WritePid(p) PROVE OneUp'
    <2>1. pc' = [pc EXCEPT ![p] = "recover"]
          /\ (~doubled' => ~doubled /\ \A q \in Procs \ {p} : pc[q] \notin Up)
      BY <1>1 DEF WritePid
    <2> QED
      BY <2>1 DEF TypeOK, OneUp
  <1>2. ASSUME UNCHANGED doubled, \A q \in Procs : pc'[q] \in Up => pc[q] \in Up
        PROVE  OneUp'
    BY <1>2 DEF OneUp
  <1>3. ASSUME NEW p \in Procs, Signal(p) \/ Dies(p)
        PROVE  \A q \in Procs : pc'[q] \in Up => pc[q] \in Up
    BY <1>3 DEF Signal, Dies, Leave, TypeOK
  <1>4. ASSUME NEW p \in Procs,
               Read(p) \/ (Step(p) /\ ~WritePid(p)) \/ Timer(p) \/ StopCall(p)
        PROVE  UNCHANGED doubled /\ \A q \in Procs : pc'[q] \in Up => pc[q] \in Up
    BY <1>4 DEF TypeOK, Step, Read, Probe, Recover, Restore, SaveFirst, Mark, Begin, Critical,
                RunGoal, RunEnds, SaveCycle, Rest, Wake, Clean, Unlink, End, Leave, Timer, StopCall
  <1>5. ASSUME NEW p \in Procs, Interrupt(p) \/ Crash(p)
        PROVE  UNCHANGED doubled /\ \A q \in Procs : pc'[q] \in Up => pc[q] \in Up
    BY <1>3, <1>5 DEF Interrupt, Crash
  <1>6. ASSUME StopRead \/ StopStep \/ UNCHANGED vars
        PROVE  UNCHANGED doubled /\ \A q \in Procs : pc'[q] \in Up => pc[q] \in Up
    <2>1. CASE StopRead \/ StopProbe \/ StopReadAgain \/ UNCHANGED vars
      BY <2>1 DEF StopRead, StopProbe, StopReadAgain, vars
    <2>2. CASE StopSend
      <3>1. UNCHANGED doubled
        BY <2>2 DEF StopSend
      <3>2. CASE stopper.seen \in Alive /\ Signal(stopper.seen)
        <4>1. stopper.seen \in Procs
          BY <3>2 DEF Alive
        <4> QED
          BY <1>3, <3>1, <3>2, <4>1
      <3>3. CASE UNCHANGED pc
        BY <3>1, <3>3
      <3> QED
        BY <2>2, <3>2, <3>3 DEF StopSend
    <2> QED
      BY <1>6, <2>1, <2>2 DEF StopStep
  <1> QED
    BY <1>1, <1>2, <1>4, <1>5, <1>6 DEF Next

LEMMA StartFiles ==
  ASSUME TypeOK, OneUp, FileInv, NEW p \in Procs,
         \/ Read(p) \/ Probe(p) \/ WritePid(p) \/ Recover(p) \/ Restore(p)
         \/ SaveFirst(p) \/ Mark(p)
  PROVE  FileInv'
  <1>1. CASE Read(p)
    <2>1. pc[p] = "off" /\ UNCHANGED <<state, marker, lastEnd, owed, failures, memory, doubled>>
          /\ pc' = [pc EXCEPT ![p] = "probe"]
          /\ \A q \in Procs \ {p} : want'[q] = want[q]
      BY <1>1 DEF Read, work, Unused, files, history, TypeOK
    <2> QED
      BY <2>1 DEF TypeOK, FileInv, MarkerTrue, EndRecorded,
                  InterruptedRestored, Handled, Looping
  <1>2. CASE Probe(p)
    <2>1. CASE Leave(p) /\ UNCHANGED pid
      <3>1. pc[p] \notin Handled
        BY <1>2 DEF Probe, Handled, Looping
      <3> QED
        BY <1>2, <2>1, <3>1, FileDied DEF Probe, Dies
    <2>2. CASE ~(Leave(p) /\ UNCHANGED pid)
      BY <1>2, <2>2, FileKept DEF Probe, work, history, Handled, Looping
    <2> QED
      BY <2>1, <2>2
  <1>3. CASE WritePid(p)
    BY <1>3, FileKept DEF WritePid, work, history, Handled, Looping
  <1>4. CASE Recover(p)
    <2>1. ~doubled => \A q \in Procs : pc[q] \notin Handled
      BY <1>4, Places DEF Recover, OneUp, Up, Handled, Looping
    <2> QED
      BY <1>4, <2>1 DEF Recover, TypeOK, FileInv, MarkerTrue, EndRecorded, InterruptedRestored,
                        history, work, Handled, Looping
  <1>5. CASE Restore(p)
    <2>1. ~doubled => \A q \in Procs \ {p} : pc[q] \notin Handled
      BY <1>5, OneHandled DEF Restore, Handled
    <2> QED
      BY <1>5, <2>1 DEF Restore, TypeOK, FileInv, MarkerTrue, EndRecorded, InterruptedRestored,
                        files, history, Handled, Looping
  <1>6. CASE SaveFirst(p)
    BY <1>6, FileSaved DEF SaveFirst, work, Looping
  <1>7. CASE Mark(p)
    <2>1. ~doubled => \A q \in Procs \ {p} : pc[q] \notin Handled
      BY <1>7, OneHandled DEF Mark, Handled, Looping
    <2>2. pc[p] \in Handled /\ pc' = [pc EXCEPT ![p] = "loop"] /\ marker' \in {marker, "running"}
          /\ (failures' = 0 => failures = 0) /\ UNCHANGED <<state, history, want, memory, doubled>>
      BY <1>7 DEF Mark, WriteMarker, work, TypeOK, Handled, Looping
    <2> QED
      BY <2>1, <2>2, <1>7 DEF Mark, TypeOK, FileInv, MarkerTrue, EndRecorded, InterruptedRestored,
                        history, Handled, Looping
  <1> QED
    BY <1>1, <1>2, <1>3, <1>4, <1>5, <1>6, <1>7

LEMMA LoopFiles ==
  ASSUME TypeOK, OneUp, FileInv, NEW p \in Procs,
         \/ Begin(p) \/ Critical(p) \/ RunGoal(p) \/ RunEnds(p) \/ SaveCycle(p)
         \/ Rest(p) \/ Wake(p) \/ Clean(p) \/ Unlink(p) \/ End(p)
  PROVE  FileInv'
  <1>1. CASE Begin(p)
    BY <1>1 DEF Begin, files, history, TypeOK, FileInv, MarkerTrue, EndRecorded,
                InterruptedRestored, Handled, Looping
  <1>2. CASE Critical(p)
    <2>1. pc' = [pc EXCEPT ![p] = "loop"]
      BY <1>2 DEF Critical, TypeOK
    <2> QED
      BY <1>2, <2>1, FileSaved DEF Critical, Looping
  <1>3. CASE RunGoal(p)
    BY <1>3 DEF RunGoal, files, history, TypeOK, FileInv, MarkerTrue, EndRecorded,
                InterruptedRestored, Handled, Looping
  <1>4. CASE RunEnds(p)
    BY <1>4 DEF RunEnds, files, history, TypeOK, FileInv, MarkerTrue, EndRecorded,
                InterruptedRestored, Handled, Looping
  <1>5. CASE SaveCycle(p)
    BY <1>5, FileSaved DEF SaveCycle, Looping
  <1>6. CASE Rest(p)
    BY <1>6 DEF Rest, files, work, history, TypeOK, FileInv, MarkerTrue, EndRecorded,
                InterruptedRestored, Handled, Looping
  <1>7. CASE Wake(p)
    BY <1>7, FileKept DEF Wake, files, work, history, Handled, Looping
  <1>8. CASE Clean(p)
    <2>1. ~doubled => \A q \in Procs \ {p} : pc[q] \notin Handled
      BY <1>8, OneHandled DEF Clean, Handled, Looping
    <2>2. /\ memory'[p] = Last(p) /\ pc' = [pc EXCEPT ![p] = "unlink"] /\ pc[p] = "loop"
          /\ owed' = Last(p).interrupted /\ UNCHANGED <<marker, lastEnd, want, doubled>>
          /\ failures' = 0 => failures = 0 /\ state' = memory'[p]
      BY <1>8, LastType DEF Clean, Save, TypeOK
    <2> QED
      BY <2>1, <2>2, LastType DEF TypeOK, FileInv, MarkerTrue, EndRecorded,
                        InterruptedRestored, Handled, Looping
  <1>9. CASE Unlink(p)
    BY <1>9 DEF Unlink, TypeOK, FileInv, MarkerTrue, EndRecorded, InterruptedRestored,
                work, history, Handled, Looping
  <1>10. CASE End(p)
    <2>1. ~doubled => \A q \in Procs \ {p} : pc[q] \notin Handled
      BY <1>10, OneHandled DEF End, Handled, Looping
    <2>2. /\ pc' = [pc EXCEPT ![p] = "off"] /\ pc[p] = "end" /\ UNCHANGED <<state, owed, doubled>>
          /\ failures' = 0 => failures = 0 /\ marker' = EndMark(p)
          /\ marker' \in {marker, EndMark(p)}
          /\ lastEnd' = IF memory[p].status = "crashed" THEN "critical" ELSE "clean"
      BY <1>10 DEF End, WriteMarker, Leave, TypeOK
    <2> QED
      BY <2>1, <2>2 DEF TypeOK, FileInv, MarkerTrue, EndRecorded, EndMark,
                        InterruptedRestored, Handled, Looping
  <1> QED
    BY <1>1, <1>2, <1>3, <1>4, <1>5, <1>6, <1>7, <1>8, <1>9, <1>10

LEMMA SignalFiles ==
  ASSUME TypeOK, OneUp, FileInv, NEW p \in Procs, Signal(p),
         UNCHANGED <<state, marker, failures, doubled>>
  PROVE  FileInv'
  <1>1. CASE Dies(p)
    BY <1>1, FileDied
  <1>2. CASE Signal(p) /\ ~Dies(p)
    BY <1>2 DEF Signal, TypeOK, FileInv, MarkerTrue, EndRecorded, InterruptedRestored,
                work, history, Handled, Looping
  <1> QED
    BY <1>1, <1>2

LEMMA StopFiles ==
  ASSUME TypeOK, OneUp, FileInv,
         \/ \E p \in Procs : Interrupt(p) \/ Timer(p) \/ StopCall(p) \/ Crash(p)
         \/ StopRead \/ StopProbe \/ StopReadAgain \/ StopSend
  PROVE  FileInv'
  <1> USE DEF FileInv, MarkerTrue, EndRecorded, InterruptedRestored
  <1>1. ASSUME NEW p \in Procs, Interrupt(p) PROVE FileInv'
    BY <1>1, SignalFiles DEF Interrupt, files
  <1>2. ASSUME NEW p \in Procs, Timer(p) PROVE FileInv'
    BY <1>2 DEF Timer, files, work, history
  <1>3. ASSUME NEW p \in Procs, StopCall(p) PROVE FileInv'
    <2>1. ~doubled => \A q \in Procs \ {p} : pc[q] \notin Handled
      BY <1>3, OneHandled DEF StopCall, Handled
    <2> QED
      BY <1>3, <2>1 DEF StopCall, TypeOK, files, Handled, Looping
  <1>4. ASSUME NEW p \in Procs, Crash(p) PROVE FileInv'
    BY <1>4, FileDied DEF Crash, files
  <1>5. CASE StopRead
    BY <1>5 DEF StopRead, files, flags, work, history
  <1>6. CASE StopProbe
    BY <1>6 DEF StopProbe, flags, work, history
  <1>7. CASE StopReadAgain
    BY <1>7 DEF StopReadAgain, files, flags, work, history
  <1>8. CASE StopSend
    <2>1. UNCHANGED <<state, marker, failures, doubled>>
      BY <1>8 DEF StopSend
    <2>2. CASE stopper.seen \in Alive /\ Signal(stopper.seen)
      <3>1. stopper.seen \in Procs
        BY <2>2 DEF Alive
      <3> QED
        BY <2>1, <2>2, <3>1, SignalFiles
    <2>3. CASE UNCHANGED <<pc, seen, late, flags, work, history>>
      BY <2>1, <2>3 DEF flags, work, history
    <2> QED
      BY <1>8, <2>2, <2>3 DEF StopSend
  <1> QED
    BY <1>1, <1>2, <1>3, <1>4, <1>5, <1>6, <1>7, <1>8

LEMMA NextInv == DaemonInv /\ [Next]_vars => DaemonInv'
  <1> SUFFICES ASSUME DaemonInv, [Next]_vars PROVE DaemonInv'
    OBVIOUS
  <1>1. TypeOK' /\ PidInv' /\ OneUp'
    BY NextType, NextPid, NextUp DEF DaemonInv
  <1>2. FileInv'
    <2>1. CASE UNCHANGED vars
      BY <2>1 DEF DaemonInv, FileInv, MarkerTrue, EndRecorded, InterruptedRestored,
                  vars, files, work, history
    <2> QED
      BY <2>1, StartFiles, LoopFiles, StopFiles DEF DaemonInv, Next, Step, StopStep
  <1> QED
    BY <1>1, <1>2 DEF DaemonInv

LEMMA AlwaysInv == Spec => []DaemonInv
  BY InitInv, NextInv, PTL DEF Spec

\* The marker is never "clean_shutdown" after a crash, a critical error or
\* the start of another daemon.
THEOREM MarkerAlwaysTrue == Spec => []MarkerTrue
  <1>1. DaemonInv => MarkerTrue
    BY DEF DaemonInv, FileInv, MarkerTrue
  <1> QED
    BY <1>1, AlwaysInv, PTL

\* With no failed write, the files tell how the last daemon ended.
THEOREM EndAlwaysRecorded == Spec => []EndRecorded
  <1>1. DaemonInv => EndRecorded
    BY DEF DaemonInv, FileInv, EndRecorded
  <1> QED
    BY <1>1, AlwaysInv, PTL

\* The goals a daemon was stopped with are those of the next daemon too.
THEOREM InterruptedAlwaysRestored == Spec => []InterruptedRestored
  <1>1. DaemonInv => InterruptedRestored
    BY DEF DaemonInv, FileInv, InterruptedRestored
  <1> QED
    BY <1>1, AlwaysInv, PTL
=============================================================================
