------------------------------ MODULE LogFile ------------------------------
(***************************************************************************)
(* The log file of a process (src/src/runtime/logger.ts): lines go to a    *)
(* stream that reaches the disk later, the file is put aside when the day  *)
(* changes or when it is full, and what is logged meanwhile is queued.     *)
(* The process may end at any moment, for nothing in src/src calls         *)
(* Logger.close(), and another starts on the same file.                    *)
(*                                                                         *)
(* A line is its number and has size 1.  A file that is empty and one that *)
(* is not there are the same; there is one logger at a time, and the clock *)
(* does not go back.                                                       *)
(***************************************************************************)
EXTENDS Naturals, FiniteSets, SequencesExt

CONSTANTS
    LogSize,         \* maxSizeBytes
    LogFiles,        \* maxFiles
    MaxLines,        \* bound: lines logged
    MaxDays,         \* bound: days
    MaxLogFaults     \* bound: errors of a stream and ends of the process

ASSUME LogFileAssumption ==
    /\ LogSize \in Nat \ {0} /\ LogFiles \in Nat \ {0}
    /\ MaxLines \in Nat /\ MaxDays \in Nat \ {0} /\ MaxLogFaults \in Nat

VARIABLES
    current,         \* pulseed.log
    sized,           \* pulseed.<i>.log, the higher the older
    dated,           \* pulseed.<date>.log
    logger,          \* the memory of the logger
    today, lines,    \* the date, and the number of lines logged so far
    logFaults,
    gone             \* history: lines not written by an error or an end of the
                     \* process, and those of files beyond the limit

logVars == <<current, sized, dated, logger, today, lines, logFaults, gone>>

Days == 1 .. MaxDays
NoDay == 0
NoRotation == [type |-> "none", day |-> NoDay, at |-> "flush", i |-> 0]

\* The size of a file that is there already is asked for, and awaited by nobody.
NewLogger ==
    [buffer |-> <<>>, queue |-> <<>>, size |-> 0, hadData |-> FALSE, lastDate |-> NoDay,
     rotation |-> NoRotation, errored |-> FALSE, stat |-> "asked", seen |-> 0]

LogInit ==
    /\ current = <<>> /\ sized = [i \in 1 .. LogFiles |-> <<>>] /\ dated = [d \in Days |-> <<>>]
    /\ logger = NewLogger /\ today = 1 /\ lines = 0 /\ logFaults = 0 /\ gone = {}

(***************************************************************************)
(* writeToFile() on the memory m of a logger                               *)
(***************************************************************************)

\* checkRotation(): the day first, and the size only on a day that did not change.
CheckRotation(m) ==
    IF m.lastDate \notin {NoDay, today}
      THEN IF m.hadData THEN [NoRotation EXCEPT !.type = "date", !.day = m.lastDate]
                        ELSE NoRotation
      ELSE IF m.size >= LogSize THEN [NoRotation EXCEPT !.type = "size", !.i = LogFiles - 1]
                                ELSE NoRotation

Checked(m) == [m EXCEPT !.lastDate = today,
                        !.hadData = @ /\ m.lastDate \in {NoDay, today}]

MutWriteToFile(m, line) ==
    IF CheckRotation(m).type # "none" /\ m.rotation.type = "none"
      THEN [Checked(m) EXCEPT !.queue = Append(@, line), !.rotation = CheckRotation(m)]
    ELSE IF m.errored THEN Checked(m)
    ELSE [Checked(m) EXCEPT !.buffer = Append(@, line), !.size = @ + 1, !.hadData = TRUE]
WriteToFile(m, line) ==
    IF m.rotation.type # "none" THEN [m EXCEPT !.queue = Append(@, line)]
    ELSE IF CheckRotation(m).type # "none"
      THEN [Checked(m) EXCEPT !.queue = Append(@, line), !.rotation = CheckRotation(m)]
    ELSE IF m.errored THEN Checked(m)
    ELSE [Checked(m) EXCEPT !.buffer = Append(@, line), !.size = @ + 1, !.hadData = TRUE]

Held(m) == Range(m.buffer) \cup Range(m.queue)

LogLine ==
    /\ lines < MaxLines /\ lines' = lines + 1
    /\ logger' = WriteToFile(logger, lines')
    /\ gone' = IF lines' \in Held(logger') THEN gone ELSE gone \cup {lines'}
    /\ UNCHANGED <<current, sized, dated, today, logFaults>>

(***************************************************************************)
(* The disk                                                                *)
(***************************************************************************)

OnDisk == UNCHANGED <<sized, dated, today, lines>>

\* The size may be of any moment between the start and the answer, and replaces
\* what has been counted since.  Of a file that is not there none is told.
StatReads ==
    /\ logger.stat = "asked"
    /\ logger' = [logger EXCEPT !.stat = "read", !.seen = Len(current)]
    /\ UNCHANGED <<current, logFaults, gone>> /\ OnDisk
StatResolves ==
    /\ logger.stat = "read"
    /\ \/ logger' = [logger EXCEPT !.stat = "done", !.size = logger.seen,
                                   !.hadData = logger.seen > 0]
       \/ logger.seen = 0 /\ logger' = [logger EXCEPT !.stat = "done"]
    /\ UNCHANGED <<current, logFaults, gone>> /\ OnDisk

Flush ==
    /\ logger.buffer # <<>>
    /\ current' = Append(current, Head(logger.buffer))
    /\ logger' = [logger EXCEPT !.buffer = Tail(@)]
    /\ UNCHANGED <<logFaults, gone>> /\ OnDisk

\* After the first error of a stream nothing is written any more.
StreamError ==
    /\ logger.buffer # <<>> /\ logFaults < MaxLogFaults /\ logFaults' = logFaults + 1
    /\ logger' = [logger EXCEPT !.buffer = <<>>, !.errored = TRUE]
    /\ gone' = gone \cup Range(logger.buffer)
    /\ UNCHANGED current /\ OnDisk

(***************************************************************************)
(* flushAndRotate(), a rename at a time                                    *)
(***************************************************************************)

At(place) == logger.rotation.type # "none" /\ logger.rotation.at = place
Proceed(place, i) == logger' = [logger EXCEPT !.rotation.at = place, !.rotation.i = i]

\* The stream has ended: all it was given is on the disk.
Flushed ==
    /\ At("flush") /\ logger.buffer = <<>>
    /\ Proceed(IF logger.rotation.type = "size" /\ logger.rotation.i > 0
                 THEN "unlink" ELSE "rename", logger.rotation.i)
    /\ UNCHANGED <<current, logFaults, gone>> /\ OnDisk

UnlinkOldest ==
    /\ At("unlink") /\ Proceed("shift", logger.rotation.i)
    /\ sized' = [sized EXCEPT ![LogFiles] = <<>>] /\ gone' = gone \cup Range(sized[LogFiles])
    /\ UNCHANGED <<current, dated, today, lines, logFaults>>

\* rename(pulseed.<i>.log, pulseed.<i+1>.log) does nothing if the first is missing.
MutShift ==
    LET i == LogFiles - logger.rotation.i
    IN  /\ At("shift")
        /\ Proceed(IF i + 1 < LogFiles THEN "shift" ELSE "rename", logger.rotation.i - 1)
        /\ sized' = [sized EXCEPT ![i + 1] = sized[i], ![i] = <<>>]
        /\ UNCHANGED <<current, dated, today, lines, logFaults, gone>>
Shift ==
    LET i == logger.rotation.i
    IN  /\ At("shift") /\ Proceed(IF i > 1 THEN "shift" ELSE "rename", i - 1)
        /\ sized' = IF sized[i] = <<>> THEN sized
                    ELSE [sized EXCEPT ![i + 1] = sized[i], ![i] = <<>>]
        /\ UNCHANGED <<current, dated, today, lines, logFaults, gone>>

RenameCurrent ==
    /\ At("rename") /\ Proceed("open", 0) /\ current' = <<>>
    /\ IF current = <<>> THEN UNCHANGED <<sized, dated, gone>>
       ELSE IF logger.rotation.type = "date"
         THEN dated' = [dated EXCEPT ![logger.rotation.day] = current] /\ UNCHANGED <<sized, gone>>
         ELSE /\ sized' = [sized EXCEPT ![1] = current] /\ gone' = gone \cup Range(sized[1])
              /\ UNCHANGED dated
    /\ UNCHANGED <<today, lines, logFaults>>

\* The queue is written to the new file, and queued again behind a line that
\* makes another rotation necessary.
Drain ==
    LET fresh == [logger EXCEPT !.rotation = NoRotation, !.size = 0, !.queue = <<>>]
    IN  /\ At("open")
        /\ logger' = FoldLeft(WriteToFile, fresh, logger.queue)
        /\ gone' = gone \cup (Range(logger.queue) \ Held(logger'))
        /\ UNCHANGED <<current, logFaults>> /\ OnDisk

(***************************************************************************)
(* What happens around it                                                  *)
(***************************************************************************)

Midnight ==
    /\ today < MaxDays /\ today' = today + 1
    /\ UNCHANGED <<current, sized, dated, logger, lines, logFaults, gone>>

\* The process ends, with what has not reached the disk, and another starts.
Restart ==
    /\ logFaults < MaxLogFaults /\ logFaults' = logFaults + 1
    /\ logger' = NewLogger /\ gone' = gone \cup Held(logger)
    /\ UNCHANGED current /\ OnDisk

LogNext ==
    \/ LogLine \/ StatReads \/ StatResolves \/ Flush \/ StreamError
    \/ Flushed \/ UnlinkOldest \/ Shift \/ RenameCurrent \/ Drain \/ Midnight \/ Restart

(***************************************************************************)
(* Properties                                                              *)
(***************************************************************************)

Texts == {current} \cup Range(sized) \cup Range(dated)

LogTypeOK ==
    /\ \A t \in Texts : Range(t) \subseteq 1 .. lines
    /\ DOMAIN sized = 1 .. LogFiles /\ DOMAIN dated = Days
    /\ Held(logger) \subseteq 1 .. lines /\ logger.lastDate \in Days \cup {NoDay}
    /\ logger.size \in 0 .. lines /\ logger.stat \in {"asked", "read", "done"}
    /\ today \in Days /\ lines \in 0 .. MaxLines /\ logFaults \in 0 .. MaxLogFaults
    /\ gone \subseteq 1 .. lines

Precedes(s, t) == \A x \in Range(s), y \in Range(t) : x < y
Increasing(s) == \A i, j \in DOMAIN s : i < j => s[i] < s[j]

\* The files tell what happened in its order: each is a run of lines, older files
\* come before newer ones, what is still in memory comes after all files, and no
\* line is missing but those that an error, the end of a process or the limit of
\* files took - also when lines are logged during a rotation, when the day changes
\* in one, and when the process ends between two renames (flushAndRotate with the
\* queue of writeToFile).
LogOrdered ==
    /\ \A t \in Texts : Increasing(t)
    /\ \A i, j \in 1 .. LogFiles : i < j => Precedes(sized[j], sized[i])
    /\ \A d, e \in Days : d < e => Precedes(dated[d], dated[e])
    /\ \A t \in Range(sized) \cup Range(dated) : Precedes(t, current)
    /\ \A t \in Texts : Precedes(t, logger.buffer \o logger.queue)
    /\ Increasing(logger.buffer \o logger.queue)
    /\ 1 .. lines = (UNION {Range(t) : t \in Texts}) \cup Held(logger) \cup gone
=============================================================================
