----------------------------- MODULE AppendLog -----------------------------
(* What a log file of a goal (observations.json, gap-history.json) promises *)
(* to those who append to it: it grows by one entry at a time until it is   *)
(* removed with the goal, and never shows anything else.  An append under   *)
(* way over the removal brings back what it had read.                       *)
CONSTANT Entries

VARIABLES
    log,
    erased   \* entries of removed logs

Init == log = {} /\ erased = {}

Append(e) ==
    /\ e \notin log \cup erased
    /\ \E back \in SUBSET erased : log' = log \cup back \cup {e}
    /\ UNCHANGED erased

Remove == log' = {} /\ erased' = erased \cup log

Next == Remove \/ \E e \in Entries : Append(e)

Spec == Init /\ [][Next]_<<log, erased>>
=============================================================================
