------------------------------ MODULE Reports ------------------------------
(***************************************************************************)
(* Reports and notifications: ReportingEngine saves a report of every      *)
(* iteration, sums up days and weeks from what is saved, and hands a       *)
(* notification, once saved, to the NotificationDispatcher without waiting *)
(* for it (src/src/reporting-engine.ts, src/src/runtime/notification-      *)
(* dispatcher.ts and channels/): several may be under way, each at one     *)
(* channel after the other.                                                *)
(*                                                                         *)
(* Time is in hours, and so are the cooldowns.  What a report says is left *)
(* out but for the numbers that the next level up adds together.           *)
(***************************************************************************)
EXTENDS Integers, Sequences, FiniteSetsExt

CONSTANTS
    Notices,         \* report types of notifications
    Cooldown,        \* hours between two of a type
    Channels,        \* a sequence: the types a channel accepts, {} for all
    DayHours,        \* hours of a day
    QuietFrom, QuietTo, Exceptions,  \* do_not_disturb
    MaxHour,         \* bound: hours that pass
    MaxSaved,        \* bound: reports saved
    MaxNotices,      \* bound: of them, notifications
    MaxRepFaults     \* bound: reports that cannot be saved

ASSUME ReportsAssumption ==
    /\ Exceptions \subseteq Notices /\ Notices \cap {"execution", "daily"} = {}
    /\ Cooldown \in [Notices -> Nat] /\ Channels \in Seq(SUBSET Notices)
    /\ DayHours \in Nat \ {0} /\ QuietFrom \in 0 .. DayHours - 1 /\ QuietTo \in 0 .. DayHours - 1
    /\ MaxHour \in Nat /\ MaxSaved \in Nat /\ MaxNotices \in Nat /\ MaxRepFaults \in Nat

VARIABLES
    hour,            \* the clock
    saved,           \* reports/: kind, hour and number of loops of each, in order
    dispatches,      \* dispatch() under way: report, channel and when it was checked
    lastSent,        \* hour of the last delivery of a type, or -1
    delivered,       \* history: report, channel, hours of check and answer
    repFaults

repVars == <<hour, saved, dispatches, lastSent, delivered, repFaults>>

Kinds == {"execution", "daily"} \cup Notices
DayOf(h) == h \div DayHours

RepInit ==
    /\ hour = 0 /\ saved = <<>> /\ dispatches = {}
    /\ lastSent = [t \in Notices |-> -1]
    /\ delivered = {} /\ repFaults = 0

Saved(kind, loops) == Append(saved, [kind |-> kind, hour |-> hour, loops |-> loops])

(***************************************************************************)
(* Reports                                                                 *)
(***************************************************************************)

\* listReports() and what the summaries take from it.
Listed(S) == {i \in DOMAIN saved : saved[i].kind \in S}
MutLoopsToday == Cardinality(Listed({"execution"}))
LoopsToday == Cardinality({i \in Listed({"execution"}) : DayOf(saved[i].hour) = DayOf(hour)})
WithinWeek == {i \in Listed({"daily"}) : hour - saved[i].hour <= 7 * DayHours}
WeeklyLoops == MapThenSumSet(LAMBDA i : saved[i].loops, WithinWeek)

\* generateExecutionSummary() and saveReport() at the end of an iteration; a
\* report that cannot be saved is logged and gone.
EndIteration ==
    /\ Len(saved) < MaxSaved
    /\ \/ saved' = Saved("execution", 1) /\ UNCHANGED repFaults
       \/ repFaults < MaxRepFaults /\ repFaults' = repFaults + 1 /\ UNCHANGED saved
    /\ UNCHANGED <<hour, dispatches, lastSent, delivered>>

\* The user asks for the report of the day, as often as they like.
DailySummary ==
    /\ Len(saved) < MaxSaved
    /\ saved' = Saved("daily", LoopsToday)
    /\ UNCHANGED <<hour, dispatches, lastSent, delivered, repFaults>>

(***************************************************************************)
(* Notifications                                                           *)
(***************************************************************************)

Dispatch(r, c) == [report |-> r, channel |-> c, since |-> -1]

\* generateNotification(): saved, then delivered with nobody waiting; what
\* cannot be saved is thrown and not delivered.
Notify(t) ==
    /\ Cardinality(Listed(Notices)) < MaxNotices
    /\ \/ /\ saved' = Saved(t, 0)
          /\ dispatches' = dispatches \cup {Dispatch(Len(saved) + 1, 1)}
          /\ UNCHANGED repFaults
       \/ repFaults < MaxRepFaults /\ repFaults' = repFaults + 1 /\ UNCHANGED <<saved, dispatches>>
    /\ UNCHANGED <<hour, lastSent, delivered>>

\* isDND(): the quiet hours may go over midnight.
IsDND(t) ==
    LET h == hour % DayHours IN
    /\ t \notin Exceptions
    /\ IF QuietFrom > QuietTo THEN h >= QuietFrom \/ h < QuietTo
       ELSE h >= QuietFrom /\ h < QuietTo

MutIsCooldown(t) == FALSE
IsCooldown(t) == Cooldown[t] > 0 /\ lastSent[t] # -1 /\ hour - lastSent[t] < Cooldown[t]
Accepts(c, t) == Channels[c] = {} \/ t \in Channels[c]

TypeOfReport(d) == saved[d.report].kind

\* The next channel is asked, or passed over for one of three reasons.
AtChannel(d) ==
    /\ d.channel <= Len(Channels) /\ d.since = -1
    /\ LET t == TypeOfReport(d) IN
       IF IsDND(t) \/ IsCooldown(t) \/ ~Accepts(d.channel, t)
         THEN dispatches' = (dispatches \ {d}) \cup {Dispatch(d.report, d.channel + 1)}
         ELSE dispatches' = (dispatches \ {d}) \cup {[d EXCEPT !.since = hour]}
    /\ UNCHANGED <<hour, saved, lastSent, delivered, repFaults>>

\* sendToChannel() answers; an error or a timeout of the request is no delivery.
MutMarksSent(d) == lastSent
MarksSent(d) == [lastSent EXCEPT ![TypeOfReport(d)] = hour]
ChannelAnswers(d) ==
    /\ d.since # -1
    /\ dispatches' = (dispatches \ {d}) \cup {Dispatch(d.report, d.channel + 1)}
    /\ \/ /\ lastSent' = MarksSent(d)
          /\ delivered' = delivered \cup
                {[report |-> d.report, channel |-> d.channel, from |-> d.since, to |-> hour]}
       \/ UNCHANGED <<lastSent, delivered>>
    /\ UNCHANGED <<hour, saved, repFaults>>

\* dispatchToPluginNotifiers(): whoever supports the type is told, whatever the
\* hour and the cooldown; their errors are logged.
ToPlugins(d) ==
    /\ d.channel = Len(Channels) + 1
    /\ dispatches' = dispatches \ {d}
    /\ UNCHANGED <<hour, saved, lastSent, delivered, repFaults>>

Tick ==
    /\ hour < MaxHour /\ hour' = hour + 1
    /\ UNCHANGED <<saved, dispatches, lastSent, delivered, repFaults>>

\* The process ends: what was under way and when the last was sent are gone.
RepRestart ==
    /\ dispatches' = {} /\ lastSent' = [t \in Notices |-> -1]
    /\ repFaults < MaxRepFaults /\ repFaults' = repFaults + 1
    /\ delivered' = {}
    /\ UNCHANGED <<hour, saved>>

\* The two sides of the reports, which share the clock and the files.
SummaryStep == EndIteration \/ DailySummary \/ Tick
NoticeStep ==
    \/ Tick \/ RepRestart
    \/ \E t \in Notices : Notify(t)
    \/ \E d \in dispatches : AtChannel(d) \/ ChannelAnswers(d) \/ ToPlugins(d)

-----------------------------------------------------------------------------
\* Types of the reports and of what is under way.
RepTypeOK ==
    /\ hour \in 0 .. MaxHour /\ \A i \in DOMAIN saved : saved[i].kind \in Kinds
    /\ \A d \in dispatches : d.report \in DOMAIN saved /\ d.channel \in 1 .. Len(Channels) + 1
    /\ lastSent \in [Notices -> -1 .. MaxHour]

\* Notifications of one type keep their distance: what is delivered within the
\* cooldown of another was already with its channel when the other arrived.
SpacedOut ==
    \A a, b \in delivered :
        LET t == saved[a.report].kind IN
        t = saved[b.report].kind /\ a # b /\ a.to < b.from => b.from - a.to >= Cooldown[t]

\* The report of a day counts every loop of that day so far and no other, and a
\* week whose days were each reported once at most counts no loop twice.
Executions(h) == {i \in Listed({"execution"}) : DayOf(saved[i].hour) = DayOf(h)}
OncePerDay == \A i, j \in WithinWeek : DayOf(saved[i].hour) = DayOf(saved[j].hour) => i = j
SumsAgree ==
    /\ \A i \in Listed({"daily"}) :
        saved[i].loops = Cardinality({j \in Executions(saved[i].hour) : j < i})
    /\ OncePerDay => WeeklyLoops <= Cardinality(Listed({"execution"}))
=============================================================================
