-------------------------------- MODULE Notes --------------------------------
(***************************************************************************)
(* The scheduled work notes (hourly_summary.rs, daily_notes.rs): every few *)
(* hours the commands of the last window are summarised by the model into  *)
(* a file named after the local day and hour, and ten minutes past         *)
(* midnight the files of the day before are summarised into the daily      *)
(* note.  Time is local: an hour and whether it is on the hour ("sharp")   *)
(* or ten past and later ("past").  The window job's cron schedule is read *)
(* in UTC, the daily one in local time; UtcOffset is the difference.       *)
(***************************************************************************)
EXTENDS Integers, FiniteSets

CONSTANTS
    DayHours,       \* hours of a day (24)
    Window,         \* hours of a summary (4)
    UtcOffset,      \* local time minus UTC, in hours
    LastHour        \* bound: hours the clock runs

ASSUME NotesShape ==
    /\ {DayHours, Window} \subseteq Nat \ {0} /\ DayHours % Window = 0
    /\ UtcOffset \in Int /\ LastHour \in Nat

VARIABLES
    notesNow,    \* [hour, phase]
    fired,       \* the jobs that were started at this time
    ran,         \* hours in which a command was started
    summarising, \* window jobs waiting for the model: the hours they cover
    hourly,      \* [day, file] -> hours covered; the files on disk
    reporting,   \* daily jobs waiting for the model
    daily,       \* day -> hours covered
    spoiled      \* days of which a summary failed, came late or was overwritten

notesVars == <<notesNow, fired, ran, summarising, hourly, reporting, daily, spoiled>>

Day(h) == h \div DayHours
Put(f, k, v) == [x \in DOMAIN f \union {k} |-> IF x = k THEN v ELSE f[x]]

NotesInit ==
    /\ notesNow = [hour |-> 0, phase |-> "past"]
    /\ fired = {} /\ ran = {}
    /\ summarising = {} /\ reporting = {}
    /\ hourly = <<>> /\ daily = <<>>
    /\ spoiled = {}

HourlyDue ==
    notesNow.phase = "sharp" /\ (notesNow.hour - UtcOffset) % Window = 0

DailyDue ==
    notesNow.phase = "past" /\ notesNow.hour % DayHours = 0 /\ notesNow.hour > 0

\* The scheduler starts what is due before time goes on.
ClockTick ==
    /\ HourlyDue => "hourly" \in fired
    /\ DailyDue => "daily" \in fired
    /\ fired' = {}
    /\ IF notesNow.phase = "sharp"
       THEN notesNow' = [notesNow EXCEPT !.phase = "past"]
       ELSE notesNow.hour < LastHour /\ notesNow' = [hour |-> notesNow.hour + 1, phase |-> "sharp"]
    /\ spoiled' = spoiled \union {Day(h) : h \in UNION summarising}
    /\ UNCHANGED <<ran, summarising, hourly, reporting, daily>>

CommandRun ==
    /\ notesNow.phase = "past"
    /\ notesNow.hour \notin ran
    /\ ran' = ran \union {notesNow.hour}
    /\ UNCHANGED <<notesNow, fired, summarising, hourly, reporting, daily, spoiled>>

\* build_hourly_context over collect_recent_commands: the hours of the window.
build_hourly_context == ran \intersect ((notesNow.hour - Window) .. (notesNow.hour - 1))

\* generate_hourly_summary up to the model: an empty window is skipped.
HourlyStart ==
    /\ HourlyDue /\ "hourly" \notin fired
    /\ fired' = fired \union {"hourly"}
    /\ summarising' = IF build_hourly_context = {} THEN summarising
                      ELSE summarising \union {build_hourly_context}
    /\ UNCHANGED <<notesNow, ran, hourly, reporting, daily, spoiled>>

\* Variant: without the rule for the hour after midnight.
HourFilePlain == [day |-> Day(notesNow.hour), file |-> notesNow.hour % DayHours]

\* The file is named when the answer arrives; in the hour after midnight it is
\* the last file of the day before.
HourFile ==
    IF notesNow.hour % DayHours = 0
    THEN [day |-> Day(notesNow.hour) - 1, file |-> DayHours]
    ELSE [day |-> Day(notesNow.hour), file |-> notesNow.hour % DayHours]

\* A failed summary is not retried.  A late one may take the file name of the
\* next window and replace its summary.
HourlyAnswer(covers, ok) ==
    /\ covers \in summarising
    /\ summarising' = summarising \ {covers}
    /\ hourly' = IF ok THEN Put(hourly, HourFile, covers) ELSE hourly
    /\ spoiled' = IF ok
                  THEN spoiled \union {Day(h) : h \in IF HourFile \in DOMAIN hourly
                                                      THEN hourly[HourFile] ELSE {}}
                  ELSE spoiled \union {Day(h) : h \in covers}
    /\ UNCHANGED <<notesNow, fired, ran, reporting, daily>>

collect_hourly_notes(day) ==
    UNION {hourly[f] : f \in {g \in DOMAIN hourly : g.day = day}}

\* generate_daily_note up to the model: no files, no note.
DailyStart ==
    LET day == Day(notesNow.hour) - 1
    IN  /\ DailyDue /\ "daily" \notin fired
        /\ fired' = fired \union {"daily"}
        /\ reporting' = IF collect_hourly_notes(day) = {} THEN reporting
                        ELSE reporting \union {[day |-> day, covers |-> collect_hourly_notes(day)]}
        /\ UNCHANGED <<notesNow, ran, summarising, hourly, daily, spoiled>>

DailyAnswer(job, ok) ==
    /\ job \in reporting
    /\ reporting' = reporting \ {job}
    /\ daily' = IF ok THEN Put(daily, job.day, job.covers) ELSE daily
    /\ UNCHANGED <<notesNow, fired, ran, summarising, hourly, spoiled>>

NotesNext ==
    \/ ClockTick \/ CommandRun \/ HourlyStart \/ DailyStart
    \/ \E covers \in summarising, ok \in BOOLEAN : HourlyAnswer(covers, ok)
    \/ \E job \in reporting, ok \in BOOLEAN : DailyAnswer(job, ok)

NotesSpec == NotesInit /\ [][NotesNext]_notesVars
----------------------------------------------------------------------------
\* The daily note reports the whole day, its last hours too, although the
\* summary of those is only made after midnight: of a day whose window
\* summaries were answered at once and kept the note covers every command (the 24.md
\* rule of generate_hourly_summary, the ten minutes generate_daily_note waits).
DayFullyReported ==
    \A day \in DOMAIN daily :
        day \notin spoiled => {h \in ran : Day(h) = day} \subseteq daily[day]
============================================================================
