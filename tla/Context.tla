------------------------------- MODULE Context -------------------------------
(***************************************************************************)
(* The command context the daemon sends to the model (omnish-context and   *)
(* the context half of session_mgr.rs): which recorded commands are        *)
(* selected, which of them keep their output, whose stream file the output *)
(* is read from, the frozen prefix of completion requests and the warm-up  *)
(* tasks that advance it, and the history the chat tools answer from.      *)
(*                                                                         *)
(* A recorded command is a record with the session it ran in, the time it  *)
(* started (times are distinct: a tie is broken by hash order in the code),*)
(* its command line or NoLine (an empty Enter), and its byte range in the  *)
(* session's stream file.  A list sorted by started_at is the set of its   *)
(* records; a text is the records it shows, and two texts are equal when   *)
(* they show the same records.  The size of a text is one unit per command *)
(* line and the recorded length per output.  One build of the sections is  *)
(* one step.                                                               *)
(***************************************************************************)
EXTENDS Integers, FiniteSets, FiniteSetsExt

CONSTANTS
    CtxSessions,        \* sessions in memory
    DirOf,              \* the working directory a session's shell reports
    CtxLines,           \* command lines
    NoLine,             \* Enter on an empty line
    DetailedCommands, HistoryCommands, MinCurrent,
    DetailedMin, DetailedMax, CwdHistoryLimit,
    SectionsLimit,      \* max_content_chars of the completion backend
    NoLimit,            \* None
    OutLengths,         \* bytes of output a command may leave
    MaxRecords,         \* bound: commands run
    MaxWarmups          \* bound: warm-up tasks in flight

NotFrozen == -1

\* config_schema.rs puts no order on detailed_min and detailed_max; with
\* detailed_max < detailed_min the subtraction in the reset underflows.
ASSUME ContextShape ==
    /\ {DetailedMin, DetailedMax} \subseteq Nat \ {0}
    /\ {DetailedCommands, MinCurrent, HistoryCommands, CwdHistoryLimit} \subseteq Nat
    /\ DetailedMin <= DetailedMax
    /\ NoLine \notin CtxLines

VARIABLES
    ctxClock,       \* the last started_at handed out
    running,        \* running[s]: started_at of the command running in s, or 0
    records,        \* the recorded commands of all sessions
    historyFrozen,  \* history_frozen_until
    recentFrozen,   \* recent_frozen_until
    lastContext,    \* last_completion_context
    warmups,        \* warm-up tasks in flight
    served,         \* the sections last sent to the model
    disturbed       \* a record or a freeze changed what the prefix shows

ctxVars == <<ctxClock, running, records, historyFrozen, recentFrozen,
             lastContext, warmups, served, disturbed>>
----------------------------------------------------------------------------
(* Selection (omnish-context). *)

Latest(n, S) == {c \in S : Cardinality({d \in S : d.start > c.start}) < n}
Oldest(n, S) == {c \in S : Cardinality({d \in S : d.start < c.start}) < n}
LastStart(S) == Max({c.start : c \in S})
Meaningful(S) == {c \in S : c.line # NoLine}
Own(s, S) == {c \in S : c.sess = s}

\* Variant: the session's own commands are not topped up.
select_recent(S, max, s, min) == Latest(max, Meaningful(S))

\* RecentCommands with a current session: the last `max` commands, topped up
\* with the session's own.  What is too much leaves in the order of the vector:
\* foreign commands, oldest first, then the session's commands of the recent
\* part, oldest first, then the added ones, which were pushed newest first.
select_commands(S, max, s, min) ==
    LET recent     == Latest(max, Meaningful(S))
        have       == Own(s, recent)
        needed     == min - Cardinality(have)
        additional == IF needed > 0 THEN Latest(needed, Own(s, Meaningful(S)) \ recent) ELSE {}
        foreign    == Oldest(Cardinality(recent \union additional) - max, recent \ have)
        selected   == (recent \union additional) \ foreign
        over       == Cardinality(selected) - max
        drained    == Oldest(over, have)
    IN  (selected \ drained) \ Latest(over - Cardinality(drained), additional)

\* Commands of the current session are promoted from the history part until
\* the detailed part holds the minimum.
split_with_current_session_minimum(selected, count, s, min) ==
    LET detailed == Latest(count, selected)
        needed   == min - Cardinality(Own(s, detailed))
        promoted == IF needed > 0 THEN Latest(needed, Own(s, selected \ detailed)) ELSE {}
    IN  [history |-> selected \ (detailed \union promoted), detailed |-> detailed \union promoted]

select_and_split(S, max, s, min, count) ==
    split_with_current_session_minimum(select_commands(S, max, s, min), count, s, min)

\* MultiSessionReader looks a range up by offset and length alone: the bytes
\* may come from any session with a command of that range (the one the hash
\* map was given last).
read_command_output(S, c) == {d.sess : d \in {e \in S : e.off = c.off /\ e.len = c.len}}

\* Commands of the detailed part carry their output, the others do not.
build_command_contexts_with_session(S, max, s, min, count) ==
    select_and_split(S, max, s, min, count)

TextSize(ctx) ==
    Cardinality(ctx.history) + MapThenSumSet(LAMBDA c : 1 + c.len, ctx.detailed)

\* One round of the reduction: a quarter less, the ratio of detailed to
\* history kept (up to the rounding of f64), the minimum restored.
Reduced(detailed, history, min) ==
    LET total == detailed + history
        new   == total - Max({total \div 4, 1})
        kept  == (new * detailed) \div total
        d     == IF kept > 0 /\ kept < min THEN Min({min, new}) ELSE kept
    IN  <<d, new - d>>

\* What each pair of counts, detailed and history, ends in.
Attempts(S, s, total, limit) ==
    LET attempt[p \in (0 .. total) \X (0 .. total)] ==
            LET ctx == build_command_contexts_with_session(S, p[1] + p[2], s, MinCurrent, p[1])
            IN  IF \/ limit = NoLimit
                   \/ TextSize(ctx) <= limit
                   \/ p[1] + p[2] <= 1
                THEN ctx
                ELSE attempt[Reduced(p[1], p[2], MinCurrent)]
    IN  attempt

build_context_with_limit(S, s, detailed, history, limit) ==
    Attempts(S, s, detailed + history, limit)[<<detailed, history>>]

get_chat_context(s, limit) ==
    build_context_with_limit(Own(s, records), s, DetailedCommands, 0, limit)

get_all_sessions_chat_context(s, limit) ==
    build_context_with_limit(records, s, DetailedCommands, 0, limit)

get_session_context_with_limit(s, limit) ==
    build_context_with_limit(Own(s, records), s, DetailedCommands, HistoryCommands, limit)

get_all_sessions_context_with_limit(s, limit) ==
    build_context_with_limit(records, s, DetailedCommands, HistoryCommands, limit)

\* handle_llm_request and the chat scenario of /context.
resolve_chat_context(scope, s, limit) ==
    IF scope = "current" THEN get_chat_context(s, limit)
                         ELSE get_all_sessions_chat_context(s, limit)

\* The `/sessions` list: of each session how many commands keep their output.
format_sessions_list(s) ==
    LET split == select_and_split(records, DetailedCommands + HistoryCommands, s,
                                  MinCurrent, DetailedCommands)
    IN  [t \in CtxSessions |-> Cardinality(Own(t, split.detailed))]
----------------------------------------------------------------------------
(* Completion sections. *)

NoSections == [history |-> {}, warmup |-> {}, tail |-> {}, path |-> NoLine]

\* format_sections: the detailed commands up to the cutoff belong to the stable
\* prefix, the later ones and the working directory to the remainder.
format_sections(ctx, cutoff, s) ==
    IF ctx.history \union ctx.detailed = {} THEN NoSections
    ELSE [history |-> ctx.history,
          warmup  |-> {c \in ctx.detailed : c.start <= cutoff},
          tail    |-> {c \in ctx.detailed : c.start > cutoff},
          path    |-> DirOf[s]]

SectionsSize(x) ==
    TextSize([history |-> x.history, detailed |-> x.warmup \union x.tail])

FirstCutoff(M) ==
    LET selected == Latest(HistoryCommands + DetailedMin, M)
        older    == selected \ Latest(DetailedMin, selected)
    IN  IF older = {} THEN 0 ELSE LastStart(older)

\* The elastic window: more than DetailedMax detailed commands move the cutoff
\* up to the last DetailedMin.
HistoryCutoff(M) ==
    LET cutoff   == IF historyFrozen = NotFrozen THEN FirstCutoff(M) ELSE historyFrozen
        detailed == {c \in M : c.start > cutoff}
    IN  IF Cardinality(detailed) > DetailedMax
        THEN LastStart(detailed \ Latest(DetailedMin, detailed))
        ELSE cutoff

\* The commands of a build and how many of them are detailed.
Selection(M) ==
    LET cutoff == HistoryCutoff(M)
    IN  [history  |-> Latest(HistoryCommands, {c \in M : c.start <= cutoff}),
         detailed |-> {c \in M : c.start > cutoff}]

\* Variant: no freeze on first use.
RecentUnfrozen(sel) == LastStart(sel.history \union sel.detailed)

\* Lazily set to the last selected command.
RecentCutoff(sel) ==
    IF recentFrozen = NotFrozen THEN LastStart(sel.history \union sel.detailed)
                                ELSE recentFrozen

Rendered(all, d, h, cutoff, s) ==
    format_sections([history  |-> Latest(d + h, all) \ Latest(d, all),
                     detailed |-> Latest(d, all)], cutoff, s)

Quarter(k) == Max({k \div 4, 1})

\* What each pair of counts ends in: detailed commands are given up first, down
\* to one, then history.
Fits(all, cutoff, s) ==
    LET n == Cardinality(all)
        fit[p \in (0 .. n) \X (0 .. n)] ==
            LET x == Rendered(all, p[1], p[2], cutoff, s)
            IN  IF p[1] + p[2] = 0 THEN NoSections
                ELSE IF SectionsLimit = NoLimit \/ SectionsSize(x) <= SectionsLimit THEN x
                ELSE IF p[1] > 1 THEN fit[<<p[1] - Quarter(p[1]), p[2]>>]
                ELSE IF p[2] > 0 THEN fit[<<p[1], p[2] - Quarter(p[2])>>]
                ELSE x
    IN  fit

Fitting(sel, cutoff, s) ==
    Fits(sel.history \union sel.detailed, cutoff, s)
        [<<Cardinality(sel.detailed), Cardinality(sel.history)>>]

build_completion_sections(s) ==
    LET sel == Selection(Meaningful(records))
    IN  IF Meaningful(records) = {} THEN NoSections ELSE Fitting(sel, RecentCutoff(sel), s)

\* What a build leaves behind in the two cutoffs.
Freeze ==
    LET M == Meaningful(records)
    IN  /\ historyFrozen' = IF M = {} THEN historyFrozen ELSE HistoryCutoff(M)
        /\ recentFrozen'  = IF M = {} THEN recentFrozen ELSE RecentCutoff(Selection(M))

\* Commands run in the session's directory that start with the input.
build_cwd_history(dir, matching) ==
    Latest(CwdHistoryLimit, {c \in records : DirOf[c.sess] = dir /\ c.line \in matching})

StablePrefix(x) == <<x.history, x.warmup>>
----------------------------------------------------------------------------
(* The history the chat tools answer from. *)

\* All sessions' commands, sorted by started_at.
get_all_commands_with_reader ==
    [i \in 1 .. Cardinality(records) |->
        CHOOSE c \in records : Cardinality({d \in records : d.start < c.start}) = i - 1]

\* Newest first up to `count` matches (one even for count = 0), numbered from
\* the front of the whole list.
list_history(count, matching) ==
    LET all    == get_all_commands_with_reader
        picked == {i \in DOMAIN all : all[i].line \in CtxLines /\ all[i].line \in matching}
    IN  {[seq |-> i, line |-> all[i].line] :
            i \in {j \in picked : Cardinality({k \in picked : k > j}) < Max({count, 1})}}

\* A number is answered only with the command text it was listed with.
get_output(seq, line) ==
    LET all == get_all_commands_with_reader
    IN  IF seq \notin DOMAIN all THEN {}
        ELSE IF all[seq].line # line THEN {} ELSE {all[seq]}

\* The working directory of the reminder: the probe's, else that of the last
\* command of this session.
build_system_reminder(s, probed) ==
    IF probed THEN DirOf[s]
    ELSE IF Own(s, records) = {} THEN NoLine
    ELSE DirOf[(CHOOSE c \in Own(s, records) : c.start = LastStart(Own(s, records))).sess]

collect_recent_commands(since) == {c \in records : c.start >= since}
----------------------------------------------------------------------------
CtxInit ==
    /\ ctxClock = 0
    /\ running = [s \in CtxSessions |-> 0]
    /\ records = {}
    /\ historyFrozen = NotFrozen
    /\ recentFrozen = NotFrozen
    /\ lastContext = NoSections
    /\ warmups = {}
    /\ served = NoSections
    /\ disturbed = FALSE

CommandStart(s) ==
    /\ running[s] = 0
    /\ ctxClock < MaxRecords
    /\ ctxClock' = ctxClock + 1
    /\ running' = [running EXCEPT ![s] = ctxClock + 1]
    /\ UNCHANGED <<records, historyFrozen, recentFrozen, lastContext, warmups, served, disturbed>>

\* CommandComplete: the record takes the bytes the stream gained, and a warm-up
\* task is spawned.
CommandDone(s, line, len) ==
    /\ running[s] # 0 /\ Cardinality(warmups) < MaxWarmups
    /\ LET mine == Own(s, records)
           off  == IF mine = {} THEN 0 ELSE Max({c.off + c.len : c \in mine})
       IN  records' = records \union
              {[sess |-> s, start |-> running[s], line |-> line, off |-> off, len |-> len]}
    /\ warmups' = warmups \union {[id |-> running[s], sess |-> s, pc |-> "check", latest |-> 0]}
    /\ disturbed' = (disturbed \/ running[s] <= recentFrozen \/ running[s] <= historyFrozen)
    /\ running' = [running EXCEPT ![s] = 0]
    /\ UNCHANGED <<ctxClock, historyFrozen, recentFrozen, lastContext, served>>

\* handle_completion_request.
CompletionRequest(s) ==
    /\ Freeze
    /\ served' = build_completion_sections(s)
    /\ disturbed' = FALSE
    /\ UNCHANGED <<ctxClock, running, records, lastContext, warmups>>

\* check_and_warmup_sections up to the comparison: the first text has nothing
\* to be compared with, an equal one needs no warm-up, and how much two
\* different texts share depends on their bytes.
WarmupCheck(t) ==
    LET new == build_completion_sections(t.sess)
    IN  /\ t.pc = "check"
        /\ Freeze
        /\ lastContext' = new
        /\ \E needed \in BOOLEAN :
              /\ needed => lastContext # NoSections /\ lastContext # new
              /\ warmups' = (warmups \ {t}) \union
                               (IF needed THEN {[t EXCEPT !.pc = "latest"]} ELSE {})
        /\ disturbed' = (disturbed \/ historyFrozen # historyFrozen')
        /\ UNCHANGED <<ctxClock, running, records, served>>

\* latest_command_started_at: empty commands count.
WarmupLatest(t) ==
    /\ t.pc = "latest"
    /\ warmups' = (warmups \ {t}) \union {[t EXCEPT !.pc = "freeze", !.latest = LastStart(records)]}
    /\ UNCHANGED <<ctxClock, running, records, historyFrozen, recentFrozen, lastContext, served, disturbed>>

WarmupFreeze(t) ==
    /\ t.pc = "freeze"
    /\ recentFrozen' = t.latest
    /\ disturbed' = TRUE
    /\ warmups' = (warmups \ {t}) \union {[t EXCEPT !.pc = "rebuild"]}
    /\ UNCHANGED <<ctxClock, running, records, historyFrozen, lastContext, served>>

\* The rebuilt sections are cached and sent (try_warmup_kv_cache).
WarmupRebuild(t) ==
    /\ t.pc = "rebuild"
    /\ Freeze
    /\ served' = build_completion_sections(t.sess)
    /\ lastContext' = build_completion_sections(t.sess)
    /\ disturbed' = FALSE
    /\ warmups' = warmups \ {t}
    /\ UNCHANGED <<ctxClock, running, records>>

CtxNext ==
    \/ \E s \in CtxSessions :
          \/ CommandStart(s)
          \/ \E line \in CtxLines \union {NoLine}, len \in OutLengths : CommandDone(s, line, len)
          \/ CompletionRequest(s)
    \/ \E t \in warmups :
          WarmupCheck(t) \/ WarmupLatest(t) \/ WarmupFreeze(t) \/ WarmupRebuild(t)

CtxSpec == CtxInit /\ [][CtxNext]_ctxVars
----------------------------------------------------------------------------
(* Properties *)

\* Between warm-ups the cached block is the same bytes for every request of
\* every session: unless a command that was already running at a freeze was
\* recorded since, in front of one of the two cutoffs, the elastic window was
\* reset, or the texts had to be cut to the size limit, a build now shows in
\* its stable prefix exactly what was last sent (build_completion_sections, recent_frozen_until).
PrefixStable ==
    \A s \in CtxSessions :
        LET now == build_completion_sections(s)
        IN  ( /\ served # NoSections /\ ~disturbed
              /\ HistoryCutoff(Meaningful(records)) = historyFrozen
              /\ SectionsLimit = NoLimit )
            => StablePrefix(now) = StablePrefix(served)

\* A chat context that did not have to be reduced shows the last MinCurrent
\* commands of the session it is for with their output, however busy the other
\* sessions are, and never more commands than configured (select_commands and
\* split_with_current_session_minimum).
OwnCommandsShown ==
    \A s \in CtxSessions :
        LET ctx == resolve_chat_context("all", s, NoLimit)
        IN  /\ Latest(MinCurrent, Own(s, Meaningful(records))) \subseteq ctx.detailed
            /\ Cardinality(ctx.detailed) <= Max({DetailedCommands, MinCurrent})

\* "If still too long (all are current session), truncate oldest"
\* (recent.rs:140): whatever a size limit takes away from the chat context, the
\* session's own commands it shows are later than those it leaves out.
TruncatesOldest ==
    \A s \in CtxSessions, limit \in 1 .. 4 :
        LET ctx   == resolve_chat_context("current", s, limit)
            shown == Own(s, ctx.history \union ctx.detailed)
        IN  \A c \in shown, d \in Own(s, Meaningful(records)) \ shown : d.start < c.start

\* Every number list_history prints is one get_output answers, with the
\* command that was printed (1-based numbers over the unfiltered list).
HistoryNumbersAnswer ==
    \A count \in 0 .. 2, matching \in SUBSET CtxLines :
        \A entry \in list_history(count, matching) :
            \E c \in get_output(entry.seq, entry.line) : c.line = entry.line

\* A session's own history is served: in its chat context, and number by number.
HistoryServed == OwnCommandsShown /\ HistoryNumbersAnswer

\* "Reads stream entries for a given command's byte range" (StreamReader): the
\* output shown for a command is output of the session it ran in.
OutputIsOwn ==
    \A c \in records : c.len > 0 => read_command_output(records, c) = {c.sess}
============================================================================
