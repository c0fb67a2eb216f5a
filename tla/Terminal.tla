------------------------------ MODULE Terminal ------------------------------
(***************************************************************************)
(* The terminal side of the client: the main loop between the keyboard and *)
(* the shell (omnish-client/src/main.rs) with its detectors, the prefix    *)
(* interceptor (interceptor.rs), the tracker of the command line           *)
(* (shell_input.rs) and the completer with its ghost text (completion.rs). *)
(*                                                                         *)
(* The loop is one thread.  Each of its blocks is an action; a read of the *)
(* keyboard handles all its bytes in one step.  Around the loop are the    *)
(* user, the shell, which answers with OSC 133 events, and the daemon,     *)
(* which answers completion requests late, out of order or never.          *)
(*                                                                         *)
(* A byte is a record of its class and of its number in what was typed.    *)
(* Classes are single bytes, except for the digits of a CSI sequence,      *)
(* which are one byte of class "200", "201" or "n".                        *)
(***************************************************************************)
EXTENDS Integers, Sequences, FiniteSets, SequencesExt

CONSTANTS
    Presses,     \* byte sequences that a key, a paste or the terminal sends
    Texts,       \* lines that the model may suggest, as sequences of classes
    Settings,    \* settings the daemon may push; resume_prefix stays "::"
    KeyLimit,    \* keys pressed
    EventLimit,  \* requests sent, settings pushed, alternate screens
    MaxRequests  \* MAX_CONCURRENT_REQUESTS

ASSUME TerminalAssumption ==
    /\ KeyLimit \in Nat /\ EventLimit \in Nat /\ MaxRequests \in Nat \ {0}
    /\ Presses \subseteq Seq(STRING) /\ Texts \subseteq Seq(STRING)
    /\ \A c \in Settings : c.prefix # <<>> /\ c.developer \in BOOLEAN /\ c.complete \in BOOLEAN

VARIABLES
    tty, dsr, typed,            \* bytes typed and not read; held by DsrDetector
    ic, timer,                  \* InputInterceptor, prefix_match_time
    sh, cp,                     \* ShellInputTracker, ShellCompleter
    chan, queued, triggered,    \* completion_rx, pending_completion_responses
    flying, asked,              \* requests at the daemon; readline report asked for
    shell, alt, cfg,            \* the shell; alternate screen; pushed settings
    sent, gone, blind, keys, events   \* history and budgets

loop == <<dsr, ic, timer, sh, cp, chan, queued, triggered>>
env  == <<tty, typed, flying, asked, shell, alt, cfg>>
hist == <<sent, gone, blind, keys, events>>
vars == <<loop, env, hist>>

None == <<"none">>
Classes(bs) == [i \in DOMAIN bs |-> bs[i].c]
Ids(bs) == {bs[i].id : i \in DOMAIN bs}
Digits == {"200", "201", "n"}
Letters == {"a", "b", "A", "R"}
Printable == Digits \cup Letters \cup {":", "[", "~"}
resume_prefix == <<":", ":">>

NoFilter == [mode |-> "none", raw |-> <<>>]

Init ==
    /\ tty = <<>> /\ dsr = <<>> /\ typed = 0
    /\ ic = [buf |-> <<>>, chat |-> FALSE, supp |-> FALSE, esc |-> NoFilter,
             content |-> FALSE, recent |-> FALSE]
    /\ timer = FALSE
    /\ sh = [line |-> <<>>, prompt |-> TRUE, seq |-> 0, changed |-> FALSE, esc |-> 0,
             rl |-> FALSE, end |-> TRUE, isearch |-> FALSE]
    /\ cp = [ghost |-> None, for |-> <<>>, reqs |-> {}, pending |-> 0, sent |-> -1,
             dismissed |-> None]
    /\ chan = <<>> /\ queued = <<>> /\ triggered = FALSE
    /\ flying = {} /\ asked = FALSE
    /\ shell = "prompt" /\ alt = FALSE
    /\ cfg = [prefix |-> <<":">>, developer |-> FALSE, complete |-> TRUE]
    /\ sent = <<>> /\ gone = {} /\ blind = FALSE /\ keys = KeyLimit /\ events = EventLimit

-----------------------------------------------------------------------------
(* The completer.                                                          *)

Clear(c) == [c EXCEPT !.ghost = None, !.for = <<>>, !.dismissed = None, !.reqs = {}]

note_activity(c) == [c EXCEPT !.reqs = {[q EXCEPT !.typed = TRUE] : q \in @}]

(* Mutant: a ghost is kept without comparing what was typed with it.       *)
keep_ghost(c, line, seq) ==
    [note_activity(c) EXCEPT !.pending = seq, !.dismissed = IF @ # line THEN None ELSE @]

(* on_input_changed: the ghost stays, trimmed, while its text is typed.    *)
on_input_changed(c, line, seq) ==
    LET n == Len(line) - Len(c.for)
        kept == /\ c.ghost # None /\ IsPrefix(c.for, line) /\ n < Len(c.ghost)
                /\ SubSeq(c.ghost, 1, n) = SubSeq(line, Len(c.for) + 1, Len(line))
    IN  [note_activity(c) EXCEPT
            !.pending = seq,
            !.dismissed = IF @ # line THEN None ELSE @,
            !.ghost = IF kept THEN SubSeq(@, n + 1, Len(@)) ELSE None,
            !.for = IF kept THEN line ELSE @]

(* on_response.  The text stands for the best of the suggestions; None for *)
(* one that the filters reject.                                            *)
on_response(c, r, line) ==
    LET mine == {q \in c.reqs : q.seq = r.seq}
        input == (CHOOSE q \in mine : TRUE).input
        less == [c EXCEPT !.reqs = @ \ mine]
        fits == /\ r.text # None /\ IsPrefix(input, r.text)
                /\ IsPrefix(line, r.text) /\ line # r.text
    IN  IF \/ c.dismissed = line \/ mine = {} \/ r.seq < c.pending
           \/ ~(IsPrefix(input, line) \/ IsPrefix(line, input))
        THEN less
        ELSE IF fits /\ \A q \in mine : ~q.typed
        THEN [less EXCEPT !.ghost = SubSeq(r.text, Len(line) + 1, Len(r.text)), !.for = line]
        ELSE [less EXCEPT !.ghost = None]

(* The completer after each of the answers rs.                             *)
AfterAnswers(c, rs, line) ==
    LET d[i \in 0 .. Len(rs)] == IF i = 0 THEN c ELSE on_response(d[i - 1], rs[i], line)
    IN  d

Answered(c, rs, line) == AfterAnswers(c, rs, line)[Len(rs)]

accept(c) == [c EXCEPT !.ghost = None, !.for = <<>>]
dismiss(c) == [c EXCEPT !.ghost = None, !.for = <<>>, !.dismissed = c.for]

should_request(c, line, seq) ==
    /\ c.dismissed # line /\ Cardinality(c.reqs) < MaxRequests
    /\ \A q \in c.reqs : q.input # line
    /\ c.sent < seq

mark_sent(c, line, seq) ==
    [c EXCEPT !.reqs = @ \cup {[seq |-> seq, input |-> line, typed |-> FALSE]}, !.sent = seq]

-----------------------------------------------------------------------------
(* The tracker of the command line.                                        *)

Bumped(s, line) == [s EXCEPT !.line = line, !.seq = @ + 1, !.changed = TRUE]

on_prompt(s) ==
    Bumped([s EXCEPT !.prompt = TRUE, !.esc = 0, !.rl = FALSE, !.end = TRUE, !.isearch = FALSE], <<>>)

FeedLine(s, c) ==
    CASE s.esc = 1 -> [s EXCEPT !.esc = IF c = "[" THEN 2 ELSE 0]
      [] s.esc = 2 -> [s EXCEPT !.esc = IF c \in Letters \cup {"~", "["} THEN 0 ELSE 2]
      [] OTHER ->
         CASE c = "esc" -> [s EXCEPT !.esc = 1]
           [] c = "cr" -> Bumped([s EXCEPT !.prompt = FALSE], <<>>)
           [] c = "bs" /\ s.line # <<>> -> Bumped(s, Front(s.line))
           [] c \in Printable -> Bumped(s, Append(s.line, c))
           [] OTHER -> s

(* The tracker after each of the bytes bs.                                 *)
AfterBytes(s, bs) ==
    LET t[i \in 0 .. Len(bs)] == IF i = 0 THEN s ELSE FeedLine(t[i - 1], bs[i].c)
    IN  t

feed_forwarded(s, bs) == IF s.prompt THEN AfterBytes(s, bs)[Len(bs)] ELSE s

set_readline(s, line, end) ==
    IF ~s.prompt THEN s
    ELSE LET t == [s EXCEPT !.rl = FALSE, !.end = end]
         IN  IF line = s.line THEN t ELSE Bumped(t, line)

(* take_change, on_input_changed: a change made while a readline report is *)
(* awaited is forgotten.                                                   *)
Changes(m) ==
    LET told == m.sh.changed /\ ~m.sh.rl
    IN  [m EXCEPT !.sh.changed = FALSE,
                  !.cp = IF told THEN on_input_changed(@, m.sh.line, m.sh.seq) ELSE @,
                  !.blind = (@ /\ ~told) \/ (m.sh.changed /\ m.sh.rl)]

-----------------------------------------------------------------------------
(* The interceptor.  m is the loop's state during a read.                  *)

Reading == [ic |-> ic, sh |-> sh, cp |-> cp, timer |-> timer, sent |-> sent, gone |-> gone,
            blind |-> blind, asked |-> asked, queued |-> queued, triggered |-> triggered,
            chan |-> chan, redraw |-> FALSE]

Lose(m, bs) == [m EXCEPT !.gone = @ \cup Ids(bs)]

(* EscSeqFilter.feed                                                       *)
EscFeed(e, b) ==
    LET raw == Append(e.raw, b)
        to(mode) == [mode |-> mode, raw |-> raw]
        params(n) == Classes(SubSeq(e.raw, Len(e.raw) - n + 1, Len(e.raw)))
    IN  CASE e.mode = "esc" -> to(IF b.c = "[" THEN "csi" ELSE "cancel")
          [] e.mode = "csi" ->
               to(CASE b.c \in Digits -> "csi"
                    [] b.c = "~" -> IF params(2) = <<"[", "200">> THEN "paste" ELSE "ignore"
                    [] b.c \in Letters -> "ignore"
                    [] OTHER -> "cancel")
          [] e.mode = "paste" -> to(IF b.c = "esc" THEN "paste_esc" ELSE "paste")
          [] e.mode = "paste_esc" -> to(IF b.c = "[" THEN "paste_csi" ELSE "paste")
          [] e.mode = "paste_csi" ->
               to(CASE b.c \in Digits -> "paste_csi"
                    [] b.c = "~" /\ params(2) = <<"[", "201">> -> "insert"
                    [] OTHER -> "paste")

(* What the main loop does with Forward.                                   *)
NeedsReport(cs) == \E i \in 1 .. Len(cs) - 2 : SubSeq(cs, i, i + 2) = <<"esc", "[", "A">>

Forwarded(m, bs) ==
    LET cs == Classes(bs)
        report == m.sh.prompt /\ NeedsReport(cs)
        search == m.sh.prompt /\ ~NeedsReport(cs) /\ "^r" \in Range(cs)
        s1 == [m.sh EXCEPT !.rl = @ \/ report \/ search, !.isearch = @ \/ search]
        c1 == IF (report \/ search) /\ m.cp.ghost # None THEN Clear(m.cp) ELSE m.cp
    IN  Changes([m EXCEPT !.sent = @ \o [i \in DOMAIN bs |-> bs[i].id],
                          !.asked = @ \/ (report /\ ~m.sh.rl),
                          !.sh = feed_forwarded(s1, bs),
                          !.cp = note_activity(c1)])

Forward(m0, bs) ==
    LET m == [m0 EXCEPT !.ic.content = TRUE, !.ic.recent = TRUE]
    IN  CASE Classes(bs) = <<"tab">> /\ m.cp.ghost # None ->
               [Lose(m, bs) EXCEPT !.sh = Bumped(@, m.sh.line \o m.cp.ghost), !.cp = accept(@)]
          [] Classes(bs) = <<"esc">> /\ m.cp.ghost # None ->
               [Lose(m, bs) EXCEPT !.cp = dismiss(@)]
          [] OTHER -> Forwarded(m, bs)

Emptied(m) == [Lose(m, m.ic.buf) EXCEPT !.ic.buf = <<>>, !.ic.chat = FALSE]

(* enter_chat_mode: the session runs here; afterwards the line is killed,  *)
(* Enter makes the shell draw a prompt, and the line is typed again.       *)
enter_chat_mode(m) == [m EXCEPT !.redraw = TRUE]

(* Chat and ResumeChat: answers that came during the chat are dropped.     *)
Chat(m) ==
    [enter_chat_mode(Emptied(m)) EXCEPT
        !.timer = FALSE, !.cp = Clear(@), !.queued = <<>>, !.chan = <<>>, !.triggered = FALSE]

(* The main loop's answer to Buffering: the timer runs while the buffer is *)
(* the prefix.                                                             *)
Buffering(m) ==
    LET cs == Classes(m.ic.buf)
    IN  IF cs = cfg.prefix THEN [m EXCEPT !.timer = TRUE, !.cp = Clear(@)]
        ELSE [m EXCEPT !.timer = @ /\ ~IsStrictPrefix(cfg.prefix, cs)]

(* A lone ESC at the end of a read is the key; the completer hears of it   *)
(* only when it dismisses the ghost.                                       *)
ForwardEsc(m0, bs) ==
    LET m == [m0 EXCEPT !.ic.content = TRUE, !.ic.recent = TRUE]
    IN  IF m.cp.ghost # None THEN [Lose(m, bs) EXCEPT !.cp = dismiss(@)]
        ELSE [m EXCEPT !.sent = Append(@, bs[1].id), !.sh = feed_forwarded(@, bs)]

(* apply_esc_result; what is forwarded is a sequence or the ESC key alone. *)
EscResult(m, e, alone) ==
    LET busy == m.ic.chat \/ m.ic.buf # <<>>
    IN  CASE e.mode = "cancel" /\ busy -> [Lose(Emptied(m), e.raw) EXCEPT !.timer = FALSE]
          [] e.mode = "ignore" /\ m.ic.chat -> Lose(m, e.raw)
          [] e.mode = "insert" /\ busy ->
               LET data == SubSeq(e.raw, 5, Len(e.raw) - 4)
               IN  Buffering([m EXCEPT !.ic.buf = @ \o data, !.gone = @ \cup (Ids(e.raw) \ Ids(data))])
          [] OTHER -> IF alone THEN ForwardEsc(m, e.raw) ELSE Forward(m, e.raw)

(* handle_enter: what follows the prefix is the first message of the chat. *)
handle_enter(m) ==
    IF m.ic.chat THEN Chat(m)
    ELSE [Forward([m EXCEPT !.ic.buf = <<>>], m.ic.buf) EXCEPT !.ic.content = FALSE]

(* Backspace deletes one character of the buffer, of one or two bytes.     *)
Backspace(m, b) ==
    LET buf == m.ic.buf
        n == IF Last(buf).c = "u2" THEN 2 ELSE 1
        rest == SubSeq(buf, 1, Len(buf) - n)
    IN  [Lose(m, Append(SubSeq(buf, Len(rest) + 1, Len(buf)), b)) EXCEPT
            !.ic.buf = rest, !.ic.chat = @ /\ Len(rest) >= Len(cfg.prefix)]

(* Mutant: the first byte of the prefix is forwarded and kept as well.     *)
flush_twice(m) == Forward(m, m.ic.buf)

Flush(m) ==
    IF Last(m.ic.buf).c = "u1" THEN m      \* waits for the rest of the character
    ELSE Forward([m EXCEPT !.ic.buf = <<>>], m.ic.buf)

Typed(m) ==
    LET cs == Classes(m.ic.buf)
        n == Len(cs)
        p == cfg.prefix
        guarded == n = 1 /\ (m.ic.recent \/ (~cfg.developer /\ m.ic.content))
    IN  CASE ~m.ic.chat /\ n <= Len(p) /\ IsPrefix(cs, p) /\ ~guarded ->
               Buffering([m EXCEPT !.ic.chat = n = Len(p)])
          [] m.ic.chat -> IF cs = resume_prefix THEN Chat(m) ELSE Buffering(m)
          [] OTHER -> Flush(m)

(* A key while no escape sequence is under way and input is not suppressed *)
FeedKey(m, b) ==
    LET deletes == m.ic.buf # <<>> /\ (m.ic.chat \/ Len(m.ic.buf) <= Len(cfg.prefix))
    IN  CASE b.c = "tab" -> IF m.ic.chat THEN Lose(m, <<b>>)
                            ELSE Forward([m EXCEPT !.ic.buf = <<>>], Append(m.ic.buf, b))
          [] b.c = "bs" -> IF deletes THEN Backspace(m, b) ELSE Forward(m, <<b>>)
          [] b.c = "cr" -> handle_enter([m EXCEPT !.ic.buf = Append(@, b)])
          [] OTHER -> Typed([m EXCEPT !.ic.buf = Append(@, b)])

feed_byte(m, b) ==
    LET e == EscFeed(m.ic.esc, b)
    IN  IF m.ic.esc # NoFilter
        THEN IF e.mode \in {"cancel", "ignore", "insert"}
             THEN EscResult([m EXCEPT !.ic.esc = NoFilter], e, FALSE)
             ELSE [m EXCEPT !.ic.esc = e]
        ELSE IF b.c = "esc" THEN [m EXCEPT !.ic.esc = [mode |-> "esc", raw |-> <<b>>]]
        ELSE IF m.ic.supp THEN Forward(m, <<b>>)
        ELSE FeedKey(m, b)

(* The loop's state after each byte of a read.                             *)
AfterFeeding(m0, bs) ==
    LET m[i \in 0 .. Len(bs)] == IF i = 0 THEN m0 ELSE feed_byte(m[i - 1], bs[i])
    IN  m

finish_batch(m) ==
    IF m.ic.esc.mode # "esc" THEN m
    ELSE EscResult([m EXCEPT !.ic.esc = NoFilter], [m.ic.esc EXCEPT !.mode = "cancel"], TRUE)

(* set_suppressed, InputInterceptor::on_prompt                             *)
Held(i) == i.buf \o i.esc.raw

set_suppressed(i, on) ==
    IF on /\ ~i.supp THEN [i EXCEPT !.supp = TRUE, !.buf = <<>>, !.chat = FALSE, !.esc = NoFilter]
    ELSE IF ~on /\ i.supp THEN [i EXCEPT !.supp = FALSE, !.content = FALSE]
    ELSE i

PromptReset(i) == [i EXCEPT !.chat = FALSE, !.buf = <<>>, !.esc = NoFilter, !.content = FALSE]

Dropped(old, new) == Ids(Held(old)) \ Ids(Held(new))

(* DsrDetector: cursor reports are taken out of the input.                 *)
DsrFeed(d, b) ==
    LET held == Append(d.held, b)
        goesOn == CASE Len(held) = 1 -> b.c = "esc"
                    [] Len(held) = 2 -> b.c = "["
                    [] OTHER -> b.c \in Digits
    IN  CASE goesOn -> [d EXCEPT !.held = held]
          [] ~goesOn /\ Len(held) > 2 /\ b.c = "R" -> [d EXCEPT !.held = <<>>, !.eaten = @ \cup Ids(held)]
          [] OTHER -> [d EXCEPT !.held = <<>>, !.out = @ \o held]

(* The detector after each byte of a read.                                 *)
AfterDetecting(bs) ==
    LET d[i \in 0 .. Len(bs)] == IF i = 0 THEN [held |-> dsr, out |-> <<>>, eaten |-> {}]
                                 ELSE DsrFeed(d[i - 1], bs[i])
    IN  d

DsrRead(bs) ==
    LET d == AfterDetecting(bs)[Len(bs)]
    IN  IF Len(d.held) = 1 THEN [d EXCEPT !.held = <<>>, !.out = @ \o d.held] ELSE d

-----------------------------------------------------------------------------
(* The blocks of the main loop.                                            *)

Resume(m) ==
    /\ ic' = m.ic /\ sh' = m.sh /\ cp' = m.cp /\ timer' = m.timer /\ sent' = m.sent
    /\ gone' = m.gone /\ blind' = m.blind /\ asked' = m.asked /\ queued' = m.queued
    /\ triggered' = m.triggered /\ chan' = m.chan
    /\ shell' = IF m.redraw \/ (shell = "prompt" /\ ~m.sh.prompt) THEN "busy" ELSE shell

ReadKeys(n) ==
    LET d == DsrRead(SubSeq(tty, 1, n))
        i == IF alt THEN ic ELSE set_suppressed(ic, ~sh.prompt)
        m == [Reading EXCEPT !.ic = i, !.gone = @ \cup Dropped(ic, i) \cup d.eaten]
    IN  /\ tty' = SubSeq(tty, n + 1, Len(tty)) /\ dsr' = d.held
        /\ Resume(finish_batch(AfterFeeding(m, d.out)[Len(d.out)]))
        /\ UNCHANGED <<typed, flying, alt, cfg, keys, events>>

Event == events > 0 /\ events' = events - 1

PrefixTimeout ==
    /\ timer
    /\ IF ic.chat /\ Classes(ic.buf) = cfg.prefix
       THEN Resume(Chat(Reading))
       ELSE Resume([Reading EXCEPT !.timer = FALSE])
    /\ UNCHANGED <<dsr, tty, typed, flying, alt, cfg, keys, events>>

(* Output of the shell: an echo, the alternate screen, OSC 133 events.     *)
Echo ==
    /\ ic.content /\ ic' = [ic EXCEPT !.content = FALSE]
    /\ UNCHANGED <<dsr, timer, sh, cp, chan, queued, triggered, env, hist>>

AltScreen ==
    LET i == set_suppressed(ic, ~alt)
    IN  /\ shell = "busy" /\ Event
        /\ alt' = ~alt /\ ic' = [i EXCEPT !.content = FALSE]
        /\ gone' = gone \cup Dropped(ic, i)
        /\ UNCHANGED <<dsr, timer, sh, cp, chan, queued, triggered, tty, typed, flying, asked, shell, cfg,
                       sent, blind, keys>>

PromptStart ==
    LET i == PromptReset(ic)
    IN  /\ shell = "busy" /\ ~alt
        /\ shell' = "prompt" /\ ic' = i /\ gone' = gone \cup Dropped(ic, i)
        /\ sh' = on_prompt(sh) /\ cp' = Clear(cp) /\ queued' = <<>> /\ triggered' = FALSE
        /\ blind' = FALSE /\ asked' = FALSE
        /\ UNCHANGED <<dsr, timer, chan, tty, typed, flying, alt, cfg, sent, keys, events>>

CommandStart ==
    /\ shell = "busy" /\ ~alt /\ (cp.ghost # None \/ cp.reqs # {} \/ queued # <<>>)
    /\ cp' = Clear(cp) /\ queued' = <<>> /\ triggered' = FALSE
    /\ ic' = [ic EXCEPT !.content = FALSE]
    /\ UNCHANGED <<dsr, timer, sh, chan, env, hist>>

(* A readline report.  Queued answers are applied to the line it gives, or *)
(* dropped when the cursor is not at its end.                              *)
ReadlineReport(line, end) ==
    LET s1 == set_readline(sh, line, end)
        c1 == CASE queued # <<>> /\ s1.end -> Answered(cp, queued, s1.line)
                [] queued # <<>> /\ ~s1.end /\ cp.ghost # None -> Clear(cp)
                [] OTHER -> cp
        m == Changes([Reading EXCEPT !.sh = s1, !.cp = c1])
    IN  /\ asked /\ asked' = FALSE
        /\ sh' = m.sh /\ cp' = m.cp /\ blind' = m.blind
        /\ ic' = [ic EXCEPT !.content = line # <<>>]
        /\ queued' = <<>> /\ triggered' = (triggered /\ queued = <<>>)
        /\ UNCHANGED <<dsr, timer, chan, tty, typed, flying, shell, alt, cfg, sent, gone, keys, events>>

(* The debounce has expired; requests that timed out are forgotten first.  *)
SendRequest(old) ==
    LET c == [cp EXCEPT !.reqs = @ \ old]
    IN  /\ Event
        /\ cfg.complete /\ sh.prompt /\ ~ic.chat /\ ~sh.isearch /\ sh.end
        /\ should_request(c, sh.line, sh.seq)
        /\ cp' = mark_sent(c, sh.line, sh.seq)
        /\ flying' = flying \cup {[seq |-> sh.seq, input |-> sh.line]}
        /\ UNCHANGED <<dsr, ic, timer, sh, chan, queued, triggered, tty, typed, asked, shell, alt, cfg,
                       sent, gone, blind, keys>>

(* cleanup_timed_out_requests without a request to send.                   *)
Cleanup ==
    /\ cp.reqs # {}
    /\ \E old \in SUBSET cp.reqs : old # {} /\ cp' = [cp EXCEPT !.reqs = @ \ old]
    /\ UNCHANGED <<dsr, ic, timer, sh, chan, queued, triggered, env, hist>>

(* Mutant: the queue is filled although no report was asked for.           *)
QueueOnly(r) == queued' = Append(queued, r) /\ UNCHANGED <<triggered, sh, asked>>

(* An answer waits for a readline report, which is asked for only when the *)
(* line has not changed since the request.                                 *)
QueueAnswer(r) ==
    /\ queued' = Append(queued, r) /\ triggered' = TRUE
    /\ IF ~triggered /\ sh.seq = r.seq
       THEN sh' = [sh EXCEPT !.rl = TRUE] /\ asked' = TRUE
       ELSE UNCHANGED <<sh, asked>>

TakeAnswer ==
    LET r == Head(chan)
    IN  /\ chan # <<>> /\ chan' = Tail(chan)
        /\ \/ ic.chat /\ cp' = Clear(cp) /\ UNCHANGED <<sh, queued, triggered, asked>>
           \/ ~ic.chat /\ (~sh.prompt \/ sh.isearch \/ sh.rl) /\ UNCHANGED <<cp, sh, queued, triggered, asked>>
           \/ ~ic.chat /\ sh.prompt /\ ~sh.isearch /\ ~sh.rl /\ QueueAnswer(r) /\ UNCHANGED cp
        /\ UNCHANGED <<dsr, ic, timer, tty, typed, flying, shell, alt, cfg, hist>>

(* Half a second without a report.                                         *)
QueueTimeout ==
    /\ triggered /\ queued # <<>>
    /\ cp' = IF sh.prompt /\ sh.end THEN Answered(cp, queued, sh.line) ELSE cp
    /\ queued' = <<>> /\ triggered' = FALSE
    /\ UNCHANGED <<dsr, ic, timer, sh, chan, env, hist>>

(* A second without a report: pending_rl_report gives up.                  *)
ReportTimeout ==
    /\ sh.rl
    /\ sh' = [sh EXCEPT !.rl = FALSE]
    /\ UNCHANGED <<dsr, ic, timer, cp, chan, queued, triggered, env, hist>>

GhostTimeout ==
    /\ cp.ghost # None
    /\ cp' = Clear(cp)
    /\ UNCHANGED <<dsr, ic, timer, sh, chan, queued, triggered, env, hist>>

(* apply_client_config_changes                                             *)
ConfigPush(c) ==
    /\ c # cfg /\ Event
    /\ cfg' = c
    /\ UNCHANGED <<loop, tty, typed, flying, asked, shell, alt, sent, gone, blind, keys>>

-----------------------------------------------------------------------------
(* The user and the daemon.                                                *)

Press(p) ==
    /\ keys > 0 /\ keys' = keys - 1
    /\ tty' = tty \o [i \in DOMAIN p |-> [c |-> p[i], id |-> typed + i]]
    /\ typed' = typed + Len(p)
    /\ UNCHANGED <<loop, flying, asked, shell, alt, cfg, sent, gone, blind, events>>

(* TimeGapGuard: the user has not typed for a while.                       *)
Pause ==
    /\ ic.recent /\ ic' = [ic EXCEPT !.recent = FALSE]
    /\ UNCHANGED <<dsr, timer, sh, cp, chan, queued, triggered, env, hist>>

Answer(q, text) ==
    /\ q \in flying /\ flying' = flying \ {q}
    /\ chan' = Append(chan, [seq |-> q.seq, text |-> text])
    /\ UNCHANGED <<dsr, ic, timer, sh, cp, queued, triggered, tty, typed, asked, shell, alt, cfg, hist>>

Next ==
    \/ \E n \in 1 .. Len(tty) : ReadKeys(n)
    \/ PrefixTimeout \/ Echo \/ AltScreen \/ PromptStart \/ CommandStart
    \/ \E line \in {sh.line, <<"b">>}, end \in BOOLEAN : ReadlineReport(line, end)
    \/ \E old \in SUBSET cp.reqs : SendRequest(old)
    \/ Cleanup \/ TakeAnswer \/ QueueTimeout \/ ReportTimeout \/ GhostTimeout
    \/ \E c \in Settings : ConfigPush(c)
    \/ \E p \in Presses : Press(p)
    \/ Pause
    \/ \E q \in flying, text \in Texts \cup {None} : Answer(q, text)

Spec == Init /\ [][Next]_vars

FairSpec == Spec /\ WF_vars(QueueTimeout)

-----------------------------------------------------------------------------
(* Properties.                                                             *)

Increasing(s) == \A i, j \in DOMAIN s : i < j => s[i] < s[j]

(* What is typed reaches the shell once and in order, whatever the split   *)
(* into reads: a byte is sent, held (buffer, escape filter, cursor report) *)
(* or not read yet, or one of the places that consume input took it.       *)
KeysInOrder ==
    LET waiting == Held(ic) \o dsr \o tty
        ids == sent \o [i \in DOMAIN waiting |-> waiting[i].id]
    IN  /\ Increasing(ids)
        /\ Range(ids) \cup gone = 1 .. typed
        /\ Range(ids) \cap gone = {}

(* The ghost continues the line that it is shown behind, so that Tab types *)
(* a suggestion that was made for it; unless the line was edited while a   *)
(* readline report was awaited.                                            *)
GhostFollowsLine ==
    cp.ghost # None /\ ~blind => cp.for = sh.line /\ cp.ghost # <<>>

(* An answer that waits for a readline report is not forgotten.            *)
AnswersSettle == [](queued # <<>> => <>(queued = <<>>))
=============================================================================
