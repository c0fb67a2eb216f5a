------------------------------- MODULE Tracker -------------------------------
(***************************************************************************)
(* From the bytes of the pseudo-terminal to command records: the shell     *)
(* hook writes OSC 133 marks between the output of the commands, reads     *)
(* cut the stream anywhere, Osc133Detector finds the marks again,          *)
(* CommandTracker turns them into records (with a prompt regex until the   *)
(* first mark), and CursorTracker follows the cursor in what is displayed. *)
(* The user types ahead, and an update replaces the client while the shell *)
(* goes on.  A symbol of the stream is a byte or a run of bytes that no    *)
(* read splits; output_summary, which nothing reads, is left out.          *)
(***************************************************************************)
EXTENDS Integers, Sequences, FiniteSets, SequencesExt

CONSTANTS TextOf,      \* [command -> its text], a sequence of characters
          Directory,   \* [command -> the directory it runs in], characters too
          LineLimit,   \* lines the user types
          OutputLimit, \* units of output a command writes
          UpdateLimit, \* updates of the client
          AheadLimit   \* how far the shell writes ahead of the reads

ASSUME TrackerShape == /\ {LineLimit, OutputLimit, UpdateLimit, AheadLimit} \subseteq Nat
                       /\ DOMAIN TextOf = DOMAIN Directory

VARIABLES shell,    \* hook loaded, running command, commands it ran, lines typed
          pty,      \* output of the shell that the client has not read
          osc,      \* Osc133Detector: the symbols since an ESC
          tracker,  \* CommandTracker and its PromptDetector
          completed, \* records of completed commands, as sent to the daemon
          cursor,   \* CursorTracker
          screen    \* the column of the terminal's cursor after all the output

trackVars == <<shell, pty, osc, tracker, completed, cursor, screen>>

NoField == <<"none">>
NoExit == -1

-----------------------------------------------------------------------------
(* The hook's marks *)

Escaped(text) ==
    FlattenSeq([i \in 1..Len(text) |-> IF text[i] = ";" THEN <<"\\", ";">> ELSE <<text[i]>>])

\* A semicolon that is not escaped ends a part; the parts come out unescaped.
split_unescaped_semicolon(data) ==
    LET step(st, b) ==
            IF b = ";" /\ st.cur # <<>> /\ st.slash
                THEN [st EXCEPT !.cur = Append(Front(@), ";"), !.slash = FALSE]
            ELSE IF b = ";" THEN [parts |-> Append(st.parts, st.cur), cur |-> <<>>, slash |-> FALSE]
            ELSE [st EXCEPT !.cur = Append(@, b), !.slash = b = "\\"]
        end == FoldLeft(step, [parts |-> <<>>, cur |-> <<>>, slash |-> FALSE], data)
    IN  Append(end.parts, end.cur)

\* The value of the last part that starts with a key and is not empty.
Field(parts, key) ==
    LET of == {i \in 2..Len(parts) : Len(parts[i]) > 1 /\ parts[i][1] = key}
    IN  IF of = {} THEN NoField ELSE Tail(parts[CHOOSE i \in of : \A j \in of : i >= j])

Mark(kind, value) == << <<"esc">>, <<"]">>, <<kind, value>>, <<"bel">> >>

\* __omnish_preexec: B;command;cwd:directory;orig:line, then C.
preexec(c) ==
    Mark("B", Escaped(TextOf[c]) \o <<";", "cwd:">> \o Escaped(Directory[c])
              \o <<";", "orig:">> \o Escaped(TextOf[c])) \o Mark("C", 0)

\* __omnish_prompt_cmd: D;code, then A.
prompt_cmd(code) == Mark("D", code) \o Mark("A", 0)

-----------------------------------------------------------------------------
(* Osc133Detector *)

MarkKinds == {"A", "B", "C", "D"}

\* <<event>>, or <<>> when the sequence is no mark.
parse_osc133(buf) ==
    IF Len(buf) # 4 \/ buf[2] # <<"]">> \/ buf[3][1] \notin MarkKinds THEN <<>>
    ELSE LET kind == buf[3][1]
             parts == IF kind = "B" THEN split_unescaped_semicolon(buf[3][2]) ELSE << <<>> >>
         IN  << [kind |-> kind, exit |-> IF kind = "D" THEN buf[3][2] ELSE NoExit,
                 cmd |-> IF parts[1] = <<>> THEN NoField ELSE parts[1],
                 cwd |-> Field(parts, "cwd:"), orig |-> Field(parts, "orig:")] >>

\* One byte: the sequence since an ESC, the events found, and what is left without them.
OscByte(st, b) ==
    IF st.buf = <<>> /\ b # <<"esc">> THEN [st EXCEPT !.kept = Append(@, b)]
    ELSE IF b = <<"esc">> THEN [st EXCEPT !.kept = @ \o st.buf, !.buf = <<b>>]
    ELSE IF b # <<"bel">> THEN [st EXCEPT !.buf = Append(@, b)]
    ELSE LET event == parse_osc133(Append(st.buf, b))
         IN  [buf |-> <<>>, events |-> st.events \o event,
              kept |-> IF event = <<>> THEN Append(st.kept \o st.buf, b) ELSE st.kept]

Detect(buf, data) == FoldLeft(OscByte, [buf |-> buf, events |-> <<>>, kept |-> <<>>], data)

\* A detector of its own looks at this read alone.
strip_osc133(data) == LET end == Detect(<<>>, data) IN end.kept \o end.buf

-----------------------------------------------------------------------------
(* PromptDetector and the line that the user typed *)

\* The states of an escape sequence, shared by the scanners below.
Escaping(st, b) ==
    CASE st = "esc" -> IF b[1] = "[" THEN "csi" ELSE IF b[1] = "]" THEN "osc" ELSE "text"
      [] st = "csi" -> IF b[1] \in {"m", "H"} THEN "text" ELSE "csi"
      [] st = "osc" -> IF b[1] = "bel" THEN "text" ELSE "osc"
      [] OTHER      -> IF b[1] = "esc" THEN "esc" ELSE "text"

strip_ansi(data) ==
    LET step(st, b) == [out |-> IF st.mode = "text" /\ b[1] # "esc" THEN Append(st.out, b) ELSE st.out,
                        mode |-> Escaping(st.mode, b)]
    IN  FoldLeft(step, [out |-> <<>>, mode |-> "text"], data).out

AfterNewline(data) ==
    LET nl == {i \in 1..Len(data) : data[i] = <<"nl">>}
    IN  IF nl = {} THEN data ELSE SubSeq(data, (CHOOSE i \in nl : \A j \in nl : i >= j) + 1, Len(data))

is_prompt(line) ==
    LET seen == strip_ansi(line)
    IN  seen # <<>> /\ Last(seen) = <<"$">> /\ line # <<>> /\ Last(line) # <<"esc">>

\* Backspace and Ctrl-U are replayed, escape sequences skipped, up to the first return.
extract_command_line(input) ==
    LET step(st, b) ==
            IF st.mode = "end" \/ b = "^M" THEN [st EXCEPT !.mode = "end"]
            ELSE IF st.mode = "esc" THEN [st EXCEPT !.mode = IF b = "[" THEN "csi" ELSE "text"]
            ELSE IF st.mode = "csi" THEN [st EXCEPT !.mode = IF b = "D" THEN "text" ELSE "csi"]
            ELSE CASE b = "^[" -> [st EXCEPT !.mode = "esc"]
                   [] b = "^H" -> [st EXCEPT !.line = IF @ = <<>> THEN @ ELSE Front(@)]
                   [] b = "^U" -> [st EXCEPT !.line = <<>>]
                   [] b = "^C" -> st
                   [] OTHER    -> [st EXCEPT !.line = Append(@, b)]
        line == FoldLeft(step, [line |-> <<>>, mode |-> "text"], input).line
    IN  IF line = <<>> THEN NoField ELSE line

-----------------------------------------------------------------------------
(* CommandTracker *)

None == [open |-> FALSE]
Pending == [open |-> TRUE, input |-> <<>>, entered |-> FALSE,
            cmd |-> NoField, orig |-> NoField, cwd |-> NoField]
NewTracker == [pending |-> None, next_seq |-> 0, seen_first_prompt |-> FALSE,
               osc133_mode |-> FALSE, line |-> <<>>, done |-> <<>>]

feed_input(t, keys) ==
    IF ~t.pending.open THEN t
    ELSE [t EXCEPT !.pending.input = @ \o keys, !.pending.entered = @ \/ "^M" \in Range(keys)]

\* The record of the pending command; the caller says what is pending after it.
finalize_command(t, exit, next) ==
    LET p == t.pending
        byHook == p.orig # NoField \/ p.cmd # NoField
    IN  [t EXCEPT !.pending = next, !.next_seq = @ + 1,
                  !.done = Append(@, [command_id |-> t.next_seq, exit_code |-> exit, cwd |-> p.cwd,
                                      byHook |-> byHook,
                                      command_line |-> IF p.orig # NoField THEN p.orig
                                                       ELSE IF p.cmd # NoField THEN p.cmd
                                                       ELSE extract_command_line(p.input)])]

PromptStart(t) ==
    LET closed == IF t.pending.open /\ t.pending.entered THEN finalize_command(t, NoExit, Pending) ELSE t
    IN  [closed EXCEPT !.pending = Pending, !.seen_first_prompt = TRUE]

\* Only a command whose prompt was seen.
StartCommandLost(t, e) ==
    IF ~t.pending.open THEN t
    ELSE [t EXCEPT !.pending = [@ EXCEPT !.entered = TRUE, !.cmd = e.cmd, !.orig = e.orig, !.cwd = e.cwd]]

\* The pending command is recovered when its prompt was not seen.
StartCommand(t, e) ==
    [t EXCEPT !.pending = [(IF @.open THEN @ ELSE Pending) EXCEPT
                               !.entered = TRUE, !.cmd = e.cmd, !.orig = e.orig, !.cwd = e.cwd]]

CommandEnd(t, e) == IF t.pending.open THEN finalize_command(t, e.exit, None) ELSE t

feed_osc133(t0, e) ==
    LET t == [t0 EXCEPT !.osc133_mode = TRUE]
    IN  CASE e.kind = "A" -> PromptStart(t)
          [] e.kind = "B" -> StartCommand(t, e)
          [] e.kind = "D" -> CommandEnd(t, e)
          [] OTHER        -> t

\* Until the first mark, a line that looks like a prompt ends the command.
feed_output(t, data) ==
    LET line == AfterNewline(t.line \o data)
    IN  IF t.osc133_mode THEN t
        ELSE IF ~is_prompt(line) THEN [t EXCEPT !.line = line]
        ELSE LET closed == IF t.seen_first_prompt /\ t.pending.open
                               THEN finalize_command(t, NoExit, Pending) ELSE t
             IN  [closed EXCEPT !.pending = Pending, !.seen_first_prompt = TRUE, !.line = <<>>]

-----------------------------------------------------------------------------
(* CursorTracker *)

CursorAt(col, row) == [col |-> col, row |-> row, mode |-> "text", need |-> FALSE]

process_normal(c, b) ==
    CASE b[1] = "esc"  -> [c EXCEPT !.mode = "esc"]
      [] b[1] = "cr"   -> [c EXCEPT !.col = 0]
      [] b[1] = "nl"   -> [c EXCEPT !.row = @ + 1]
      [] b[1] = "w1"   -> [c EXCEPT !.need = TRUE]
      [] b[1] \in {"w2", "bel"} -> c
      [] OTHER         -> [c EXCEPT !.col = @ + 1]

\* A wide character is measured when its last byte has come.
CursorByte(c, b) ==
    IF c.need
        THEN IF b[1] = "w2" THEN [c EXCEPT !.col = @ + 2, !.need = FALSE]
             ELSE process_normal([c EXCEPT !.need = FALSE], b)
    ELSE CASE c.mode = "text" -> process_normal(c, b)
           [] c.mode = "csi" /\ b[1] = "H" -> [CursorAt(0, 0) EXCEPT !.mode = "text"]
           [] c.mode = "osc" /\ b[1] = "esc" -> [c EXCEPT !.mode = "esc"]
           [] OTHER -> [c EXCEPT !.mode = Escaping(c.mode, b)]

CursorFeed(c, data) == FoldLeft(CursorByte, c, data)

-----------------------------------------------------------------------------
(* The shell and the user *)

\* What a unit of output is in the stream, and where it leaves the terminal's cursor.
OutputUnits == {"text", "dollar", "wide", "newline", "colour", "home", "title"}
Written(u) ==
    CASE u = "text"    -> << <<"x">> >>
      [] u = "dollar"  -> << <<"$">> >>
      [] u = "wide"    -> << <<"w1">>, <<"w2">> >>
      [] u = "newline" -> << <<"cr">>, <<"nl">> >>
      [] u = "colour"  -> << <<"esc">>, <<"[">>, <<"m">> >>
      [] u = "home"    -> << <<"esc">>, <<"[">>, <<"H">> >>
      [] u = "title"   -> << <<"esc">>, <<"]">>, <<"t">>, <<"bel">> >>
Column(col, u) ==
    CASE u \in {"newline", "home"} -> 0
      [] u \in {"text", "dollar"}  -> col + 1
      [] u = "wide"                -> col + 2
      [] OTHER                     -> col

\* Marks and units in the stream, with the column after them.
Emit(marks, units) ==
    /\ pty' = pty \o marks \o FlattenSeq([i \in 1..Len(units) |-> Written(units[i])])
    /\ screen' = FoldLeft(Column, screen, units)

Hooked(marks) == IF shell.hook THEN marks ELSE <<>>
Prompt == <<"text", "dollar">>

TrackInit ==
    /\ shell \in [hook : BOOLEAN, run : {"start"}, out : {0}, lines : {<<>>}, typed : {0}, ran : {<<>>}, updates : {0}]
    /\ pty = <<>> /\ osc = <<>> /\ completed = <<>> /\ screen = 0
    /\ tracker = NewTracker
    /\ cursor = CursorAt(0, 0)

\* The first prompt.
Start ==
    /\ shell.run = "start"
    /\ Emit(Hooked(prompt_cmd(0)), Prompt)
    /\ shell' = [shell EXCEPT !.run = "prompt"]
    /\ UNCHANGED <<osc, tracker, completed, cursor>>

\* The keys of a line: a command, an empty line, or one given up with Ctrl-C after an arrow key.
KeysOf(l) ==
    CASE l = "empty"  -> <<"^M">>
      [] l = "cancel" -> <<"a", "b", "^[", "[", "D", "^H", "^C">>
      [] OTHER        -> Append(TextOf[l], "^M")

\* The user types, perhaps ahead of the shell.
Type(l) ==
    /\ shell.typed < LineLimit
    /\ shell.run # "start"
    /\ tracker' = feed_input(tracker, KeysOf(l))
    /\ shell' = [shell EXCEPT !.lines = Append(@, l), !.typed = @ + 1]
    /\ UNCHANGED <<pty, osc, completed, cursor, screen>>

\* The shell reads a line at its prompt and echoes it; a command starts, otherwise the prompt is back.
ReadLine ==
    /\ shell.run = "prompt" /\ shell.lines # <<>> /\ Len(pty) <= AheadLimit
    /\ LET l == Head(shell.lines)
           left == [shell EXCEPT !.lines = Tail(@), !.out = 0]
       IN  IF l \in DOMAIN TextOf
               THEN /\ pty' = pty \o Written("dollar") \o Written("newline") \o Hooked(preexec(l))
                    /\ screen' = 0
                    /\ shell' = [left EXCEPT !.run = l]
               ELSE /\ pty' = pty \o Written("newline") \o Hooked(prompt_cmd(IF l = "cancel" THEN 1 ELSE 0))
                                    \o Written("text") \o Written("dollar")
                    /\ screen' = 2
                    /\ shell' = left
    /\ UNCHANGED <<osc, tracker, completed, cursor>>

Output(u) ==
    /\ shell.run \in DOMAIN TextOf /\ shell.out < OutputLimit /\ Len(pty) <= AheadLimit
    /\ Emit(<<>>, <<u>>)
    /\ shell' = [shell EXCEPT !.out = @ + 1]
    /\ UNCHANGED <<osc, tracker, completed, cursor>>

Finish(code) ==
    /\ shell.run \in DOMAIN TextOf /\ Len(pty) <= AheadLimit
    /\ Emit(Hooked(prompt_cmd(code)), Prompt)
    /\ shell' = [shell EXCEPT !.run = "prompt", !.ran = Append(@, <<shell.run, code>>)]
    /\ UNCHANGED <<osc, tracker, completed, cursor>>

-----------------------------------------------------------------------------
(* The client *)

\* The marks are cut out of a read that completes one.
Displayed(found, raw) == IF found.events = <<>> THEN raw ELSE strip_osc133(raw)

\* One read of n symbols: the marks, what is displayed, the records.
ReadPty(n) ==
    /\ n \in 1..Len(pty)
    /\ LET raw == SubSeq(pty, 1, n)
           found == Detect(osc, raw)
           t == feed_output(FoldLeft(feed_osc133, tracker, found.events), raw)
       IN  /\ osc' = found.buf
           /\ cursor' = CursorFeed(cursor, Displayed(found, raw))
           /\ tracker' = [t EXCEPT !.done = <<>>]
           /\ completed' = completed \o t.done
    /\ pty' = SubSeq(pty, n + 1, Len(pty))
    /\ UNCHANGED <<shell, screen>>

\* exec_update of an idle client: the new process keeps the session and the cursor.
exec_update ==
    /\ shell.updates < UpdateLimit
    /\ shell.run = "prompt" /\ shell.lines = <<>> /\ pty = <<>>
    /\ osc' = <<>>
    /\ tracker' = NewTracker
    /\ cursor' = CursorAt(cursor.col, cursor.row)
    /\ shell' = [shell EXCEPT !.updates = @ + 1]
    /\ UNCHANGED <<pty, completed, screen>>

TrackNext ==
    \/ Start
    \/ \E l \in DOMAIN TextOf \cup {"empty", "cancel"} : Type(l)
    \/ ReadLine
    \/ \E u \in OutputUnits : Output(u)
    \/ \E code \in {0, 1} : Finish(code)
    \/ \E n \in 1..Len(pty) : ReadPty(n)
    \/ exec_update

TrackSpec == TrackInit /\ [][TrackNext]_trackVars

-----------------------------------------------------------------------------
(* Properties *)

\* Under the hook, every command that ended and whose output was read has exactly
\* one record with its own line, directory and exit code, in the order of the
\* commands: however the reads cut the marks, whatever was typed ahead, and
\* although an update may have replaced the tracker in between.
EveryCommandRecorded ==
    shell.hook /\ pty = <<>> =>
        LET told == SelectSeq(completed, LAMBDA r : r.byHook)
        IN  /\ Len(told) = Len(shell.ran)
            /\ \A i \in 1..Len(told) : LET c == shell.ran[i][1]
                                       IN  /\ told[i].command_line = TextOf[c]
                                           /\ told[i].cwd = Directory[c]
                                           /\ told[i].exit_code = shell.ran[i][2]

\* The column that CursorTracker keeps is where the terminal's cursor is once the
\* output is read: no mark, colour, title or half of a wide character that a read
\* cuts is counted, or left out, with or without the hook and across an update.
CursorFollows == pty = <<>> => cursor.col = screen

\* Whatever the reads cut, the records are those of the commands that ran and the
\* cursor is where the terminal's is (Osc133Detector, CommandTracker, CursorTracker).
StreamFollowed == EveryCommandRecorded /\ CursorFollows

\* A command_id names one record of the session.
CommandIdsUnique ==
    \A i, j \in 1..Len(completed) : completed[i].command_id = completed[j].command_id => i = j
=============================================================================
