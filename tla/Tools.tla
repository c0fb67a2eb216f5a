-------------------------------- MODULE Tools --------------------------------
(***************************************************************************)
(* The execution of tool calls: the calls of one turn run in parallel,     *)
(* each in a plugin process of its own (client_plugin.rs, or               *)
(* execute_daemon_plugin for daemon tools), the built-in tools of          *)
(* omnish-plugin, the choice of the sandbox, and the external formatter    *)
(* process that turns a result into lines for the terminal.  A file is a   *)
(* sequence of lines, an edit replaces whole lines by whole lines, and the *)
(* output of a command is its length.                                      *)
(***************************************************************************)
EXTENDS Integers, Sequences, FiniteSets, SequencesExt

CONSTANTS ToolCalls,     \* the calls of one turn
          SandboxSettings, \* enabled, preferred, global and local rules
          Turns,         \* what may happen: the file's content and each call's request
          Matches,       \* [file -> matching lines], in the order of the walk
          PipeSize,      \* capacity of a pipe
          MaxOutput,     \* MAX_OUTPUT_CHARS, MAX_OUTPUT_BYTES, MAX_RESULTS
          SnippetContext,\* lines of context in an edit's snippet
          HasBwrap, HasLandlock  \* backends of the host that work

\* What a caller has of the formatter before, or instead of, a result.
Unanswered == {"none", "waiting", "timeout", "unavailable"}

\* What a request of each tool holds.
IsRequest(r) ==
    /\ r.tool = "edit" => r.old \in Seq(STRING) /\ r.new \in Seq(STRING) /\ r.all \in BOOLEAN
    /\ r.tool = "write" => r.new \in Seq(STRING)
    /\ r.tool \in {"read", "grep"} => r.offset \in Nat /\ r.limit \in Nat
    /\ r.tool = "bash" => r.output \in Nat

ASSUME ToolShape ==
    /\ PipeSize \in Nat \ {0} /\ MaxOutput \in Nat \ {0} /\ SnippetContext \in Nat
    /\ Matches \in Seq(Nat) /\ ToolCalls \cap Unanswered = {}
    /\ \A t \in Turns : t.text \in Seq(STRING) /\ \A c \in ToolCalls : IsRequest(t.req[c])

VARIABLES text,     \* the edited file
          tcall,    \* [call -> its request, process and result]
          sandbox,  \* client settings: enabled, preferred backend, local and daemon rules
          fmtr      \* the external formatter: its task, its process and its requests

toolVars == <<text, tcall, sandbox, fmtr>>

NoResult == [status |-> "none", shown |-> 0, of |-> 0, mark |-> FALSE]
Result(s) == [NoResult EXCEPT !.status = s]
Smaller(a, b) == IF a < b THEN a ELSE b
Larger(a, b) == IF a > b THEN a ELSE b

\* s[a..b) with the source's indices from 0.
Slice(s, a, b) == SubSeq(s, a + 1, b)

-----------------------------------------------------------------------------
(* The sandbox *)

is_available(b) == CASE b = "bwrap" -> HasBwrap [] b = "landlock" -> HasLandlock

\* The preferred backend, else the other one, else none.
detect_backend_status(preferred) ==
    LET fallback == IF preferred = "bwrap" THEN "landlock" ELSE "bwrap"
    IN  IF is_available(preferred) THEN preferred
        ELSE IF is_available(fallback) THEN fallback ELSE "none"

\* ClientPluginManager::new.
sandbox_backend == IF sandbox.enabled THEN detect_backend_status(sandbox.preferred) ELSE "none"

\* A rule holds if its field of the input satisfies its operator: any rule is enough.
check_bypass(rules, tool) == tool \in rules

\* The daemon's rules decide what is sent, the client's own rules may lift it.
Sandboxed(tool) == ~check_bypass(sandbox.global, tool) /\ ~check_bypass(sandbox.local, tool)

-----------------------------------------------------------------------------
(* Reading and searching: each result says whether something was cut *)

read_lines(n, offset, limit) ==
    LET start == Smaller(Larger(offset, 1) - 1, n)
        end == Smaller(start + (IF limit = 0 THEN n - start ELSE limit), n)
        shown == Smaller(end - start, MaxOutput)
    IN  [status |-> "ok", shown |-> shown, of |-> n - start,
         mark |-> shown < end - start \/ end < n]

\* The paths are sorted by age and the newest MAX_RESULTS kept.
glob_paths(total) ==
    LET shown == Smaller(total, MaxOutput)
    IN  [status |-> "ok", shown |-> shown, of |-> total, mark |-> shown < total]

\* The matching lines of the first k files.
LinesIn(k) ==
    LET f[i \in 0..Len(Matches)] == IF i = 0 THEN 0 ELSE f[i - 1] + Matches[i] IN f[k]

\* k files were searched before the deadline.
grep_results(k, offset, head_limit) ==
    LET lines == LinesIn(k)
        start == Smaller(offset, lines)
        end == IF head_limit > 0 THEN Smaller(start + head_limit, lines) ELSE lines
    IN  [status |-> "ok", shown |-> end - start,
         of |-> Larger(LinesIn(Len(Matches)) - offset, 0),
         mark |-> end < lines \/ k < Len(Matches)]

truncate_output(n) ==
    [status |-> "ok", shown |-> Smaller(n, MaxOutput), of |-> n, mark |-> n > MaxOutput]

-----------------------------------------------------------------------------
(* Editing *)

\* Where old occurs in the lines s, from the left and without overlap.
Occurs(old, s, i) == i + Len(old) <= Len(s) /\ Slice(s, i, i + Len(old)) = old
matches(old, s) ==
    LET free[i \in 0..Len(s)] == \A j \in 0..i - 1 : Occurs(old, s, j) /\ free[j] => j + Len(old) <= i
    IN  {i \in 0..Len(s) : Occurs(old, s, i) /\ free[i]}
First(at) == CHOOSE i \in at : \A j \in at : i <= j

PutLines(s, i, old, new) == Slice(s, 0, i) \o new \o Slice(s, i + Len(old), Len(s))

\* The last occurrence first, so that the earlier indices stay.
replace(s, at, old, new) ==
    LET f[k \in 0..Len(s)] == IF k = 0 THEN s
                              ELSE IF Len(s) - k \in at THEN PutLines(f[k - 1], Len(s) - k, old, new)
                              ELSE f[k - 1]
    IN  f[Len(s)]

\* The length of the longest common prefix of two sequences of lines.
CommonPrefix(a, b) ==
    CHOOSE n \in 0..Smaller(Len(a), Len(b)) :
        /\ \A i \in 1..n : a[i] = b[i]
        /\ n < Smaller(Len(a), Len(b)) => a[n + 1] # b[n + 1]

\* The common prefix and, in what it leaves, the common suffix.
Common(a, b) ==
    LET p == CommonPrefix(a, b)
    IN  <<p, CommonPrefix(Reverse(Slice(a, p, Len(a))), Reverse(Slice(b, p, Len(b))))>>

Marked(m, s, from, to, base) == [i \in 1..to - from |-> <<m, base + from + i, s[from + i]>>]

\* The lines of the snippet: a mark, a line number from 1 and the line.
build_context_snippet(old, new, start, olds, news, ctx) ==
    LET oldEdit == Slice(old, start, Smaller(start + olds, Len(old)))
        newEdit == Slice(new, start, Smaller(start + news, Len(new)))
        c == Common(oldEdit, newEdit)
        shownPrefix == Smaller(c[1], ctx)
        shownSuffix == Smaller(c[2], ctx)
        before == start + c[1] - shownPrefix
        newEnd == Len(newEdit) - c[2]
        after == start + news - c[2] + shownSuffix
    IN  Marked(" ", new, Larger(before - ctx, 0), before, 0)
        \o Marked(" ", newEdit, c[1] - shownPrefix, c[1], start)
        \o Marked("-", oldEdit, c[1], Len(oldEdit) - c[2], start)
        \o Marked("+", newEdit, c[1], newEnd, start)
        \o Marked(" ", newEdit, newEnd, newEnd + shownSuffix, start)
        \o Marked(" ", new, after, Smaller(after + ctx, Len(new)), 0)

\* What the terminal's summary says: lines removed and lines added.
edit_summary(old, new) ==
    LET c == Common(old, new) IN <<Len(old) - c[1] - c[2], Len(new) - c[1] - c[2]>>

\* EditTool::execute up to the replacement, on the content s.
EditResult(s, r) ==
    LET at == matches(r.old, s)
    IN  IF r.old = <<>> \/ r.old = r.new \/ at = {} \/ (Cardinality(at) > 1 /\ ~r.all) THEN Result("error")
        ELSE Result("ok")

Replaced(s, r) ==
    LET at == matches(r.old, s) IN replace(s, IF r.all THEN at ELSE {First(at)}, r.old, r.new)

SnippetOf(s, r) == build_context_snippet(s, Replaced(s, r), First(matches(r.old, s)),
                                         Len(r.old), Len(r.new), SnippetContext)

-----------------------------------------------------------------------------
(* The processes of the calls *)

Tool(c) == tcall[c].req.tool
Runs(c, tool) == tcall[c].at = "run" /\ Tool(c) = tool
Ends(c, res) == tcall' = [tcall EXCEPT ![c].at = "done", ![c].res = res]
Only == UNCHANGED <<sandbox, fmtr>>

\* execute_tool: the plugin is started inside the backend's sandbox or plainly.
execute_tool(c) ==
    /\ tcall[c].at = "ready"
    /\ tcall' = [tcall EXCEPT ![c].at = "run",
                              ![c].within = IF Sandboxed(Tool(c)) THEN sandbox_backend ELSE "none"]
    /\ UNCHANGED text /\ Only

\* The sandbox cannot be set up or the executable not be started.
SpawnFails(c) ==
    /\ tcall[c].at = "ready" /\ Ends(c, Result("error"))
    /\ UNCHANGED text /\ Only

\* A plugin of another author: an answer, or an end without one or with one that
\* cannot be parsed, which is an error; nothing bounds its run on the client.
PluginAnswers(c) ==
    /\ Runs(c, "plugin")
    /\ \E status \in {"ok", "error"} : Ends(c, Result(status))
    /\ UNCHANGED text /\ Only

\* The same for a tool of the daemon, which waits ten minutes at most.  The process
\* is not killed on drop: after a timeout it may go on.
execute_daemon_plugin(c) ==
    /\ Runs(c, "daemon")
    /\ \E status \in {"ok", "error", "timeout"} : Ends(c, Result(status))
    /\ UNCHANGED text /\ Only

\* EditTool::execute reads the file and writes it in two steps.
EditReads(c) ==
    /\ Runs(c, "edit")
    /\ tcall' = [tcall EXCEPT ![c].at = IF EditResult(text, tcall[c].req).status = "ok" THEN "write" ELSE "done",
                              ![c].res = EditResult(text, tcall[c].req), ![c].base = text]
    /\ UNCHANGED text /\ Only

EditWrites(c) ==
    /\ tcall[c].at = "write"
    /\ text' = Replaced(tcall[c].base, tcall[c].req)
    /\ Ends(c, Result("ok")) /\ Only

write_file(c) ==
    /\ Runs(c, "write")
    /\ text' = tcall[c].req.new
    /\ Ends(c, Result("ok")) /\ Only

ReadFile(c) ==
    /\ Runs(c, "read")
    /\ Ends(c, read_lines(Len(text), tcall[c].req.offset, tcall[c].req.limit))
    /\ UNCHANGED text /\ Only

GlobFiles(c) ==
    /\ Runs(c, "glob")
    /\ Ends(c, glob_paths(Len(Matches)))
    /\ UNCHANGED text /\ Only

\* One file of the walk after the other, until the deadline.
GrepFile(c) ==
    /\ Runs(c, "grep") /\ tcall[c].done < Len(Matches)
    /\ tcall' = [tcall EXCEPT ![c].done = @ + 1]
    /\ UNCHANGED text /\ Only

GrepEnds(c) ==
    /\ Runs(c, "grep")
    /\ Ends(c, grep_results(tcall[c].done, tcall[c].req.offset, tcall[c].req.limit))
    /\ UNCHANGED text /\ Only

\* BashTool::run polls for the end of the command and reads its pipe only then.
Blocked(c) == tcall[c].done >= PipeSize /\ tcall[c].done < tcall[c].req.output

CommandWrites(c) ==
    /\ Runs(c, "bash") /\ tcall[c].done < tcall[c].req.output /\ ~Blocked(c)
    /\ tcall' = [tcall EXCEPT ![c].done = @ + 1]
    /\ UNCHANGED text /\ Only

CommandExits(c) ==
    /\ Runs(c, "bash") /\ tcall[c].done = tcall[c].req.output /\ ~tcall[c].req.endless
    /\ Ends(c, truncate_output(tcall[c].done))
    /\ UNCHANGED text /\ Only

\* The timeout is long: it passes when the command makes no step of its own.
CommandTimesOut(c) ==
    /\ Runs(c, "bash")
    /\ Blocked(c) \/ (tcall[c].done = tcall[c].req.output /\ tcall[c].req.endless)
    /\ Ends(c, Result("timeout"))
    /\ UNCHANGED text /\ Only

-----------------------------------------------------------------------------
(* The external formatter: one process, one line out for each line in *)

Unsent == "none"
Sent(c) == fmtr.got[c] # Unsent

\* FormatterManager::format with an external formatter: the request and the sender
\* of its reply go to the task.  A built-in formatter answers at once.
format(c) ==
    /\ tcall[c].at = "done" /\ Tool(c) \in {"plugin", "daemon"} /\ ~Sent(c)
    /\ fmtr' = IF fmtr.open THEN [fmtr EXCEPT !.queue = Append(@, c), !.got[c] = "waiting"]
               ELSE [fmtr EXCEPT !.got[c] = "unavailable"]
    /\ UNCHANGED <<text, tcall, sandbox>>

\* The task writes the request; a dead process ends the task.
TaskWrites ==
    /\ fmtr.open /\ fmtr.cur = <<>> /\ fmtr.queue # <<>>
    /\ fmtr' = IF fmtr.up THEN [fmtr EXCEPT !.cur = <<Head(fmtr.queue)>>, !.queue = Tail(@),
                                            !.input = Append(@, Head(fmtr.queue))]
               ELSE [fmtr EXCEPT !.open = FALSE, !.queue = <<>>]
    /\ UNCHANGED <<text, tcall, sandbox>>

FormatterAnswers ==
    /\ fmtr.up /\ fmtr.input # <<>>
    /\ fmtr' = [fmtr EXCEPT !.input = Tail(@), !.lines = Append(@, Head(fmtr.input))]
    /\ UNCHANGED <<text, tcall, sandbox>>

FormatterDies ==
    /\ fmtr.up
    /\ fmtr' = [fmtr EXCEPT !.up = FALSE, !.input = <<>>]
    /\ UNCHANGED <<text, tcall, sandbox>>

\* The next line answers the request the task waits for, if someone still waits.
TaskReads ==
    /\ fmtr.open /\ fmtr.cur # <<>>
    /\ \/ /\ fmtr.lines # <<>>
          /\ LET c == fmtr.cur[1]
             IN fmtr' = [fmtr EXCEPT !.cur = <<>>, !.lines = Tail(@),
                                     !.got[c] = IF @ = "waiting" THEN Head(fmtr.lines) ELSE @]
       \/ /\ fmtr.lines = <<>> /\ ~fmtr.up
          /\ fmtr' = [fmtr EXCEPT !.open = FALSE, !.cur = <<>>, !.queue = <<>>]
    /\ UNCHANGED <<text, tcall, sandbox>>

\* The caller leaves and the task goes on to its next request.
FormatGivenUp(c) ==
    /\ fmtr.got[c] = "waiting"
    /\ fmtr' = [fmtr EXCEPT !.got[c] = "timeout", !.cur = IF @ = <<c>> THEN <<>> ELSE @]
    /\ UNCHANGED <<text, tcall, sandbox>>

\* Five seconds: the caller leaves, the task keeps its place in the dialogue.
FormatTimesOut(c) ==
    /\ fmtr.got[c] = "waiting"
    /\ fmtr' = [fmtr EXCEPT !.got[c] = "timeout"]
    /\ UNCHANGED <<text, tcall, sandbox>>

-----------------------------------------------------------------------------

ToolInit ==
    /\ sandbox \in SandboxSettings
    /\ \E turn \in Turns :
          /\ text = turn.text
          /\ tcall = [c \in ToolCalls |-> [req |-> turn.req[c], at |-> "ready", within |-> "none",
                                          done |-> 0, base |-> <<>>, res |-> NoResult]]
    /\ fmtr = [queue |-> <<>>, cur |-> <<>>, input |-> <<>>, lines |-> <<>>, up |-> TRUE,
               open |-> TRUE, got |-> [c \in ToolCalls |-> Unsent]]

ToolNext ==
    \/ \E c \in ToolCalls :
          \/ execute_tool(c) \/ SpawnFails(c) \/ PluginAnswers(c) \/ execute_daemon_plugin(c)
          \/ EditReads(c) \/ EditWrites(c) \/ write_file(c) \/ ReadFile(c) \/ GlobFiles(c)
          \/ GrepFile(c) \/ GrepEnds(c)
          \/ CommandWrites(c) \/ CommandExits(c) \/ CommandTimesOut(c)
          \/ format(c) \/ FormatTimesOut(c)
    \/ TaskWrites \/ TaskReads \/ FormatterAnswers \/ FormatterDies

ToolSpec == ToolInit /\ [][ToolNext]_toolVars

-----------------------------------------------------------------------------
(* Properties *)

\* The lines with a mark; those with the same mark stand together.
Places(s, m) == {i \in 1..Len(s) : s[i][1] = m}
Count(s, m) == Cardinality(Places(s, m))
LinesOf(s, m) == [i \in 1..Count(s, m) |-> s[First(Places(s, m)) + i - 1][3]]

\* The snippet of an edit says what it did: its removed lines, replaced by its added
\* ones at the first removed line, turn the content the tool read into the one it
\* wrote (one occurrence), every other line is one of the new content at its number,
\* and the terminal's summary counts the same lines.
SnippetTrue ==
    \A c \in ToolCalls :
        tcall[c].at = "write" =>
            LET r == tcall[c].req
                old == tcall[c].base
                snip == SnippetOf(old, r)
                cs == Common(r.old, r.new)
                at == First(matches(r.old, old)) + cs[1]
            IN  /\ Cardinality(matches(r.old, old)) = 1 =>
                        Replaced(old, r) = PutLines(old, at, LinesOf(snip, "-"), LinesOf(snip, "+"))
                /\ \A i \in 1..Len(snip) :
                        snip[i][3] = IF snip[i][1] = "-" THEN old[snip[i][2]]
                                     ELSE Replaced(old, r)[snip[i][2]]
                /\ edit_summary(r.old, r.new) = <<Count(snip, "-"), Count(snip, "+")>>

\* A result that holds less than there was to show says so: lines past the limits
\* of read, grep and glob, files grep did not reach in time, output over the limit.
CutsAreMarked ==
    \A c \in ToolCalls : tcall[c].res.shown < tcall[c].res.of => tcall[c].res.mark

\* A formatted result is that of its own call, also after earlier requests timed
\* out and their answers came late.
AnswerIsOwn == \A c \in ToolCalls : fmtr.got[c] \in ToolCalls => fmtr.got[c] = c

\* What a model is told of its calls is true: the snippet of an edit, the marks of
\* what was cut, and whose result it is.
ToolResultsTrue == SnippetTrue /\ CutsAreMarked /\ AnswerIsOwn

\* A command that ends by itself is not reported as timed out, however long its
\* output: over the limit it is truncated (violated: the pipe fills, the command
\* waits for a reader that only comes after its end).
LongOutputTruncated ==
    \A c \in ToolCalls :
        Tool(c) = "bash" /\ tcall[c].res.status = "timeout" => tcall[c].req.endless

=============================================================================
