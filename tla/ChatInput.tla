------------------------------ MODULE ChatInput ------------------------------
(***************************************************************************)
(* The input line of chat mode: the multi-line editor (line_editor.rs),    *)
(* pastes that are recognised by bracketing or by their speed and folded   *)
(* into placeholders when they are long, the history of inputs and the     *)
(* ghost completion of slash commands (chat_session.rs read_input_with).   *)
(* A character is a string; a placeholder names the paste it was inserted  *)
(* for, which the code does not see: to the code all placeholders are one  *)
(* character, U+FFFC.                                                      *)
(***************************************************************************)
EXTENDS Integers, Sequences, FiniteSets, SequencesExt

CONSTANTS SlashCommands, \* texts that the ghost completes
          FoldLines,     \* a paste of so many lines is folded
          MaxText,       \* bound on the characters in the editor, the paste buffer and the history
          MaxPastes,     \* bound on the folded pastes of one input
          MaxInputs,     \* bound on the inputs submitted
          HistorySize    \* capacity of the input history

ASSUME InputShape == {FoldLines, MaxText, MaxPastes, MaxInputs, HistorySize} \subseteq Nat

VARIABLES ed,     \* LineEditor: lines, row and column
          paste,  \* blocks, buffer, buffering, bracketed, last_cr, count
          past,   \* the input history, the index in it and the number of inputs
          ghost,  \* GhostCompleter's suggestion, <<>> for none
          sent    \* whether the last input was submitted as it was meant

inputVars == <<ed, paste, past, ghost, sent>>

Letters == {"x", " "}
Marks == <<"#1", "#2", "#3">>
IsMark(c) == c \in Range(Marks)
NoIndex == -1

-----------------------------------------------------------------------------
(* LineEditor *)

Line(e, r) == e.lines[r + 1]
Rows(e) == Len(e.lines)
Before(s, k) == SubSeq(s, 1, k)
After(s, k) == SubSeq(s, k + 1, Len(s))

EmptyEditor == [lines |-> << <<>> >>, row |-> 0, col |-> 0]
is_empty(e) == e.lines = << <<>> >>

insert(e, c) == [e EXCEPT !.lines[e.row + 1] = InsertAt(@, e.col + 1, c), !.col = @ + 1]

move_left(e) ==
    IF e.col > 0 THEN [e EXCEPT !.col = @ - 1]
    ELSE IF e.row > 0 THEN [e EXCEPT !.row = @ - 1, !.col = Len(Line(e, e.row - 1))]
    ELSE e

move_right(e) ==
    IF e.col < Len(Line(e, e.row)) THEN [e EXCEPT !.col = @ + 1]
    ELSE IF e.row < Rows(e) - 1 THEN [e EXCEPT !.row = @ + 1, !.col = 0]
    ELSE e

MoveTo(e, r) == [e EXCEPT !.row = r, !.col = Min({@, Len(Line(e, r))})]
move_up(e) == IF e.row > 0 THEN MoveTo(e, e.row - 1) ELSE e
move_down(e) == IF e.row < Rows(e) - 1 THEN MoveTo(e, e.row + 1) ELSE e
move_home(e) == [e EXCEPT !.col = 0]
move_end(e) == [e EXCEPT !.col = Len(Line(e, e.row))]

\* Back over blanks and then over a word; forward over the word and then the blanks.
move_word_left(e) ==
    LET s == Line(e, e.row)
        stops == {i \in 0..e.col : i < e.col /\ s[i + 1] # " " /\ (i = 0 \/ s[i] = " ")}
    IN  [e EXCEPT !.col = IF stops = {} THEN 0 ELSE CHOOSE i \in stops : \A j \in stops : i >= j]
move_word_right(e) ==
    LET s == Line(e, e.row)
        stops == {i \in e.col + 1..Len(s) : i = Len(s) \/ (s[i] = " " /\ s[i + 1] # " ")}
    IN  [e EXCEPT !.col = IF stops = {} THEN @ ELSE CHOOSE i \in stops : \A j \in stops : i <= j]

Joined(e, r) == [e.lines EXCEPT ![r + 1] = @ \o Line(e, r + 1)]

\* The rows after the merge of row r with the next one.
MergeRows(e, r) == RemoveAt(Joined(e, r), r + 2)

\* The cursor keeps its column when the row goes.
delete_back_stay(e) ==
    IF e.col > 0 THEN [e EXCEPT !.lines[e.row + 1] = RemoveAt(@, e.col), !.col = @ - 1]
    ELSE IF e.row > 0 THEN [lines |-> MergeRows(e, e.row - 1), row |-> e.row - 1, col |-> e.col]
    ELSE e

delete_back(e) ==
    IF e.col > 0 THEN [e EXCEPT !.lines[e.row + 1] = RemoveAt(@, e.col), !.col = @ - 1]
    ELSE IF e.row > 0 THEN [lines |-> MergeRows(e, e.row - 1), row |-> e.row - 1, col |-> Len(Line(e, e.row - 1))]
    ELSE e

delete_forward(e) ==
    IF e.col < Len(Line(e, e.row)) THEN [e EXCEPT !.lines[e.row + 1] = RemoveAt(@, e.col + 1)]
    ELSE IF e.row < Rows(e) - 1 THEN [e EXCEPT !.lines = MergeRows(e, e.row)]
    ELSE e

kill_to_start(e) == [e EXCEPT !.lines[e.row + 1] = After(@, e.col), !.col = 0]

\* The row is split at the cursor, with the rows given in between.
Split(e, between) ==
    LET s == Line(e, e.row)
    IN  [lines |-> Before(e.lines, e.row) \o <<Before(s, e.col)>> \o between \o <<After(s, e.col)>>
                   \o After(e.lines, e.row + 1),
         row |-> e.row + 1 + Len(between), col |-> 0]
newline(e) == Split(e, <<>>)

\* The placeholder gets a line of its own, and an empty line is replaced by it.
insert_paste_block(e, mark) ==
    IF Line(e, e.row) = <<>>
        THEN [lines |-> Before(e.lines, e.row) \o << <<mark>>, <<>> >> \o After(e.lines, e.row + 1),
              row |-> e.row + 1, col |-> 0]
    ELSE Split(e, << <<mark>> >>)

SplitLines(s) ==
    LET step(ls, c) == IF c = "nl" THEN Append(ls, <<>>) ELSE [ls EXCEPT ![Len(ls)] = Append(@, c)]
    IN  FoldLeft(step, << <<>> >>, s)
set_content(s) ==
    LET ls == SplitLines(s) IN [lines |-> ls, row |-> Len(ls) - 1, col |-> Len(ls[Len(ls)])]

\* The lines with a newline between each two.
content(e) ==
    FlattenSeq([i \in 1..Rows(e) |-> IF i = 1 THEN e.lines[1] ELSE <<"nl">> \o e.lines[i]])

-----------------------------------------------------------------------------
(* Pastes, history and ghost *)

\* The first command that continues the input.
update(text) ==
    LET fits == {c \in SlashCommands : text # <<>> /\ IsStrictPrefix(text, c)}
    IN  IF fits = {} THEN <<>> ELSE After(CHOOSE c \in fits : TRUE, Len(text))

NoPaste == [blocks |-> <<>>, buf |-> <<>>, on |-> FALSE, bracketed |-> FALSE, cr |-> FALSE, count |-> 0]

LineCount(buf) == IF buf = <<>> THEN 0 ELSE Len(SelectSeq(buf, LAMBDA c : c = "nl")) + 1
InsertAll(e, s) == FoldLeft(LAMBDA a, c : IF c = "nl" THEN newline(a) ELSE insert(a, c), e, s)

\* What the buffer becomes: a folded block, or its characters one by one.
Flushed(e, p) ==
    LET folded == LineCount(p.buf) >= FoldLines
    IN  [e |-> IF folded THEN insert_paste_block(e, Marks[p.count + 1]) ELSE InsertAll(e, p.buf),
         p |-> [p EXCEPT !.on = FALSE, !.buf = <<>>,
                         !.count = IF folded THEN @ + 1 ELSE @,
                         !.blocks = IF folded THEN Append(@, [index |-> p.count + 1, text |-> p.buf]) ELSE @]]

MarksAbove(e, row) == Len(SelectSeq(FlattenSeq(Before(e.lines, row)), IsMark))

\* Each line that is a placeholder takes the next block; placeholders in other lines go.
Assembled(e, blocks) ==
    LET step(st, i) ==
            LET s == e.lines[i]
                block == blocks[st.next].text
                text == SelectSeq(s, LAMBDA c : ~IsMark(c))
            IN  IF Len(s) = 1 /\ IsMark(s[1])
                    THEN IF st.next > Len(blocks) THEN st
                         ELSE [next |-> st.next + 1,
                               out |-> st.out \o block \o IF Last(block) = "nl" THEN <<>> ELSE <<"nl">>]
                    ELSE [st EXCEPT !.out = @ \o text \o IF i < Rows(e) THEN <<"nl">> ELSE <<>>]
    IN  FoldLeft(step, [next |-> 1, out |-> <<>>], [i \in 1..Rows(e) |-> i]).out

Submitted(e, p) == IF p.blocks = <<>> THEN content(e) ELSE Assembled(e, p.blocks)

Trimmed(s) ==
    LET ink == {i \in 1..Len(s) : s[i] \notin {" ", "nl"}}
    IN  IF ink = {} THEN <<>>
        ELSE SubSeq(s, CHOOSE i \in ink : \A j \in ink : i <= j, CHOOSE i \in ink : \A j \in ink : i >= j)

save_to_history(items, s) ==
    IF s = <<>> \/ (items # <<>> /\ Last(items) = s) THEN items
    ELSE Append(IF Len(items) >= HistorySize THEN Tail(items) ELSE items, s)

-----------------------------------------------------------------------------
(* The loop *)

Room == Len(content(ed)) + Len(paste.buf) + Len(FlattenSeq(past.items)) < MaxText

InputInit ==
    /\ ed = EmptyEditor /\ paste = NoPaste /\ ghost = <<>>
    /\ past = [items |-> <<>>, index |-> NoIndex, inputs |-> 0]
    /\ sent = TRUE

\* The editor, the paste state and the ghost after a key that is not buffered.
Become(e, p, g) == ed' = e /\ paste' = p /\ ghost' = g

\* A byte of a burst is part of a paste; a byte on its own ends the paste before it.
Pasting(burst) == paste.bracketed \/ burst
Flush(burst) ==
    IF ~Pasting(burst) /\ paste.on
        THEN LET f == Flushed(ed, paste) IN [e |-> f.e, p |-> f.p, g |-> <<>>]
        ELSE [e |-> ed, p |-> paste, g |-> ghost]
Arrive(burst) ==
    IF Pasting(burst) /\ ~paste.on
        THEN [e |-> ed, p |-> [paste EXCEPT !.on = TRUE, !.buf = <<>>, !.cr = FALSE], g |-> ghost]
        ELSE Flush(burst)

\* No byte for 2 ms ends a paste that is not bracketed.
PasteTimeout ==
    /\ paste.on /\ ~paste.bracketed
    /\ LET f == Flushed(ed, paste) IN Become(f.e, f.p, <<>>)
    /\ UNCHANGED <<past, sent>>

\* A printable character, buffered or typed.
Char(c, burst) ==
    LET at == Arrive(burst)
        e == insert(at.e, c)
    IN  /\ Room
        /\ IF at.p.on THEN Become(at.e, [at.p EXCEPT !.buf = Append(@, c), !.cr = FALSE], at.g)
                      ELSE Become(e, at.p, update(content(e)))
        /\ UNCHANGED <<past, sent>>

\* A line end in a paste; the bound is on the pastes that fold.
PastedEnd(at, buf, cr) ==
    /\ Room /\ (LineCount(buf) >= FoldLines => at.p.count < MaxPastes)
    /\ Become(at.e, [at.p EXCEPT !.buf = buf, !.cr = cr], at.g)
    /\ UNCHANGED <<past, sent>>

\* A line feed; after a return in a paste it is the same line end.
LineFeed(burst) ==
    LET at == Arrive(burst)
    IN  \/ at.p.on /\ PastedEnd(at, IF at.p.cr THEN at.p.buf ELSE Append(at.p.buf, "nl"), FALSE)
        \/ ~at.p.on /\ Room /\ Become(newline(at.e), at.p, <<>>) /\ UNCHANGED <<past, sent>>

\* Each placeholder replaced by the paste it was inserted for.
Meant(e, p) ==
    LET own(c) == IF ~IsMark(c) THEN <<c>>
                  ELSE LET b == {i \in 1..Len(p.blocks) : Marks[p.blocks[i].index] = c}
                       IN  IF b = {} THEN <<>> ELSE p.blocks[CHOOSE i \in b : TRUE].text
        s == content(e)
    IN  FlattenSeq([i \in 1..Len(s) |-> own(s[i])])

Ink(s) == SelectSeq(s, LAMBDA c : c # "nl")

\* Enter: the input is submitted, saved in the history, and the next one starts empty.
Submit(at) ==
    LET text == Submitted(at.e, at.p)
        saved == Trimmed(text)
    IN  /\ past.inputs < MaxInputs
        /\ Become(EmptyEditor, NoPaste, <<>>)
        /\ sent' = (Ink(text) = Ink(Meant(at.e, at.p)))
        /\ past' = [items |-> save_to_history(past.items, saved),
                    index |-> IF saved = <<>> THEN past.index ELSE NoIndex,
                    inputs |-> past.inputs + 1]
Return(burst) ==
    LET at == Arrive(burst)
    IN  \/ at.p.on /\ PastedEnd(at, Append(at.p.buf, "nl"), TRUE)
        \/ ~at.p.on /\ Submit(at)

\* Other control bytes in a paste are dropped.
Dropped == Become(Arrive(TRUE).e, [Arrive(TRUE).p EXCEPT !.cr = FALSE], ghost) /\ UNCHANGED <<past, sent>>

Edit(e, p) == Become(e, p, update(content(e))) /\ UNCHANGED <<past, sent>>

Kill == LET at == Arrive(FALSE) IN ~at.p.on /\ Edit(kill_to_start(at.e), at.p)

\* Backspace: a placeholder goes with its block and an empty line it leaves.
OnMark(e) == e.col > 0 /\ IsMark(Line(e, e.row)[e.col])
Backspace ==
    LET at == Arrive(FALSE)
        back == delete_back(at.e)
        left == IF Line(back, back.row) = <<>> /\ back.row > 0 THEN delete_back(back) ELSE back
    IN  /\ ~at.p.on
        /\ \/ /\ OnMark(at.e)
              /\ Become(left, [at.p EXCEPT !.blocks = RemoveAt(@, MarksAbove(at.e, at.e.row) + 1)], <<>>)
              /\ UNCHANGED <<past, sent>>
           \/ ~OnMark(at.e) /\ back # at.e /\ Edit(back, at.p)

\* Tab inserts the rest of the suggestion at the cursor.
Tab == LET at == Arrive(FALSE) IN ~at.p.on /\ at.g # <<>> /\ Edit(InsertAll(at.e, at.g), at.p)

\* Escape sequences neither start nor join a paste.
Move(burst) ==
    /\ LET at == Flush(burst)
       IN  \E e \in {move_left(at.e), move_right(at.e), move_home(at.e), move_end(at.e),
                     move_word_left(at.e), move_word_right(at.e)} : Become(e, at.p, at.g)
    /\ UNCHANGED <<past, sent>>

Delete(burst) == LET at == Flush(burst) IN Edit(delete_forward(at.e), at.p)

ShiftEnter(burst) ==
    LET at == Flush(burst) IN Room /\ Become(newline(at.e), at.p, <<>>) /\ UNCHANGED <<past, sent>>

\* An empty input, or one recalled from the history, browses the history.
Recall(at, i) ==
    /\ Become(set_content(past.items[i + 1]), at.p, update(past.items[i + 1]))
    /\ past' = [past EXCEPT !.index = i]
Browsing(at) == is_empty(at.e) \/ past.index # NoIndex

ArrowUp(burst) ==
    LET at == Flush(burst)
    IN  /\ \/ ~Browsing(at) /\ Become(move_up(at.e), at.p, at.g) /\ UNCHANGED past
           \/ /\ Browsing(at) /\ past.items # <<>> /\ past.index # 0
              /\ Recall(at, IF past.index = NoIndex THEN Len(past.items) - 1 ELSE past.index - 1)
        /\ UNCHANGED sent

ArrowDown(burst) ==
    LET at == Flush(burst)
        last == past.index >= Len(past.items) - 1
    IN  /\ \/ ~Browsing(at) /\ Become(move_down(at.e), at.p, at.g) /\ UNCHANGED past
           \/ past.index # NoIndex /\ ~last /\ Recall(at, past.index + 1)
           \/ past.index # NoIndex /\ last /\ Become(EmptyEditor, at.p, <<>>) /\ past' = [past EXCEPT !.index = NoIndex]
        /\ UNCHANGED sent

BracketStart(burst) ==
    LET at == Flush(burst)
    IN  ~paste.bracketed /\ Become(at.e, [at.p EXCEPT !.bracketed = TRUE], at.g) /\ UNCHANGED <<past, sent>>

BracketEnd ==
    /\ paste.bracketed
    /\ LET f == Flushed(ed, [paste EXCEPT !.bracketed = FALSE]) IN Become(f.e, f.p, <<>>)
    /\ UNCHANGED <<past, sent>>

\* Escape, Ctrl-D or half an hour without a key: the next chat starts with the history.
Leave ==
    /\ ~paste.on
    /\ Become(EmptyEditor, NoPaste, <<>>)
    /\ past' = [past EXCEPT !.index = NoIndex]
    /\ UNCHANGED sent

Bytes(burst) == \/ \E c \in Letters : Char(c, burst)
                \/ LineFeed(burst) \/ Return(burst)
Keys(burst) ==
    \/ Move(burst) \/ Delete(burst) \/ ShiftEnter(burst)
    \/ ArrowUp(burst) \/ ArrowDown(burst) \/ BracketStart(burst)

InputNext ==
    \/ \E burst \in BOOLEAN : Bytes(burst) \/ Keys(burst)
    \/ Kill \/ Backspace \/ Tab \/ Dropped
    \/ BracketEnd \/ PasteTimeout \/ Leave

InputSpec == InputInit /\ [][InputNext]_inputVars

-----------------------------------------------------------------------------
(* Properties *)

Pos(e) == Len(content([e EXCEPT !.lines = Before(@, e.row + 1)])) - Len(Line(e, e.row)) + e.col
Flat(e) == <<content(e), Pos(e)>>

\* The editor of lines behaves as one of a flat text with newlines in it: in every
\* state that typing, pasting and recalling reach, each operation changes the text
\* and the position as it would there, and the cursor stays in its line.
EditorIsFlat ==
    LET t == content(ed)
        p == Pos(ed)
        start == p - ed.col
    IN  /\ ed.col \in 0..Len(Line(ed, ed.row))
        /\ Flat(insert(ed, "x")) = <<InsertAt(t, p + 1, "x"), p + 1>>
        /\ Flat(newline(ed)) = <<InsertAt(t, p + 1, "nl"), p + 1>>
        /\ Flat(delete_back(ed)) = IF p = 0 THEN <<t, p>> ELSE <<RemoveAt(t, p), p - 1>>
        /\ Flat(delete_forward(ed)) = IF p = Len(t) THEN <<t, p>> ELSE <<RemoveAt(t, p + 1), p>>
        /\ Flat(kill_to_start(ed)) = <<Before(t, start) \o After(t, p), start>>
        /\ Flat(move_left(ed)) = <<t, IF p = 0 THEN 0 ELSE p - 1>>
        /\ Flat(move_right(ed)) = <<t, Min({p + 1, Len(t)})>>
        /\ Flat(set_content(t)) = <<t, Len(t)>>

\* Every placeholder in the editor has a block left for it: the block that a
\* backspace removes (paste_blocks.remove, which panics out of range) is there.
BlocksSuffice == MarksAbove(ed, Rows(ed)) <= Len(paste.blocks)

\* The editor is a text with a cursor, and its placeholders have their blocks.
EditorFaithful == EditorIsFlat /\ BlocksSuffice

\* Enter replaces every placeholder by the text that was pasted there.
PastesSubmitted == sent
=============================================================================
