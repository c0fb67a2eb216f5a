------------------------------- MODULE Widgets -------------------------------
(***************************************************************************)
(* Two widgets of the client that draw on the raw terminal: the picker     *)
(* (widgets/picker.rs), which moves its cursor by rewriting two lines of   *)
(* what is on the screen, and the scroll view (widgets/scroll_view.rs),    *)
(* which pages through lines that may wrap.  The terminal is the rows the  *)
(* picker occupies and the row its cursor is on; the view's screen is the  *)
(* range of lines shown.                                                   *)
(***************************************************************************)
EXTENDS Integers, Sequences, FiniteSets

CONSTANTS MaxVisible, \* MAX_VISIBLE: items in the picker's viewport
          MaxItems,   \* bound on the items of a picker
          Height,     \* expanded_height: rows of the view
          Columns,    \* max_cols
          Widths,     \* widths of the lines of the view
          MaxLines    \* bound on them

ASSUME WidgetShape ==
    /\ {MaxVisible, MaxItems, Height, Columns} \subseteq Nat \ {0}
    /\ Widths \subseteq Nat

VARIABLES pick, \* the open picker, or Closed
          term, \* the terminal under it: rows and the row of the cursor
          view  \* ScrollView: widths of its lines, scroll_offset, mode

widgetVars == <<pick, term, view>>

Lesser(a, b) == IF a < b THEN a ELSE b
Minus(a, b) == IF a < b THEN 0 ELSE a - b     \* saturating_sub

-----------------------------------------------------------------------------
(* Picker *)

Closed == [open |-> FALSE]
NoTerm == [rows |-> <<>>, at |-> 0]

visible_count(total) == Lesser(total, MaxVisible)
Vis == visible_count(pick.total)

\* A row shows an item: whether the cursor is on it, its box, and its lock.
render_item(p, i, selected) ==
    [item |-> i, selected |-> selected, checked |-> p.multi /\ i \in p.checked, disabled |-> i \in p.disabled]

\* Title, separator, the items in the viewport, separator, hint.
render_full(p) ==
    LET vis == visible_count(p.total)
        end == Lesser(p.scroll + vis, p.total)
    IN  <<[above |-> p.scroll], "sep">>
        \o [k \in 1..end - p.scroll |-> render_item(p, p.scroll + k - 1, p.scroll + k - 1 = p.cursor)]
        \o <<"sep", [below |-> Minus(p.total, end)]>>

Drawn(p) == [rows |-> render_full(p), at |-> visible_count(p.total) + 3]

\* Cursor movements and a rewritten row.
Up(t, n) == [t EXCEPT !.at = Minus(@, n)]
Down(t, n) == [t EXCEPT !.at = Lesser(@ + n, Len(t.rows) - 1)]
redraw_item(t, p, i, selected) == [t EXCEPT !.rows[t.at + 1] = render_item(p, i, selected)]

\* The way from the hint to item i counts the items alone.
RowsToItems(p, i) == visible_count(p.total) - (i - p.scroll)

\* From the hint line to the row of item i, the separator included.
RowsTo(p, i) == (visible_count(p.total) - (i - p.scroll)) + 1

\* The two rows of a cursor that stays in the viewport are rewritten.
Rewritten(t, p, old) ==
    LET first == redraw_item(Up(t, RowsTo(p, old)), p, old, FALSE)
        moved == IF p.cursor < old THEN Up(first, 1) ELSE Down(first, 1)
    IN  Down(redraw_item(moved, p, p.cursor, TRUE), RowsTo(p, p.cursor))

run_picker(total, multi, initial, disabled) ==
    LET cursor == Lesser(initial, total - 1)
        vis == visible_count(total)
        p == [open |-> TRUE, total |-> total, multi |-> multi, disabled |-> disabled, checked |-> {},
              cursor |-> cursor, scroll |-> Lesser(Minus(cursor, vis \div 2), Minus(total, vis))]
    IN  /\ ~pick.open /\ view.mode = "compact"
        /\ pick' = p /\ term' = Drawn(p)
        /\ UNCHANGED view

PickerUp ==
    LET cursor == pick.cursor - 1
        p == [pick EXCEPT !.cursor = cursor, !.scroll = Lesser(@, cursor)]
    IN  /\ pick.open /\ pick.cursor > 0
        /\ pick' = p
        /\ term' = IF cursor < pick.scroll THEN Drawn(p) ELSE Rewritten(term, p, pick.cursor)
        /\ UNCHANGED view

PickerDown ==
    LET cursor == pick.cursor + 1
        past == cursor >= pick.scroll + Vis
        p == [pick EXCEPT !.cursor = cursor, !.scroll = IF past THEN cursor - Vis + 1 ELSE @]
    IN  /\ pick.open /\ pick.cursor < pick.total - 1
        /\ pick' = p
        /\ term' = IF past THEN Drawn(p) ELSE Rewritten(term, p, pick.cursor)
        /\ UNCHANGED view

Toggle ==
    LET i == pick.cursor
        p == [pick EXCEPT !.checked = IF i \in @ THEN @ \ {i} ELSE @ \cup {i}]
    IN  /\ pick.open /\ pick.multi /\ i \notin pick.disabled
        /\ pick' = p
        /\ term' = Down(redraw_item(Up(term, RowsTo(p, i)), p, i, TRUE), RowsTo(p, i))
        /\ UNCHANGED view

Close == pick' = Closed /\ term' = NoTerm /\ UNCHANGED view

\* Enter, or the shortcut key of an item, ends the picker unless the item is disabled.
Confirm == pick.open /\ pick.cursor \notin pick.disabled /\ Close
Shortcut == pick.open /\ (\E i \in 0..pick.total - 1 : i \notin pick.disabled) /\ Close
Cancel == pick.open /\ Close

-----------------------------------------------------------------------------
(* ScrollView *)

Total == Len(view.lines)
RowsOf(lines, i) == LET w == lines[i + 1] IN IF w = 0 THEN 1 ELSE (w + Columns - 1) \div Columns

\* The rows of k lines from line i on: a row is a line and its number there.
ScreenRows(lines, i, k) == UNION {{j} \X (1..RowsOf(lines, j)) : j \in i..i + k - 1}
RowsFrom(lines, i, k) == Cardinality(ScreenRows(lines, i, k))

\* The line after the last one from which the rest no longer fits.
max_scroll_offset(lines) ==
    LET over == {i \in 0..Len(lines) - 1 : RowsFrom(lines, i, Len(lines) - i) > Height}
    IN  IF over = {} THEN 0 ELSE (CHOOSE i \in over : \A j \in over : i >= j) + 1

\* The lines that render_expanded shows: as many as fit, and at least one.
lines_shown(lines, offset) ==
    LET start == Lesser(offset, Len(lines))
        fits == {k \in 1..Len(lines) - start : k = 1 \/ RowsFrom(lines, start, k) <= Height}
    IN  start..start + Cardinality(fits) - 1

push_line(w) ==
    /\ ~pick.open /\ view.mode = "compact" /\ Total < MaxLines
    /\ view' = [view EXCEPT !.lines = Append(@, w)]
    /\ UNCHANGED <<pick, term>>

enter_browse ==
    /\ ~pick.open /\ view.mode = "compact" /\ Total > 0
    /\ view' = [view EXCEPT !.mode = "expanded", !.offset = max_scroll_offset(view.lines)]
    /\ UNCHANGED <<pick, term>>

scroll_up(n) ==
    /\ view.mode = "expanded"
    /\ view' = [view EXCEPT !.offset = Minus(@, n)]
    /\ UNCHANGED <<pick, term>>

scroll_down(n) ==
    /\ view.mode = "expanded"
    /\ view' = [view EXCEPT !.offset = Lesser(@ + n, max_scroll_offset(view.lines))]
    /\ UNCHANGED <<pick, term>>

exit_browse ==
    /\ view.mode = "expanded"
    /\ view' = [view EXCEPT !.mode = "compact"]
    /\ UNCHANGED <<pick, term>>

WidgetInit ==
    /\ pick = Closed /\ term = NoTerm
    /\ view = [lines |-> <<>>, offset |-> 0, mode |-> "compact"]

\* Only pickers for one item have disabled items.
OpenPicker ==
    \E total \in 1..MaxItems, multi \in BOOLEAN :
        \E initial \in 0..total, disabled \in SUBSET (0..total - 1) :
            (multi => disabled = {}) /\ run_picker(total, multi, initial, disabled)

WidgetNext ==
    \/ OpenPicker \/ PickerUp \/ PickerDown \/ Toggle \/ Confirm \/ Shortcut \/ Cancel
    \/ \E w \in Widths : push_line(w)
    \/ enter_browse \/ exit_browse
    \/ \E n \in {1, Height} : scroll_up(n) \/ scroll_down(n)

WidgetSpec == WidgetInit /\ [][WidgetNext]_widgetVars

-----------------------------------------------------------------------------
(* Properties *)

\* After any keys, rewriting two rows has left the screen as drawing the whole picker
\* would: the viewport holds the cursor, no other row is marked, the counts above and
\* below are right and the terminal's cursor is back on the hint line.
PickerScreenTrue ==
    pick.open => /\ pick.cursor \in pick.scroll..pick.scroll + Vis - 1
                 /\ term = Drawn(pick)

\* As far down as the view scrolls, the last line is on the screen with as many lines
\* above it as fit, although the bound is found backwards over wrapped lines and the
\* screen is filled forwards.  A last line that is taller than the screen is left out.
BrowseReachesEnd ==
    (view.mode = "expanded" /\ RowsOf(view.lines, Total - 1) <= Height) =>
        LET last == max_scroll_offset(view.lines)
        IN  /\ view.offset <= last
            /\ (view.offset = last) = (Total - 1 \in lines_shown(view.lines, view.offset))

\* What the two widgets show is what they hold, and all of it can be reached.
WidgetsFaithful == PickerScreenTrue /\ BrowseReachesEnd
=============================================================================
