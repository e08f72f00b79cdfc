-------------------------------- MODULE Editor --------------------------------
(***************************************************************************)
(* The text editor, src/Apps/Editor/editor.c: the buffer of lines with its *)
(* cursor, selection, clipboard and undo ring, the rows of the screen it   *)
(* redraws, and the file it saves to and opens again.                      *)
(*                                                                         *)
(* A step is one key: its handler, then ed_scroll_to_cursor and ed_render. *)
(* The handlers call each other, so they are operators on the record of    *)
(* the editor's state, named as in the code. Lines and columns count from  *)
(* 0. Colours and the status bar are left out. When the code would write   *)
(* past a line or the last line, or uses a selection that does not start   *)
(* in the text, ok becomes FALSE and the model stops: what follows depends *)
(* on what lies behind the array.                                          *)
(***************************************************************************)
EXTENDS Integers, SequencesExt

CONSTANTS
    MaxLines,    \* EDITOR_MAX_LINES, 200
    LineLen,     \* EDITOR_LINE_LEN, 78, with the final '\0'
    UndoSize,    \* UNDO_SIZE, 50
    ViewHeight,  \* editor_view_height
    Chars,       \* characters a user types
    Files,       \* the contents the edited file may have at first
    Clips,       \* what the memory of the clipboard may hold at first
    MaxKeys      \* bound: keys pressed

Newline == "\n"

ASSUME EditorAssumption ==
    /\ MaxLines \in Nat \ {0} /\ LineLen \in Nat /\ LineLen > 1
    /\ UndoSize \in Nat \ {0} /\ ViewHeight \in Nat \ {0}
    /\ Newline \notin Chars /\ Files \cup Clips \subseteq Seq(Chars \cup {Newline})

VARIABLES
    ed,      \* EditorState
    top,     \* view_top
    shown,   \* what was last drawn in each row of the view
    file,    \* the file on the disk
    keys

vars == <<ed, top, shown, file, keys>>

LineNos == 0 .. MaxLines - 1
Rows == 0 .. ViewHeight - 1
Times == <<"times">>     \* the times that saving writes over row 1

Line(e) == e.lines[e.y]
Before(s, n) == SubSeq(s, 1, n)
From(s, n) == SubSeq(s, n + 1, Len(s))

\* The text and the cursor, as the user sees them.
Text(e) == <<e.count, [i \in 0 .. e.count - 1 |-> e.lines[i]], e.x, e.y>>

\* A ring that overwrites its oldest entry holds the last UndoSize entries.
Push(ring, entry) ==
    LET r == Append(ring, entry) IN IF Len(r) > UndoSize THEN Tail(r) ELSE r

Slot(e) == [line |-> Line(e), x |-> e.x, y |-> e.y]

\* As Redraw, with the last row forgotten.
RedrawLess(e, a, b) == [e EXCEPT !.dirty = @ \cup ((a .. b - 1) \cap LineNos)]

\* Lines a to b are to be drawn again.
Redraw(e, a, b) == [e EXCEPT !.dirty = @ \cup ((a .. b) \cap LineNos)]
SelectionRows(e) == Redraw(e, IF e.sy < e.y THEN e.sy ELSE e.y, IF e.sy < e.y THEN e.y ELSE e.sy)

Forward(e) == e.sy < e.y \/ (e.sy = e.y /\ e.sx < e.x)
Stale(e) == e.sel /\ (e.sy >= e.count \/ e.sx > Len(e.lines[e.sy]))
Broken(e) == [e EXCEPT !.ok = FALSE]
Note(e, what) == [e EXCEPT !.events = @ \cup {what}]
\* The text changes under a selection that stays.
Keep(e) == IF e.sel THEN Note(e, "kept") ELSE e

-----------------------------------------------------------------------------
(* The editor's functions.                                                 *)

\* As SaveUndo, with the redo slots kept.
SaveUndoOnly(e, inline) ==
    [e EXCEPT !.undo = Push(@, Slot(e)),
              !.past = IF inline THEN Push(@, Text(e)) ELSE <<>>]

\* ed_save_undo keeps one line and the cursor. The history past keeps the
\* whole texts that undo would have to bring back, while every change was
\* one within a line.
SaveUndo(e, inline) ==
    [e EXCEPT !.undo = Push(@, Slot(e)), !.redo = <<>>, !.ahead = <<>>,
              !.past = IF inline THEN Push(@, Text(e)) ELSE <<>>]

ClearSelection(e) == IF e.sel THEN [SelectionRows(e) EXCEPT !.sel = FALSE] ELSE e

\* ed_delete_selection swaps the two ends whatever their order. It is right
\* when the cursor is the first one; when it is the last one, del and
\* remove are negative, and text is repeated in place of being removed.
DeleteInLine(e) ==
    LET del == e.sx - e.x
        line == Line(e)
        new == [i \in 1 .. Len(line) - del |->
                  IF i <= e.x THEN line[i]
                  ELSE IF del >= 0 THEN line[i + del]
                  ELSE line[e.sx + 1 + ((i - 1 - e.sx) % (-del))]]
    IN  IF Len(new) >= LineLen THEN Broken(e)
        ELSE Redraw([e EXCEPT !.lines[e.y] = new], e.y, e.y)

DeleteRows(e) ==
    LET tail == From(e.lines[e.sy], e.sx)
        joined == Before(Line(e), e.x) \o (IF e.x + Len(tail) < LineLen - 1 THEN tail ELSE <<>>)
        base == [e.lines EXCEPT ![e.y] = joined]
        remove == e.sy - e.y
        moved == [i \in LineNos |->
                    IF i <= e.y \/ i >= e.count - remove THEN base[i]
                    ELSE IF remove > 0 THEN base[i + remove]
                    ELSE base[e.sy + 1 + ((i - e.sy - 1) % (-remove))]]
    IN  IF e.count - remove > MaxLines THEN Broken(e)
        ELSE Redraw([e EXCEPT !.lines = moved, !.count = @ - remove], e.y, e.count - remove)

DeleteSelection(e) ==
    IF ~e.sel THEN e
    ELSE IF Stale(e) THEN Broken(e)
    ELSE LET f == IF Forward(e) THEN Note(e, "forward") ELSE e
             u == SaveUndo(f, e.sy = e.y)
         IN  [(IF e.sy = e.y THEN DeleteInLine(u) ELSE DeleteRows(u)) EXCEPT !.sel = FALSE]

\* As InsertChar, had the limit forgotten the final '\0'.
InsertCharLong(e0, c) ==
    LET e == ClearSelection(e0)
        u == SaveUndo(e, TRUE)
    IN  IF Len(Line(e)) >= LineLen THEN e
        ELSE Redraw([u EXCEPT !.lines[e.y] = Before(@, e.x) \o <<c>> \o From(@, e.x),
                              !.x = @ + 1], e.y, e.y)

InsertChar(e0, c) ==
    LET e == ClearSelection(e0)
        u == SaveUndo(e, TRUE)
    IN  IF Len(Line(e)) >= LineLen - 1 THEN e
        ELSE Redraw([u EXCEPT !.lines[e.y] = Before(@, e.x) \o <<c>> \o From(@, e.x),
                              !.x = @ + 1], e.y, e.y)

\* Unlike InsertChar, it leaves the selection as it is.
InsertNewline(e) ==
    LET u == SaveUndo(Keep(e), FALSE)
    IN  IF e.count >= MaxLines THEN e
        ELSE IF e.y + 1 \notin LineNos THEN Broken(e)
        ELSE Redraw([u EXCEPT !.lines = [i \in LineNos |->
                                  IF i = e.y THEN Before(Line(e), e.x)
                                  ELSE IF i = e.y + 1 THEN From(Line(e), e.x)
                                  ELSE IF i \in e.y + 2 .. e.count THEN @[i - 1]
                                  ELSE @[i]],
                              !.count = @ + 1, !.y = @ + 1, !.x = 0],
                    e.y, e.count)

\* A line that does not fit behind the one above it stays.
Backspace(e) ==
    LET joins == e.x = 0 /\ e.y > 0 /\ Len(e.lines[e.y - 1]) + Len(Line(e)) < LineLen - 1
        u == SaveUndo(e, ~joins)
    IN  IF e.x > 0
        THEN Redraw([u EXCEPT !.lines[e.y] = Before(@, e.x - 1) \o From(@, e.x),
                              !.x = @ - 1], e.y, e.y)
        ELSE IF ~joins THEN u
        ELSE Redraw([u EXCEPT !.lines = [i \in LineNos |->
                                  IF i = e.y - 1 THEN @[i] \o Line(e)
                                  ELSE IF i \in e.y .. e.count - 2 THEN @[i + 1]
                                  ELSE @[i]],
                              !.count = @ - 1, !.y = @ - 1, !.x = Len(e.lines[e.y - 1])],
                    e.y - 1, e.count - 1)

Copy(e) ==
    LET a == IF Forward(e) THEN <<e.sx, e.sy>> ELSE <<e.x, e.y>>
        b == IF Forward(e) THEN <<e.x, e.y>> ELSE <<e.sx, e.sy>>
        part(i) == LET line == IF i = b[2] THEN Before(e.lines[i], b[1]) ELSE e.lines[i]
                   IN  IF i = a[2] THEN From(line, a[1]) ELSE line
        clip[i \in a[2] .. b[2]] ==
            IF i = a[2] THEN part(i) ELSE clip[i - 1] \o <<Newline>> \o part(i)
    IN  IF ~e.sel THEN e
        ELSE IF Stale(e) THEN Broken(e)
        ELSE [e EXCEPT !.clip = clip[b[2]]]

\* One character of the clipboard.
PasteChar(e, c) ==
    IF ~e.ok THEN e ELSE IF c = Newline THEN InsertNewline(e) ELSE InsertChar(e, c)

Paste(e) ==
    LET after[n \in 0 .. Len(e.clip)] ==
            IF n = 0 THEN e ELSE PasteChar(after[n - 1], e.clip[n])
    IN  after[Len(e.clip)]

\* A slot brings back one line, whatever has happened to the number of lines.
Restore(e, slot) ==
    Redraw([Keep(e) EXCEPT !.lines[slot.y] = slot.line, !.x = slot.x, !.y = slot.y], slot.y, slot.y)

Undo(e) ==
    IF e.undo = <<>> THEN e
    ELSE LET slot == Last(e.undo)
             r == Restore(e, slot)
         IN  [(IF e.past = <<>> THEN Note(r, "undo") ELSE r) EXCEPT
                !.redo = Push(@, Slot(e)), !.undo = Front(@),
                !.past = IF @ = <<>> THEN @ ELSE Front(@),
                !.ahead = IF e.past # <<>> /\ slot.y = e.y THEN Push(@, Text(e)) ELSE <<>>]

Redo(e) ==
    IF e.redo = <<>> THEN e
    ELSE LET r == Restore(e, Last(e.redo))
         IN  [(IF e.ahead = <<>> THEN Note(r, "undo") ELSE r) EXCEPT
                !.redo = Front(@), !.past = <<>>,
                !.ahead = IF @ = <<>> THEN @ ELSE Front(@)]

-----------------------------------------------------------------------------
(* The cursor.                                                             *)

ToLine(e, y) ==
    [e EXCEPT !.y = y, !.x = IF @ > Len(e.lines[y]) THEN Len(e.lines[y]) ELSE @]

Up(e) == IF e.y > 0 THEN ToLine(e, e.y - 1) ELSE e
Down(e) == IF e.y < e.count - 1 THEN ToLine(e, e.y + 1) ELSE e
Left(e) ==
    IF e.x > 0 THEN [e EXCEPT !.x = @ - 1]
    ELSE IF e.y > 0 THEN [e EXCEPT !.y = @ - 1, !.x = Len(e.lines[e.y - 1])]
    ELSE e
Right(e) ==
    IF e.x < Len(Line(e)) THEN [e EXCEPT !.x = @ + 1]
    ELSE IF e.y < e.count - 1 THEN [e EXCEPT !.y = @ + 1, !.x = 0]
    ELSE e

Moved(e) == {Up(e), Down(e), Left(e), Right(e)}
Marked(e) == IF e.sel THEN e ELSE [e EXCEPT !.sel = TRUE, !.sx = e.x, !.sy = e.y]

-----------------------------------------------------------------------------
(* The file.                                                               *)

\* As ToBuffer, with newlines between the lines only.
ToBufferTight(e) ==
    IF e.count = 0 THEN <<>>
    ELSE FoldLeft(LAMBDA s, i : s \o <<Newline>> \o e.lines[i - 1], e.lines[0],
                  [i \in 1 .. e.count - 1 |-> i + 1])

\* ed_lines_to_buf ends every line with a newline, the last one too.
ToBuffer(e) ==
    LET buf[n \in 0 .. MaxLines] ==
            IF n = 0 THEN <<>> ELSE (buf[n - 1] \o e.lines[n - 1]) \o <<Newline>>
    IN  IF e.count < 0 THEN <<>> ELSE buf[e.count]

\* ed_buf_to_lines cuts what is behind the longest line and the last line.
LineAdded(ls, c) ==
    IF c = Newline THEN Append(ls, <<>>)
    ELSE IF Len(ls[Len(ls)]) >= LineLen - 1 THEN ls
    ELSE [ls EXCEPT ![Len(ls)] = Append(@, c)]

ToLines(buf) ==
    LET all[n \in 0 .. Len(buf)] == IF n = 0 THEN <<<<>>>> ELSE LineAdded(all[n - 1], buf[n])
        ls == all[Len(buf)]
    IN  IF Len(ls) > MaxLines THEN Before(ls, MaxLines) ELSE ls

\* What fat_edit_file starts with. Lines behind the last one hold what they
\* held in the session before; no line is read before it is written.
Opened(buf, old, clip) ==
    LET ls == ToLines(buf)
    IN  [lines |-> [i \in LineNos |-> IF i < Len(ls) THEN ls[i + 1] ELSE old[i]],
         count |-> Len(ls), x |-> 0, y |-> 0, sel |-> FALSE, sx |-> 0, sy |-> 0,
         clip |-> clip, undo |-> <<>>, redo |-> <<>>, dirty |-> LineNos \ Rows,
         past |-> <<>>, ahead |-> <<>>, events |-> {}, ok |-> TRUE]

-----------------------------------------------------------------------------
(* The screen.                                                             *)

ScrolledTop(e) ==
    IF e.y < top THEN e.y
    ELSE IF e.y >= top + ViewHeight THEN e.y - ViewHeight + 1
    ELSE top

\* ed_scroll_to_cursor draws everything when it scrolls; ed_render draws the
\* rows that are dirty.
Render(e, rows) ==
    LET t == ScrolledTop(e)
        dirty == IF t # top THEN LineNos ELSE e.dirty
        drawn == {r \in Rows : t + r \in IF e.sel THEN SelectionRows(e).dirty \cup dirty ELSE dirty}
    IN  /\ top' = t
        /\ shown' = [r \in Rows |-> IF r \notin drawn THEN rows[r]
                                    ELSE IF t + r < e.count THEN e.lines[t + r] ELSE <<>>]
        /\ ed' = [e EXCEPT !.dirty = dirty \ {t + r : r \in drawn}]

\* The clipboard and its length are what kmalloc's memory holds.
Init ==
    /\ file \in Files
    /\ ed \in {Opened(file, [i \in LineNos |-> <<>>], clip) : clip \in Clips}
    /\ top = 0
    /\ shown = [r \in Rows |-> IF r < ed.count THEN ed.lines[r] ELSE <<>>]
    /\ keys = 0

Press == ed.ok /\ keys < MaxKeys /\ keys' = keys + 1
Key(e) == Press /\ Render(e, shown) /\ UNCHANGED file

Type == \E c \in Chars : Key(LET d == DeleteSelection(ed) IN IF d.ok THEN InsertChar(d, c) ELSE d)
Enter == Key(LET d == DeleteSelection(ed) IN IF d.ok THEN InsertNewline(d) ELSE d)
Erase == Key(IF ed.sel THEN DeleteSelection(ed) ELSE Backspace(ed))
CtrlC == Key(Copy(ed))
CtrlV == Key(Paste(ed))
CtrlZ == Key(Undo(ed))
CtrlY == Key(Redo(ed))
Arrow == \E e \in Moved(ClearSelection(ed)) : Key(e)
ShiftArrow == \E e \in Moved(Marked(ed)) : Key(SelectionRows(e))

\* Saving shows how long it took, in row 1.
CtrlS ==
    /\ Press
    /\ Render(ed, [r \in Rows |-> IF r = 1 THEN Times ELSE shown[r]])
    /\ file' = ToBuffer(ed)

\* Escape, and the file opened again.
Reopen ==
    /\ Press /\ UNCHANGED file
    /\ ed' = Opened(file, ed.lines, ed.clip)
    /\ top' = 0
    /\ shown' = [r \in Rows |-> IF r < ed'.count THEN ed'.lines[r] ELSE <<>>]

Next ==
    \/ Type \/ Enter \/ Erase \/ CtrlC \/ CtrlV \/ CtrlZ \/ CtrlY
    \/ Arrow \/ ShiftArrow \/ CtrlS \/ Reopen

Spec == Init /\ [][Next]_vars

-----------------------------------------------------------------------------

\* ed_insert_char, ed_insert_newline, ed_backspace, ed_delete_selection: no
\* line outgrows its array and cursor and selection stay in the text, as
\* long as the user has not deleted a selection made forwards, undone a
\* change of the number of lines, or changed the text under a selection by
\* an undo, a redo or a pasted newline.
StaysInText ==
    ed.events = {} =>
      /\ ed.ok
      /\ ed.count \in 1 .. MaxLines /\ ed.y < ed.count /\ ed.x \in 0 .. Len(Line(ed))
      /\ \A i \in 0 .. ed.count - 1 : Len(ed.lines[i]) < LineLen
      /\ ~Stale(ed)

\* ed_render: redrawing the dirty rows only leaves every row with its line,
\* but for the times that saving writes into row 1.
ScreenShowsText ==
    ed.ok /\ "undo" \notin ed.events =>
      /\ ed.y \in top .. top + ViewHeight - 1
      /\ \A r \in Rows : top + r < ed.count =>
            shown[r] = ed.lines[top + r] \/ (r = 1 /\ shown[r] = Times)

\* ed_lines_to_buf, ed_buf_to_lines: what is saved is opened again with all
\* its lines, and one empty line more while there is room for one.
SavedIsOpened ==
    ed.ok =>
      LET now == [i \in 1 .. ed.count |-> ed.lines[i - 1]]
      IN  ToLines(ToBuffer(ed)) =
              IF ed.count < MaxLines THEN Append(now, <<>>) ELSE now

\* ed_do_undo, ed_do_redo: as long as changes stay within lines, undo leads
\* back through them to the text and the cursor before each, and redo
\* forward again when the cursor was on the changed line.
UndoIsExact ==
    [][/\ CtrlZ /\ ed.past # <<>> => Text(ed') = Last(ed.past)
       /\ CtrlY /\ ed.ahead # <<>> => Text(ed') = Last(ed.ahead)]_vars
=============================================================================
