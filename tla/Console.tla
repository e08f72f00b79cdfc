------------------------------- MODULE Console -------------------------------
(***************************************************************************)
(* The text console, src/kernel/console.c, over the VGA text buffer,       *)
(* src/kernel/vga.c, or the framebuffer, src/drivers/graphics/fb_console.c.*)
(* Its operations are operators on a record: the character in every cell,  *)
(* the position of the next one, whether there is a framebuffer, and       *)
(* whether, since the screen was cleared, a character was written behind   *)
(* the last cell or a row was written over. Colours and the drawn cursor   *)
(* are left out.                                                           *)
(***************************************************************************)
EXTENDS Integers, Sequences

CONSTANTS Width, Height    \* VGA_BREITE and VGA_HOEHE, max_cols and max_rows

ASSUME ScreenAssumption == Width \in Nat \ {0} /\ Height \in Nat \ {0}

Space == " "
NewLine == "\n"
Cells == 0 .. Width * Height - 1
LastRow == Height - 1

\* console_clear.
Cleared(con) == [con EXCEPT !.cell = [i \in Cells |-> Space], !.col = 0, !.row = 0,
                           !.over = FALSE, !.off = FALSE]

PowerOn(fb) ==
    [cell |-> [i \in Cells |-> Space], col |-> 0, row |-> 0, fb |-> fb, off |-> FALSE, over |-> FALSE]

\* The framebuffer console stays in its last row: its scroll is a stub. VGA
\* moves the rows up.
Scroll(con) ==
    IF con.row < Height THEN con
    ELSE [con EXCEPT
            !.row = LastRow, !.over = con.fb,
            !.cell = [i \in Cells |->
                IF con.fb THEN @[i] ELSE IF i < Width * LastRow THEN @[i + Width] ELSE Space]]

Wrap(con) == IF con.col < Width THEN con ELSE [con EXCEPT !.col = 0, !.row = @ + 1]

PutChar(con, c) ==
    LET i == con.row * Width + con.col
        drawn == IF i \in Cells THEN [con EXCEPT !.cell[i] = c] ELSE [con EXCEPT !.off = TRUE]
    IN  IF c = NewLine THEN Scroll([con EXCEPT !.col = 0, !.row = @ + 1])
        ELSE Scroll(Wrap([drawn EXCEPT !.col = @ + 1]))

\* console_print, and loops of console_putchar.
PrintText(con, s) ==
    LET after[n \in 0 .. Len(s)] == IF n = 0 THEN con ELSE PutChar(after[n - 1], s[n])
    IN  after[Len(s)]

\* The framebuffer console keeps a coordinate for one that is out of range;
\* VGA takes any.
SetPos(con, col, row) ==
    [con EXCEPT !.col = IF con.fb /\ col >= Width THEN @ ELSE col,
                !.row = IF con.fb /\ row >= Height THEN @ ELSE row]
=============================================================================
