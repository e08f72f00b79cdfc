-------------------------------- MODULE Shell --------------------------------
(***************************************************************************)
(* The shell, src/kernel/shell/shell.c, on the console: the line a user    *)
(* edits after the prompt, its image on the screen, the history ring and   *)
(* the dispatch of commands. A step is one key of keyboard_read. What a    *)
(* command prints is a choice among Commands; what the file commands do is *)
(* modelled in Fat.                                                        *)
(***************************************************************************)
EXTENDS Console, FiniteSets

CONSTANTS
    MaxInput,     \* MAX_INPUT, 10000
    HistorySize,  \* HISTORY_SIZE, 20
    Pad,          \* columns the recall of a line overwrites, 60
    Chars,        \* characters a user types
    Prompts,      \* the prompts: "livly", the path and "> "
    Commands,     \* for a command's name, the texts it may print
    ClearName,    \* the name of the command clear
    EditName,     \* "/edit"
    Unknown,      \* "Unknown command" and the end of the line
    MaxKeys       \* bound: keys pressed

ASSUME ShellAssumption ==
    /\ MaxInput \in Nat \ {0} /\ HistorySize \in Nat \ {0} /\ Pad \in Nat
    /\ NewLine \notin Chars /\ Chars \subseteq STRING
    /\ Prompts \subseteq Seq(STRING) /\ Unknown \in Seq(STRING)
    /\ \A w \in DOMAIN Commands : Commands[w] \subseteq Seq(STRING)

VARIABLES
    con,                  \* the console
    input, cur,           \* the line, and the cursor in it
    history, history_count, history_pos,
    prompt,               \* prompt_col and prompt_row
    log,                  \* history: every line that was executed
    tidy,                 \* history: every line fitted into its row
    keys

vars == <<con, input, cur, history, history_count, history_pos, prompt, log, tidy, keys>>

Slash == "/"
Before(s, n) == SubSeq(s, 1, n)
From(s, n) == SubSeq(s, n + 1, Len(s))
Blanks(n) == [i \in 1 .. n |-> Space]
Longer(a, b) == IF a > b THEN a ELSE b
Column(n) == prompt[1] + n

\* str_split: the word with the given number; two blanks hold an empty one.
Word(line, n) ==
    LET blank(k) == {i \in DOMAIN line : line[i] = Space /\
                        Cardinality({j \in 1 .. i : line[j] = Space}) = k}
        start == IF n = 0 THEN 1
                 ELSE IF blank(n) = {} THEN Len(line) + 1 ELSE (CHOOSE i \in blank(n) : TRUE) + 1
        stop == IF blank(n + 1) = {} THEN Len(line) ELSE (CHOOSE i \in blank(n + 1) : TRUE) - 1
    IN  SubSeq(line, start, stop)

\* shell_execute: the consoles a line may leave behind.
Executed(line, c) ==
    LET w == Word(line, 0)
    IN  IF w # <<>> /\ Head(w) = Slash
        THEN IF Word(line, 1) = <<>> THEN {c}
             ELSE IF w = EditName THEN {Cleared(c)} ELSE {PrintText(c, Unknown)}
        ELSE IF w = ClearName THEN {Cleared(c)}
        ELSE IF w \in DOMAIN Commands THEN {PrintText(c, out) : out \in Commands[w]}
        ELSE {PrintText(c, Unknown)}

Prompted(c, text) ==
    /\ con' = PrintText(c, text)
    /\ prompt' = <<con'.col, con'.row>>
    /\ input' = <<>> /\ cur' = 0

Init ==
    /\ \E fb \in BOOLEAN, text \in Prompts :
          /\ con = PrintText(PowerOn(fb), text)
          /\ prompt = <<con.col, con.row>>
    /\ input = <<>> /\ cur = 0
    /\ history = [i \in 0 .. HistorySize - 1 |-> <<>>]
    /\ history_count = 0 /\ history_pos = 0
    /\ log = <<>> /\ tidy = TRUE /\ keys = 0

Press == keys < MaxKeys /\ keys' = keys + 1

\* A line is remembered unless it is empty; the position in the history is
\* then left where it was.
Enter ==
    /\ Press
    /\ \E c \in Executed(input, PutChar(con, NewLine)), text \in Prompts :
          /\ Prompted(c, text)
          /\ tidy' = (tidy \/ con' = PrintText(Cleared(con), text))
    /\ IF input = <<>> THEN UNCHANGED <<history, history_count, history_pos, log>>
       ELSE /\ history' = [history EXCEPT ![history_count % HistorySize] = input]
            /\ history_count' = history_count + 1
            /\ history_pos' = history_count'
            /\ log' = Append(log, input)

\* The line is drawn again from column n of it; text is what is printed.
Draw(line, pos, from, text) ==
    /\ input' = line /\ cur' = pos
    /\ con' = SetPos(PrintText(SetPos(con, Column(from), prompt[2]), text), Column(pos), prompt[2])
    /\ UNCHANGED prompt

Type(c) ==
    /\ Press /\ Len(input) < MaxInput - 1
    /\ LET line == Before(input, cur) \o <<c>> \o From(input, cur)
       IN  /\ Draw(line, cur + 1, cur, From(line, cur))
           /\ tidy' = (tidy /\ Column(Len(line)) < Width)
    /\ UNCHANGED <<history, history_count, history_pos, log>>

\* As Erase, without the blank over the last character.
EraseBare ==
    /\ Press /\ cur > 0
    /\ LET line == Before(input, cur - 1) \o From(input, cur)
       IN  Draw(line, cur - 1, 0, line)
    /\ UNCHANGED <<history, history_count, history_pos, log, tidy>>

Erase ==
    /\ Press /\ cur > 0
    /\ LET line == Before(input, cur - 1) \o From(input, cur)
       IN  Draw(line, cur - 1, 0, Append(line, Space))
    /\ UNCHANGED <<history, history_count, history_pos, log, tidy>>

Move ==
    /\ Press
    /\ \E n \in {cur - 1, cur + 1} \cap (0 .. Len(input)) :
          /\ cur' = n
          /\ con' = SetPos(con, Column(n), prompt[2])
    /\ UNCHANGED <<input, prompt, history, history_count, history_pos, log, tidy>>

\* A recalled line is padded to Pad columns, so that it covers the line it
\* replaces; what is longer stays on the screen.
Recall(line) ==
    /\ Draw(line, Len(line), 0, line \o Blanks(Longer(Pad - Len(line), 0)))
    /\ tidy' = (/\ tidy
                /\ Column(Longer(Pad, Len(line))) < Width
                /\ Len(input) <= Longer(Pad, Len(line)))

\* As KeyUp, with one line too many within reach.
KeyUpFar ==
    /\ Press
    /\ history_pos > 0 /\ history_pos >= history_count - HistorySize
    /\ history_pos' = history_pos - 1
    /\ Recall(history[history_pos' % HistorySize])
    /\ UNCHANGED <<history, history_count, log>>

KeyUp ==
    /\ Press
    /\ history_pos > 0 /\ history_pos > history_count - HistorySize
    /\ history_pos' = history_pos - 1
    /\ Recall(history[history_pos' % HistorySize])
    /\ UNCHANGED <<history, history_count, log>>

KeyDown ==
    /\ Press
    /\ history_pos < history_count
    /\ history_pos' = history_pos + 1
    /\ Recall(IF history_pos' = history_count THEN <<>> ELSE history[history_pos' % HistorySize])
    /\ UNCHANGED <<history, history_count, log>>

Next == Enter \/ (\E c \in Chars : Type(c)) \/ Erase \/ Move \/ KeyUp \/ KeyDown

Spec == Init /\ [][Next]_vars

-----------------------------------------------------------------------------

\* shell_run redraws parts of the line by hand: as long as every line fits
\* into its row and the framebuffer has rows left, behind the prompt stand
\* the line and blanks and nothing else, the cursor is at the character to
\* be edited, and nothing is written outside the screen.
InputIsShown ==
    LET start == prompt[2] * Width + prompt[1]
    IN  tidy /\ ~con.over =>
          /\ ~con.off
          /\ con.row = prompt[2] /\ con.col = Column(cur)
          /\ \A i \in 1 .. Width - prompt[1] :
                con.cell[start + i - 1] = IF i <= Len(input) THEN input[i] ELSE Space

\* KEY_UP and KEY_DOWN walk a ring: they show the lines executed, one at a
\* time and in their order, never one that was overwritten.
RecallsInOrder ==
    [][/\ KeyUp => history_pos' = history_pos - 1 /\ input' = log[history_pos' + 1]
       /\ KeyDown => \/ history_pos' = Len(log) /\ input' = <<>>
                     \/ input' = log[history_pos' + 1]]_vars
=============================================================================
