------------------------------ MODULE Keyboard ------------------------------
(***************************************************************************)
(* The keyboard driver, src/drivers/keyboard.c: the interrupt handler,     *)
(* which turns scancodes into keys one byte at a time, in front of the     *)
(* ring of KeyRing.                                                        *)
(*                                                                         *)
(* The keyboard sends scancodes of set 1. A code is named by its number;   *)
(* of the keys that the driver treats alike there is one.                  *)
(***************************************************************************)
EXTENDS KeyRing, Sequences

CONSTANT MaxKeys  \* bound: how many keys are typed in all

VARIABLES
    wire,                                         \* the codes under way
    extended, shift_gedrueckt, ctrl_gedrueckt,    \* the driver's three flags
    down,       \* the keys held down, of those where it matters
    both,       \* history: both shift keys were down since none was
    key         \* history: the key pushed by this keystroke

keyVars == <<wire, extended, shift_gedrueckt, ctrl_gedrueckt, down, both, key>>
vars == <<ringVars, keyVars>>

Init ==
    /\ RingInit
    /\ wire = <<>> /\ extended = 0 /\ shift_gedrueckt = 0 /\ ctrl_gedrueckt = 0
    /\ down = {} /\ both = FALSE /\ key = "none"

-----------------------------------------------------------------------------
(***************************************************************************)
(* The keyboard                                                            *)
(***************************************************************************)
Shifts == {"lshift", "rshift"}
Ctrls == {"lctrl", "rctrl"}
Held == Shifts \cup Ctrls \cup {"up"}

\* Around an arrow the keyboard takes the shift key back and presses it again.
Unshift(keys) == IF keys \cap Shifts # {} THEN <<"E0", "AA">> ELSE <<>>
Reshift(keys) == IF keys \cap Shifts # {} THEN <<"E0", "2A">> ELSE <<>>

Make(k) ==
    CASE k = "lshift" -> <<"2A">>
      [] k = "rshift" -> <<"36">>
      [] k = "lctrl"  -> <<"1D">>
      [] k = "rctrl"  -> <<"E0", "1D">>
      [] k = "up"     -> Unshift(down) \o <<"E0", "48">>

Break(k) ==
    CASE k = "lshift" -> <<"AA">>
      [] k = "rshift" -> <<"B6">>
      [] k = "lctrl"  -> <<"9D">>
      [] k = "rctrl"  -> <<"E0", "9D">>
      [] k = "up"     -> <<"E0", "C8">> \o Reshift(down)

\* Pause sends make and break at once, and another code while Ctrl is held.
Pause == IF down \cap Ctrls = {} THEN <<"E1", "1D", "45", "E1", "9D", "C5">>
                                 ELSE <<"E0", "46", "E0", "C6">>

\* A, S, Tab, Esc, Backspace, Num Lock, and the release of A.
Others == {"1E", "1F", "0F", "01", "0E", "45", "9E"}

Sends(codes, keys) ==
    /\ wire = <<>>
    /\ wire' = codes
    /\ down' = keys
    /\ both' = (keys \cap Shifts # {} /\ (both \/ Shifts \subseteq keys))
    /\ key' = "none"
    /\ UNCHANGED <<ringVars, extended, shift_gedrueckt, ctrl_gedrueckt>>

\* A key goes down, or repeats while it is held; a key goes up; another one.
Strike ==
    \/ \E k \in Held : (k = "up" => typed < MaxKeys) /\ Sends(Make(k), down \cup {k})
    \/ \E k \in down : Sends(Break(k), down \ {k})
    \/ \E code \in Others : typed < MaxKeys /\ Sends(<<code>>, down)
    \/ Sends(Pause, down)

-----------------------------------------------------------------------------
(***************************************************************************)
(* keyboard_handler, once per code                                         *)
(***************************************************************************)
ShiftMake == {"2A", "36"}
ShiftBreak == {"AA", "B6"}
Breaks == {"AA", "B6", "9D", "9E", "C5", "C6", "C8", "E1"}   \* 0x80 and above

Takes(code) == wire # <<>> /\ Head(wire) = code /\ wire' = Tail(wire)

Pushes(c) == Push /\ key' = c
PushesNothing == UNCHANGED <<ringVars, key>>

Prefix ==
    /\ Takes("E0")
    /\ extended' = 1
    /\ PushesNothing
    /\ UNCHANGED <<shift_gedrueckt, ctrl_gedrueckt, down, both>>

\* As ExtendedOther, had a fake break of shift been taken for a real one.
ExtendedOtherUnshifts ==
    /\ extended = 1
    /\ \E code \in Breaks \cup {"2A", "1D", "46"} :
          /\ Takes(code)
          /\ shift_gedrueckt' = IF code \in ShiftBreak THEN 0 ELSE shift_gedrueckt
    /\ extended' = 0
    /\ PushesNothing
    /\ UNCHANGED <<ctrl_gedrueckt, down, both>>

\* The prefix is used up; breaks, fake shifts and right Ctrl do nothing.
ExtendedOther ==
    /\ extended = 1
    /\ \E code \in Breaks \cup {"2A", "1D", "46"} : Takes(code)
    /\ extended' = 0
    /\ PushesNothing
    /\ UNCHANGED <<shift_gedrueckt, ctrl_gedrueckt, down, both>>

ExtendedArrow ==
    /\ extended = 1 /\ Takes("48")
    /\ extended' = 0
    /\ Pushes(IF shift_gedrueckt = 1 THEN "SHIFT_UP" ELSE "UP")
    /\ UNCHANGED <<shift_gedrueckt, ctrl_gedrueckt, down, both>>

Shift ==
    /\ extended = 0
    /\ \E code \in ShiftMake \cup ShiftBreak :
          /\ Takes(code)
          /\ shift_gedrueckt' = IF code \in ShiftMake THEN 1 ELSE 0
    /\ PushesNothing
    /\ UNCHANGED <<extended, ctrl_gedrueckt, down, both>>

Ctrl ==
    /\ extended = 0
    /\ \E code \in {"1D", "9D"} :
          /\ Takes(code)
          /\ ctrl_gedrueckt' = IF code = "1D" THEN 1 ELSE 0
    /\ PushesNothing
    /\ UNCHANGED <<extended, shift_gedrueckt, down, both>>

Release ==
    /\ extended = 0
    /\ \E code \in Breaks \ (ShiftBreak \cup {"9D"}) : Takes(code)
    /\ PushesNothing
    /\ UNCHANGED <<extended, shift_gedrueckt, ctrl_gedrueckt, down, both>>

EscOrBackspace ==
    /\ extended = 0
    /\ \/ Takes("01") /\ Pushes("ESC")
       \/ Takes("0E") /\ Pushes("BACKSPACE")
    /\ UNCHANGED <<extended, shift_gedrueckt, ctrl_gedrueckt, down, both>>

\* With Ctrl only five keys do something, of which S is one.
CtrlKey ==
    /\ extended = 0 /\ ctrl_gedrueckt = 1
    /\ \/ Takes("1F") /\ Pushes("CTRL_S")
       \/ /\ \E code \in {"1E", "0F", "45"} : Takes(code)
          /\ PushesNothing
    /\ UNCHANGED <<extended, shift_gedrueckt, ctrl_gedrueckt, down, both>>

\* What the two tables have for a code. They end at 0x39: behind them is some
\* other variable's byte, or 0.
Char(code) ==
    CASE code = "1E" -> {IF shift_gedrueckt = 1 THEN "A" ELSE "a"}
      [] code = "1F" -> {IF shift_gedrueckt = 1 THEN "S" ELSE "s"}
      [] code = "0F" -> {"none"}
      [] OTHER -> {"none", "junk"}

Character ==
    /\ extended = 0 /\ ctrl_gedrueckt = 0
    /\ \E code \in {"1E", "1F", "0F", "45"} :
          /\ Takes(code)
          /\ \E c \in Char(code) : IF c = "none" THEN PushesNothing ELSE Pushes(c)
    /\ UNCHANGED <<extended, shift_gedrueckt, ctrl_gedrueckt, down, both>>

Handler ==
    \/ Prefix \/ ExtendedOther \/ ExtendedArrow \/ Shift \/ Ctrl \/ Release
    \/ EscOrBackspace \/ CtrlKey \/ Character

Reading == Read /\ UNCHANGED keyVars

Next == Strike \/ Handler \/ Reading

\* The interrupt is served, and the shell comes back to keyboard_read.
Spec == Init /\ [][Next]_vars /\ WF_vars(Handler) /\ WF_vars(Reading)

-----------------------------------------------------------------------------
(***************************************************************************)
(* Properties                                                              *)
(***************************************************************************)

\* Every keystroke ends with a key that was meant: upper case and SHIFT_UP only
\* while a shift key is down, Ctrl+S only with the left Ctrl key, and with it no
\* letter (keyboard.c:120, 146-158).
Meant ==
    typed' # typed =>
        /\ key' \in {"A", "S", "SHIFT_UP"} => down \cap Shifts # {}
        /\ key' \in {"a", "s", "UP"} => down \cap Shifts = {} \/ both
        /\ key' = "CTRL_S" => "lctrl" \in down
        /\ key' \in {"a", "A", "s", "S"} => "lctrl" \notin down

KeysAreMeant == [][Meant]_vars

\* Every key arrives in time, or the ring overflows (keyboard.c:165-176).
KeysArrive == \A k \in 1 .. MaxKeys : KeyArrives(k)

=============================================================================
