--------------------------- MODULE KeyboardProofs ---------------------------
(***************************************************************************)
(* Theorems about the keyboard's ring, for every size of it, and about     *)
(* what its handler makes of the keys.                                     *)
(*                                                                         *)
(* The two positions are numbers below Size and say nothing of how often   *)
(* they went around. The invariant says what they mean: every place of the *)
(* ring holds the last key that was pushed into it, and from the key that  *)
(* is due to the last one typed there are as many keys as between the two  *)
(* positions, and some whole rings.                                        *)
(*                                                                         *)
(* The handler's flags lag behind the keys by the codes under way. The     *)
(* invariant says which codes may be under way and what they will do.      *)
(***************************************************************************)
EXTENDS Keyboard, SequenceTheorems, TLAPS

\* How many pushes ago the key at place i was pushed, the last one being 1.
Back(i) == IF i < kb_write_pos THEN kb_write_pos - i ELSE kb_write_pos - i + Size

\* How many keys the two positions say are waiting.
Waiting == IF kb_read_pos <= kb_write_pos THEN kb_write_pos - kb_read_pos
                                          ELSE kb_write_pos - kb_read_pos + Size

BufferInv ==
    \A i \in 0 .. Size - 1 :
        kb_buffer[i] = IF Back(i) <= typed THEN typed - Back(i) + 1 ELSE 0

\* The key that keyboard_read has taken and not yet passed still counts.
Passed == IF reader = "advance" THEN delivered - 1 ELSE delivered

LapInv ==
    /\ \E laps \in 0 .. typed : typed - Passed = laps * Size + Waiting
    /\ delivered <= typed
    /\ reader = "load" => delivered < typed
    /\ reader = "advance" => delivered > 0

IInv == RingTypeOK /\ BufferInv /\ LapInv

\* The flags are what the keys say, but that one shift key hides the other.
Settled(sh, ct) ==
    /\ sh = 1 => down \cap Shifts # {}
    /\ sh = 0 => down \cap Shifts = {} \/ both
    /\ ct = 1 <=> "lctrl" \in down

\* Codes that follow a prefix; those the handler drops then; those two of which
\* belong to one key.
Ends == {"48", "C8", "2A", "1D", "9D", "C6"}
Ignored == Breaks \cup {"2A", "1D", "46"}
Double ==
    {<<0, <<"E0", "AA", "E0", "48">>>>, <<1, <<"AA", "E0", "48">>>>,
     <<0, <<"E0", "C8", "E0", "2A">>>>, <<1, <<"C8", "E0", "2A">>>>,
     <<0, <<"E0", "46", "E0", "C6">>>>, <<1, <<"46", "E0", "C6">>>>}

\* What may be under way, with the prefix's flag, and change no flag.
Neutral ==
    {<<0, <<>>>>} \cup {<<0, <<code>>>> : code \in Others \cup {"C5"}}
    \cup {<<0, <<"E0", code>>>> : code \in Ends}
    \cup {<<1, <<code>>>> : code \in Ends}
    \cup Double

\* The codes of Pause, and what is left of them: the left Ctrl key seems to go
\* down and up.
Released ==
    {<<"E1", "1D", "45", "E1", "9D", "C5">>, <<"1D", "45", "E1", "9D", "C5">>,
     <<"45", "E1", "9D", "C5">>, <<"E1", "9D", "C5">>, <<"9D", "C5">>, <<"9D">>}

\* The flags are settled, or will be when the code under way has come.
FlagsInv ==
    /\ shift_gedrueckt \in {0, 1} /\ ctrl_gedrueckt \in {0, 1}
    /\ down \subseteq Held
    /\ Shifts \subseteq down => both
    /\ \/ <<extended, wire>> \in Neutral /\ Settled(shift_gedrueckt, ctrl_gedrueckt)
       \/ /\ extended = 0
          /\ \/ wire \in {<<"2A">>, <<"36">>} /\ Settled(1, ctrl_gedrueckt)
             \/ wire \in {<<"AA">>, <<"B6">>} /\ Settled(0, ctrl_gedrueckt)
             \/ wire = <<"1D">> /\ Settled(shift_gedrueckt, 1)
             \/ wire \in Released /\ Settled(shift_gedrueckt, 0)

-----------------------------------------------------------------------------

\* What % KB_BUFFER_SIZE does to a position (keyboard.c:167, 174).
LEMMA NextPosition ==
    ASSUME NEW x \in 0 .. Size - 1
    PROVE  (x + 1) % Size = IF x + 1 = Size THEN 0 ELSE x + 1
<1>1. Size \in Nat /\ Size > 0 /\ x \in Nat /\ x < Size
    BY SizeAssumption
<1>2. CASE x + 1 = Size
    BY <1>1, <1>2
<1>3. CASE x + 1 < Size
    BY <1>1, <1>3
<1>. QED
    BY <1>1, <1>2, <1>3

\* A ring more, or one less.
LEMMA OneLap ==
    ASSUME NEW laps \in Int
    PROVE  /\ (laps + 1) * Size = laps * Size + Size
           /\ (laps - 1) * Size = laps * Size - Size
           /\ laps * Size \in Int
           /\ 0 * Size = 0 /\ 1 * Size = Size
    BY SizeAssumption

\* The ring is empty at first (keyboard.c:34-36).
LEMMA InitInv == RingInit => IInv
<1>. SUFFICES ASSUME RingInit PROVE IInv
    OBVIOUS
<1>1. RingTypeOK
    BY SizeAssumption DEF RingInit, RingTypeOK
<1>2. BufferInv
    BY SizeAssumption DEF RingInit, BufferInv, Back
<1>3. Waiting = 0 /\ Passed = 0 /\ typed = 0
    BY DEF RingInit, Waiting, Passed
<1>4. LapInv
    <2>1. typed - Passed = 0 * Size + Waiting
        BY <1>3, OneLap
    <2>. QED
        BY <1>3, <2>1 DEF RingInit, LapInv
<1>. QED
    BY <1>1, <1>2, <1>4 DEF IInv

\* A push, into a ring that may be full (keyboard.c:165-168).
LEMMA PushPreserves == IInv /\ Push => IInv'
<1>. SUFFICES ASSUME IInv, Push PROVE IInv'
    OBVIOUS
<1>. USE SizeAssumption
<1>1. /\ kb_write_pos \in 0 .. Size - 1 /\ kb_read_pos \in 0 .. Size - 1
      /\ typed \in Nat /\ delivered \in Nat /\ kb_buffer \in [0 .. Size - 1 -> Nat]
    BY DEF IInv, RingTypeOK
<1>2. kb_write_pos' = IF kb_write_pos + 1 = Size THEN 0 ELSE kb_write_pos + 1
    BY <1>1, NextPosition DEF Push
<1>3. /\ typed' = typed + 1 /\ kb_read_pos' = kb_read_pos
      /\ delivered' = delivered /\ reader' = reader
      /\ kb_buffer' = [kb_buffer EXCEPT ![kb_write_pos] = typed + 1]
    BY DEF Push
<1>4. RingTypeOK'
    BY <1>1, <1>2, <1>3 DEF IInv, RingTypeOK
<1>5. BufferInv'
    <2>. SUFFICES ASSUME NEW i \in 0 .. Size - 1
                  PROVE  kb_buffer'[i] = IF Back(i)' <= typed' THEN typed' - Back(i)' + 1
                                                               ELSE 0
        BY DEF BufferInv
    <2>1. CASE i = kb_write_pos
        <3>1. Back(i)' = 1
            BY <1>1, <1>2, <2>1 DEF Back
        <3>. QED
            BY <1>1, <1>3, <2>1, <3>1
    <2>2. CASE i # kb_write_pos
        <3>1. Back(i)' = Back(i) + 1 /\ Back(i) \in Int
            BY <1>1, <1>2, <2>2 DEF Back
        <3>2. kb_buffer'[i] = kb_buffer[i]
            BY <1>1, <1>3, <2>2
        <3>3. kb_buffer[i] = IF Back(i) <= typed THEN typed - Back(i) + 1 ELSE 0
            BY DEF IInv, BufferInv
        <3>4. Back(i)' <= typed' <=> Back(i) <= typed
            BY <1>1, <1>3, <3>1
        <3>5. typed' - Back(i)' + 1 = typed - Back(i) + 1
            BY <1>1, <1>3, <3>1
        <3>. QED
            BY <3>2, <3>3, <3>4, <3>5
    <2>. QED
        BY <2>1, <2>2
<1>6. LapInv'
    <2>1. PICK laps \in 0 .. typed : typed - Passed = laps * Size + Waiting
        BY DEF IInv, LapInv
    <2>2. laps \in Int /\ laps * Size \in Int /\ (laps + 1) * Size = laps * Size + Size
        BY <1>1, <2>1, OneLap
    <2>3. Waiting \in 0 .. Size - 1 /\ Passed \in Int /\ Passed' = Passed
        BY <1>1, <1>3 DEF Waiting, Passed
    <2>4. Waiting' = IF Waiting + 1 = Size THEN 0 ELSE Waiting + 1
        BY <1>1, <1>2, <1>3 DEF Waiting
    <2>5. \E n \in 0 .. typed' : typed' - Passed' = n * Size + Waiting'
        <3>1. CASE Waiting + 1 = Size
            <4>1. typed' - Passed' = (laps + 1) * Size + Waiting'
                BY <1>1, <1>3, <2>1, <2>2, <2>3, <2>4, <3>1
            <4>2. laps + 1 \in 0 .. typed'
                BY <1>1, <1>3, <2>1
            <4>. QED
                BY <4>1, <4>2
        <3>2. CASE Waiting + 1 # Size
            <4>1. typed' - Passed' = laps * Size + Waiting'
                BY <1>1, <1>3, <2>1, <2>2, <2>3, <2>4, <3>2
            <4>2. laps \in 0 .. typed'
                BY <1>1, <1>3, <2>1
            <4>. QED
                BY <4>1, <4>2
        <3>. QED
            BY <3>1, <3>2
    <2>6. /\ delivered' <= typed'
          /\ reader' = "load" => delivered' < typed'
          /\ reader' = "advance" => delivered' > 0
        BY <1>1, <1>3 DEF IInv, LapInv
    <2>. QED
        BY <2>5, <2>6 DEF LapInv
<1>. QED
    BY <1>4, <1>5, <1>6 DEF IInv

\* keyboard_read's test: there is a key (keyboard.c:171).
LEMMA SeesPreserves == IInv /\ ReadSees => IInv'
<1>. SUFFICES ASSUME IInv, ReadSees PROVE IInv'
    OBVIOUS
<1>. USE SizeAssumption
<1>1. /\ kb_write_pos \in 0 .. Size - 1 /\ kb_read_pos \in 0 .. Size - 1
      /\ typed \in Nat /\ delivered \in Nat
    BY DEF IInv, RingTypeOK
<1>2. RingTypeOK' /\ BufferInv'
    BY DEF IInv, RingTypeOK, BufferInv, Back, ReadSees
<1>3. PICK laps \in 0 .. typed : typed - Passed = laps * Size + Waiting
    BY DEF IInv, LapInv
<1>4. Waiting > 0 /\ Waiting \in Int
    BY <1>1 DEF ReadSees, Waiting
<1>5. laps * Size >= 0 /\ laps * Size \in Int
    BY <1>1, <1>3
<1>6. Passed = delivered /\ Passed' = delivered /\ Waiting' = Waiting /\ typed' = typed
    BY DEF ReadSees, Passed, Waiting
<1>7. delivered < typed
    BY <1>1, <1>3, <1>4, <1>5, <1>6
<1>8. LapInv'
    BY <1>3, <1>6, <1>7 DEF IInv, LapInv, ReadSees
<1>. QED
    BY <1>2, <1>8 DEF IInv

\* What keyboard_read finds at its position is the key that is due, or the one
\* some whole rings after it (keyboard.c:173).
LEMMA LoadFacts ==
    ASSUME IInv, ReadLoads
    PROVE  /\ delivered' \in 1 .. typed
           /\ \E laps \in 0 .. typed : delivered' = delivered + 1 + laps * Size
           /\ \E laps \in 0 .. typed : typed - (delivered' - 1) = laps * Size + Waiting
<1>. USE SizeAssumption
<1>1. /\ kb_write_pos \in 0 .. Size - 1 /\ kb_read_pos \in 0 .. Size - 1
      /\ typed \in Nat /\ delivered \in Nat /\ delivered < typed
      /\ reader = "load" /\ delivered' = kb_buffer[kb_read_pos]
    BY DEF IInv, RingTypeOK, LapInv, ReadLoads
<1>2. PICK laps \in 0 .. typed : typed - delivered = laps * Size + Waiting
    BY <1>1 DEF IInv, LapInv, Passed
<1>3. /\ laps \in Nat /\ laps * Size \in Nat
      /\ (laps - 1) * Size = laps * Size - Size /\ 0 * Size = 0 /\ 1 * Size = Size
    BY <1>1, <1>2, OneLap
<1>4. Waiting \in 0 .. Size - 1
    BY <1>1 DEF Waiting
<1>5. Back(kb_read_pos) = IF Waiting = 0 THEN Size ELSE Waiting
    BY <1>1 DEF Waiting, Back
<1>6. kb_buffer[kb_read_pos] = IF Back(kb_read_pos) <= typed
                               THEN typed - Back(kb_read_pos) + 1 ELSE 0
    BY <1>1 DEF IInv, BufferInv
<1>7. CASE Waiting = 0
    <2>1. laps > 0
        BY <1>1, <1>2, <1>3, <1>7
    <2>2. laps * Size >= Size
        BY <1>3, <2>1
    <2>3. Size <= typed /\ delivered' = typed - Size + 1
        BY <1>1, <1>2, <1>3, <1>5, <1>6, <1>7, <2>2
    <2>4. delivered' = delivered + 1 + (laps - 1) * Size
        BY <1>1, <1>2, <1>3, <1>7, <2>3
    <2>5. laps - 1 \in 0 .. typed /\ 1 \in 0 .. typed
        BY <1>1, <1>2, <2>1, <2>3
    <2>6. typed - (delivered' - 1) = 1 * Size + Waiting
        BY <1>1, <1>3, <1>7, <2>3
    <2>7. delivered' \in 1 .. typed
        BY <1>1, <2>3
    <2>. QED
        BY <2>4, <2>5, <2>6, <2>7
<1>8. CASE Waiting # 0
    <2>1. Waiting <= typed /\ delivered' = typed - Waiting + 1
        BY <1>1, <1>2, <1>3, <1>4, <1>5, <1>6, <1>8
    <2>2. delivered' = delivered + 1 + laps * Size
        BY <1>1, <1>2, <1>3, <1>4, <2>1
    <2>3. typed - (delivered' - 1) = 0 * Size + Waiting
        BY <1>1, <1>3, <1>4, <2>1
    <2>4. delivered' \in 1 .. typed /\ 0 \in 0 .. typed
        BY <1>1, <1>4, <1>8, <2>1
    <2>. QED
        BY <1>2, <2>2, <2>3, <2>4
<1>. QED
    BY <1>7, <1>8

\* keyboard_read's load (keyboard.c:173).
LEMMA LoadsPreserves == IInv /\ ReadLoads => IInv'
<1>. SUFFICES ASSUME IInv, ReadLoads PROVE IInv'
    OBVIOUS
<1>1. /\ delivered' \in 1 .. typed
      /\ \E laps \in 0 .. typed : typed - (delivered' - 1) = laps * Size + Waiting
    BY LoadFacts
<1>2. RingTypeOK'
    BY <1>1 DEF IInv, RingTypeOK, ReadLoads
<1>3. BufferInv'
    BY DEF IInv, BufferInv, Back, ReadLoads
<1>4. typed' = typed /\ Waiting' = Waiting /\ reader' = "advance" /\ typed \in Nat
    BY DEF IInv, RingTypeOK, ReadLoads, Waiting
<1>5. Passed' = delivered' - 1
    BY <1>4 DEF Passed
<1>6. LapInv'
    BY <1>1, <1>4, <1>5 DEF LapInv
<1>. QED
    BY <1>2, <1>3, <1>6 DEF IInv

\* keyboard_read's advance (keyboard.c:174).
LEMMA AdvancesPreserves == IInv /\ ReadAdvances => IInv'
<1>. SUFFICES ASSUME IInv, ReadAdvances PROVE IInv'
    OBVIOUS
<1>. USE SizeAssumption
<1>1. /\ kb_write_pos \in 0 .. Size - 1 /\ kb_read_pos \in 0 .. Size - 1
      /\ typed \in Nat /\ delivered \in Nat /\ delivered <= typed /\ delivered > 0
      /\ reader = "advance"
    BY DEF IInv, RingTypeOK, LapInv, ReadAdvances
<1>2. kb_read_pos' = IF kb_read_pos + 1 = Size THEN 0 ELSE kb_read_pos + 1
    BY <1>1, NextPosition DEF ReadAdvances
<1>3. /\ kb_write_pos' = kb_write_pos /\ typed' = typed /\ delivered' = delivered
      /\ kb_buffer' = kb_buffer /\ reader' = "wait"
    BY DEF ReadAdvances
<1>4. RingTypeOK'
    BY <1>1, <1>2, <1>3 DEF IInv, RingTypeOK
<1>5. BufferInv'
    BY <1>3 DEF IInv, BufferInv, Back
<1>6. PICK laps \in 0 .. typed : typed - (delivered - 1) = laps * Size + Waiting
    BY <1>1 DEF IInv, LapInv, Passed
<1>7. laps \in Nat /\ laps * Size \in Nat /\ (laps - 1) * Size = laps * Size - Size
    BY <1>1, <1>6, OneLap
<1>8. Waiting \in 0 .. Size - 1 /\ Passed' = delivered
    BY <1>1, <1>3 DEF Waiting, Passed
<1>9. Waiting' = IF Waiting = 0 THEN Size - 1 ELSE Waiting - 1
    BY <1>1, <1>2, <1>3 DEF Waiting
<1>10. \E n \in 0 .. typed : typed - delivered = n * Size + Waiting'
    <2>1. CASE Waiting = 0
        <3>1. laps > 0
            BY <1>1, <1>6, <1>7, <2>1
        <3>2. typed - delivered = (laps - 1) * Size + Waiting'
            BY <1>1, <1>6, <1>7, <1>9, <2>1
        <3>3. laps - 1 \in 0 .. typed
            BY <1>1, <1>6, <3>1
        <3>. QED
            BY <3>2, <3>3
    <2>2. CASE Waiting # 0
        <3>1. typed - delivered = laps * Size + Waiting'
            BY <1>1, <1>6, <1>7, <1>8, <1>9, <2>2
        <3>. QED
            BY <1>6, <3>1
    <2>. QED
        BY <2>1, <2>2
<1>11. LapInv'
    BY <1>1, <1>3, <1>8, <1>10 DEF LapInv
<1>. QED
    BY <1>4, <1>5, <1>11 DEF IInv

-----------------------------------------------------------------------------

\* What the two positions mean, in every state of the ring (keyboard.c:165-176).
THEOREM IInvInvariant == RingSpec => []IInv
<1>1. RingInit => IInv
    BY InitInv
<1>2. IInv /\ [Push \/ Read]_ringVars => IInv'
    <2>. SUFFICES ASSUME IInv, [Push \/ Read]_ringVars PROVE IInv'
        OBVIOUS
    <2>1. CASE Push
        BY <2>1, PushPreserves
    <2>2. CASE Read
        BY <2>2, SeesPreserves, LoadsPreserves, AdvancesPreserves DEF Read
    <2>3. CASE UNCHANGED ringVars
        BY <2>3 DEF ringVars, IInv, RingTypeOK, BufferInv, LapInv, Back, Waiting, Passed
    <2>. QED
        BY <2>1, <2>2, <2>3
<1>. QED
    BY <1>1, <1>2, PTL DEF RingSpec

\* Positions never leave the buffer (keyboard.c:167, 174).
THEOREM TypeCorrect == RingSpec => []RingTypeOK
<1>1. IInv => RingTypeOK
    BY DEF IInv
<1>. QED
    BY <1>1, IInvInvariant, PTL

\* A push is a keystroke, a load a delivery, and the rest is nobody's business
\* (keyboard.c:165-176).
LEMMA StepRefines == IInv /\ [Push \/ Read]_ringVars => [Stream!Next]_(Stream!streamVars)
<1>. SUFFICES ASSUME IInv, [Push \/ Read]_ringVars
              PROVE  [Stream!Next]_(Stream!streamVars)
    OBVIOUS
<1>1. CASE Push
    BY <1>1 DEF Push, Stream!Next, Stream!Type
<1>2. CASE ReadLoads
    BY <1>2, LoadFacts DEF ReadLoads, Stream!Next, Stream!Deliver
<1>3. CASE ReadSees \/ ReadAdvances \/ UNCHANGED ringVars
    BY <1>3 DEF ReadSees, ReadAdvances, ringVars, Stream!streamVars
<1>. QED
    BY <1>1, <1>2, <1>3 DEF Read

\* Keys reach the reader in order, at most once, and missing only by whole rings,
\* whatever pushes fall between the steps of keyboard_read (keyboard.c:165-176).
THEOREM Refinement == RingSpec => IsKeyStream
<1>1. RingInit => Stream!Init
    BY DEF RingInit, Stream!Init
<1>. QED
    BY <1>1, StepRefines, IInvInvariant, PTL DEF RingSpec, IsKeyStream, Stream!Spec

\* The same of the whole driver, with the keys its handler makes of scancodes
\* (keyboard.c:109-176).
THEOREM KeyboardRefinement == Spec => IsKeyStream
<1>1. Init => RingInit
    BY DEF Init
<1>2. [Next]_vars => [Push \/ Read]_ringVars
    <2>. SUFFICES ASSUME [Next]_vars PROVE [Push \/ Read]_ringVars
        OBVIOUS
    <2>1. CASE Strike
        BY <2>1 DEF Strike, Sends
    <2>2. CASE Handler
        BY <2>2 DEF Handler, Prefix, ExtendedOther, ExtendedArrow, Shift, Ctrl, Release,
                    EscOrBackspace, CtrlKey, Character, Pushes, PushesNothing
    <2>3. CASE Reading
        BY <2>3 DEF Reading
    <2>4. CASE UNCHANGED vars
        BY <2>4 DEF vars
    <2>. QED
        BY <2>1, <2>2, <2>3, <2>4 DEF Next
<1>3. Spec => RingSpec
    BY <1>1, <1>2, PTL DEF Spec, RingSpec
<1>. QED
    BY <1>3, Refinement

-----------------------------------------------------------------------------

\* What of Pause is left after its next code (keyboard.c:133-138).
LEMMA ReleasedAhead ==
    ASSUME NEW w \in Released
    PROVE  \/ Head(w) \in {"E1", "1D", "45"} /\ Tail(w) \in Released
           \/ Head(w) = "9D" /\ Tail(w) \in {<<"C5">>, <<>>}
<1>1. CASE w = <<"E1", "1D", "45", "E1", "9D", "C5">>
    <2>1. Head(w) = "E1" /\ Tail(w) = <<"1D", "45", "E1", "9D", "C5">>
        BY <1>1
    <2>. QED
        BY <2>1 DEF Released
<1>2. CASE w = <<"1D", "45", "E1", "9D", "C5">>
    <2>1. Head(w) = "1D" /\ Tail(w) = <<"45", "E1", "9D", "C5">>
        BY <1>2
    <2>. QED
        BY <2>1 DEF Released
<1>3. CASE w = <<"45", "E1", "9D", "C5">>
    <2>1. Head(w) = "45" /\ Tail(w) = <<"E1", "9D", "C5">>
        BY <1>3
    <2>. QED
        BY <2>1 DEF Released
<1>4. CASE w = <<"E1", "9D", "C5">>
    <2>1. Head(w) = "E1" /\ Tail(w) = <<"9D", "C5">>
        BY <1>4
    <2>. QED
        BY <2>1 DEF Released
<1>5. CASE w = <<"9D", "C5">>
    <2>1. Head(w) = "9D" /\ Tail(w) = <<"C5">>
        BY <1>5
    <2>. QED
        BY <2>1
<1>6. CASE w = <<"9D">>
    <2>1. Head(w) = "9D" /\ Tail(w) = <<>>
        BY <1>6
    <2>. QED
        BY <2>1
<1>. QED
    BY <1>1, <1>2, <1>3, <1>4, <1>5, <1>6 DEF Released

\* What is left after the next code that changes no flag (keyboard.c:113-126).
LEMMA NeutralAhead ==
    ASSUME NEW e, NEW w, <<e, w>> \in Neutral, w # <<>>
    PROVE  \/ e = 0 /\ Head(w) = "E0" /\ <<1, Tail(w)>> \in Neutral
           \/ e = 1 /\ Head(w) \in Ignored \cup {"48"} /\ <<0, Tail(w)>> \in Neutral
           \/ e = 0 /\ Head(w) \in Others \cup {"C5"} /\ Tail(w) = <<>>
<1>1. \/ e = 0 /\ \E code \in Others \cup {"C5"} : w = <<code>>
      \/ e = 0 /\ \E code \in Ends : w = <<"E0", code>>
      \/ e = 1 /\ \E code \in Ends : w = <<code>>
      \/ <<e, w>> \in Double
    BY DEF Neutral
<1>2. CASE e = 0 /\ \E code \in Others \cup {"C5"} : w = <<code>>
    BY <1>2
<1>3. CASE e = 0 /\ \E code \in Ends : w = <<"E0", code>>
    <2>1. PICK code \in Ends : w = <<"E0", code>>
        BY <1>3
    <2>2. Head(w) = "E0" /\ Tail(w) = <<code>>
        BY <2>1
    <2>. QED
        BY <1>3, <2>2 DEF Neutral
<1>4. CASE e = 1 /\ \E code \in Ends : w = <<code>>
    <2>1. PICK code \in Ends : w = <<code>>
        BY <1>4
    <2>2. Head(w) = code /\ Tail(w) = <<>>
        BY <2>1
    <2>. QED
        BY <1>4, <2>2 DEF Neutral, Ends, Ignored, Breaks
<1>5. CASE <<e, w>> \in Double
    <2>1. CASE e = 0 /\ w = <<"E0", "AA", "E0", "48">>
        <3>1. Head(w) = "E0" /\ Tail(w) = <<"AA", "E0", "48">>
            BY <2>1
        <3>. QED
            BY <2>1, <3>1 DEF Neutral, Double
    <2>2. CASE e = 1 /\ w = <<"AA", "E0", "48">>
        <3>1. Head(w) = "AA" /\ Tail(w) = <<"E0", "48">>
            BY <2>2
        <3>. QED
            BY <2>2, <3>1 DEF Neutral, Ends, Ignored, Breaks
    <2>3. CASE e = 0 /\ w = <<"E0", "C8", "E0", "2A">>
        <3>1. Head(w) = "E0" /\ Tail(w) = <<"C8", "E0", "2A">>
            BY <2>3
        <3>. QED
            BY <2>3, <3>1 DEF Neutral, Double
    <2>4. CASE e = 1 /\ w = <<"C8", "E0", "2A">>
        <3>1. Head(w) = "C8" /\ Tail(w) = <<"E0", "2A">>
            BY <2>4
        <3>. QED
            BY <2>4, <3>1 DEF Neutral, Ends, Ignored, Breaks
    <2>5. CASE e = 0 /\ w = <<"E0", "46", "E0", "C6">>
        <3>1. Head(w) = "E0" /\ Tail(w) = <<"46", "E0", "C6">>
            BY <2>5
        <3>. QED
            BY <2>5, <3>1 DEF Neutral, Double
    <2>6. CASE e = 1 /\ w = <<"46", "E0", "C6">>
        <3>1. Head(w) = "46" /\ Tail(w) = <<"E0", "C6">>
            BY <2>6
        <3>. QED
            BY <2>6, <3>1 DEF Neutral, Ends, Ignored, Breaks
    <2>. QED
        BY <1>5, <2>1, <2>2, <2>3, <2>4, <2>5, <2>6 DEF Double
<1>. QED
    BY <1>1, <1>2, <1>3, <1>4, <1>5

\* Codes are under way.
LEMMA SomeCodes ==
    ASSUME NEW a, NEW b, NEW c, NEW d, NEW e, NEW f
    PROVE  /\ <<a>> # <<>> /\ <<a, b>> # <<>> /\ <<a, b, c>> # <<>> /\ <<a, b, c, d>> # <<>>
           /\ <<a, b, c, d, e>> # <<>> /\ <<a, b, c, d, e, f>> # <<>>
    OBVIOUS

\* No key is down at first and no flag set (keyboard.c:34-36).
LEMMA InitFlags == Init => FlagsInv
<1>. SUFFICES ASSUME Init PROVE FlagsInv
    OBVIOUS
<1>1. <<extended, wire>> \in Neutral
    BY DEF Init, Neutral
<1>2. Settled(shift_gedrueckt, ctrl_gedrueckt)
    BY DEF Init, Settled
<1>. QED
    BY <1>1, <1>2 DEF Init, FlagsInv, Held, Shifts

\* The codes around an arrow's.
LEMMA Pairs ==
    ASSUME NEW a, NEW b, NEW c, NEW d
    PROVE  <<a, b>> \o <<c, d>> = <<a, b, c, d>> /\ <<>> \o <<a, b>> = <<a, b>>
           /\ <<a, b>> \o <<>> = <<a, b>>
<1>. DEFINE S == {a, b, c, d}
            s == <<a, b>> \o <<c, d>>
<1>1. <<a, b>> \in Seq(S) /\ <<c, d>> \in Seq(S) /\ <<a, b, c, d>> \in Seq(S)
    OBVIOUS
<1>2. s \in Seq(S) /\ Len(s) = 4
    BY <1>1, ConcatProperties
<1>3. s[1] = a /\ s[2] = b /\ s[3] = c /\ s[4] = d
    BY <1>1, ConcatProperties
<1>4. \A i \in 1 .. 4 : s[i] = <<a, b, c, d>>[i]
    BY <1>3
<1>5. s = <<a, b, c, d>>
    BY <1>1, <1>2, <1>4, SeqEqual
<1>. QED
    BY <1>5

\* A key is struck when the last key's codes are taken in: what is under way then
\* brings the flags back in line with the keys (keyboard.c:109-134).
LEMMA StrikeFlags ==
    ASSUME FlagsInv, Strike
    PROVE  FlagsInv'
<1>1. wire = <<>>
    BY DEF Strike, Sends
<1>2. \A w \in Released : w # <<>>
    <2>1. /\ <<"E1", "1D", "45", "E1", "9D", "C5">> # <<>> /\ <<"1D", "45", "E1", "9D", "C5">> # <<>>
          /\ <<"45", "E1", "9D", "C5">> # <<>> /\ <<"E1", "9D", "C5">> # <<>>
          /\ <<"9D", "C5">> # <<>> /\ <<"9D">> # <<>>
        BY SomeCodes
    <2>. QED
        BY <2>1, Zenon DEF Released
<1>3. /\ Settled(shift_gedrueckt, ctrl_gedrueckt) /\ extended = 0
      /\ shift_gedrueckt \in {0, 1} /\ ctrl_gedrueckt \in {0, 1} /\ down \subseteq Held
      /\ Shifts \subseteq down => both
    <2>1. <<extended, wire>> \in Neutral /\ Settled(shift_gedrueckt, ctrl_gedrueckt)
        BY <1>1, <1>2 DEF FlagsInv
    <2>2. \/ extended = 0
          \/ \E code \in Ends : wire = <<code>>
          \/ wire \in {<<"AA", "E0", "48">>, <<"C8", "E0", "2A">>, <<"46", "E0", "C6">>}
        BY <2>1, Zenon DEF Neutral, Double
    <2>3. extended = 0
        BY <1>1, <2>2, SomeCodes, Zenon
    <2>. QED
        BY <2>1, <2>3 DEF FlagsInv
<1>4. UNCHANGED <<extended, shift_gedrueckt, ctrl_gedrueckt>>
    BY DEF Strike, Sends
<1>5. both' = (down' \cap Shifts # {} /\ (both \/ Shifts \subseteq down'))
    BY DEF Strike, Sends
<1>6. /\ down' \subseteq Held
      /\ Shifts \subseteq down' => both'
    <2>1. down' \subseteq Held
        BY <1>3 DEF Strike, Sends
    <2>2. Shifts \subseteq down' => down' \cap Shifts # {}
        BY DEF Shifts
    <2>. QED
        BY <1>5, <2>1, <2>2
<1>7. ASSUME down' \cap Shifts = down \cap Shifts
      PROVE  /\ shift_gedrueckt = 1 => down' \cap Shifts # {}
             /\ shift_gedrueckt = 0 => down' \cap Shifts = {} \/ both'
    BY <1>3, <1>5, <1>7 DEF Settled
<1>8. ASSUME NEW k \in Held, Sends(Make(k), down \cup {k}) PROVE FlagsInv'
    <2>1. wire' = Make(k) /\ down' = down \cup {k}
        BY <1>8 DEF Sends
    <2>2. CASE k \in Shifts
        <3>1. wire' \in {<<"2A">>, <<"36">>}
            BY <2>1, <2>2 DEF Make, Shifts
        <3>2. down' \cap Shifts # {} /\ ("lctrl" \in down' <=> "lctrl" \in down)
            BY <2>1, <2>2 DEF Shifts
        <3>3. Settled(1, ctrl_gedrueckt)'
            BY <1>3, <1>4, <3>2 DEF Settled
        <3>. QED
            BY <1>3, <1>4, <1>6, <3>1, <3>3 DEF FlagsInv
    <2>3. CASE k = "lctrl"
        <3>1. wire' = <<"1D">>
            BY <2>1, <2>3 DEF Make
        <3>2. down' \cap Shifts = down \cap Shifts /\ "lctrl" \in down'
            BY <2>1, <2>3 DEF Shifts
        <3>3. Settled(shift_gedrueckt, 1)'
            BY <1>4, <1>7, <3>2 DEF Settled
        <3>. QED
            BY <1>3, <1>4, <1>6, <3>1, <3>3 DEF FlagsInv
    <2>4. CASE k \in {"rctrl", "up"}
        <3>1. wire' \in {<<"E0", "1D">>, <<"E0", "48">>, <<"E0", "AA", "E0", "48">>}
            <4>1. CASE k = "rctrl"
                BY <2>1, <4>1 DEF Make
            <4>2. CASE k = "up"
                <5>1. wire' = Unshift(down) \o <<"E0", "48">>
                    BY <2>1, <4>2 DEF Make
                <5>2. CASE Unshift(down) = <<"E0", "AA">>
                    BY ONLY <5>1, <5>2, Pairs
                <5>3. CASE Unshift(down) = <<>>
                    BY ONLY <5>1, <5>3, Pairs
                <5>. QED
                    BY <5>2, <5>3 DEF Unshift
            <4>. QED
                BY <2>4, <4>1, <4>2
        <3>2. <<0, wire'>> \in Neutral
            BY <3>1 DEF Neutral, Double, Ends
        <3>3. down' \cap Shifts = down \cap Shifts /\ ("lctrl" \in down' <=> "lctrl" \in down)
            BY <2>1, <2>4 DEF Shifts
        <3>4. Settled(shift_gedrueckt, ctrl_gedrueckt)'
            BY <1>3, <1>4, <1>7, <3>3 DEF Settled
        <3>. QED
            BY <1>3, <1>4, <1>6, <3>2, <3>4 DEF FlagsInv
    <2>. QED
        BY <2>2, <2>3, <2>4 DEF Held, Shifts, Ctrls
<1>9. ASSUME NEW k \in down, Sends(Break(k), down \ {k}) PROVE FlagsInv'
    <2>1. wire' = Break(k) /\ down' = down \ {k} /\ k \in Held
        BY <1>3, <1>9 DEF Sends
    <2>2. CASE k \in Shifts
        <3>1. wire' \in {<<"AA">>, <<"B6">>}
            BY <2>1, <2>2 DEF Break, Shifts
        <3>2. "lctrl" \in down' <=> "lctrl" \in down
            BY <2>1, <2>2 DEF Shifts
        <3>3. down' \cap Shifts # {} => Shifts \subseteq down
            BY <2>1, <2>2 DEF Shifts
        <3>4. down' \cap Shifts = {} \/ both'
            BY <1>3, <1>5, <3>3
        <3>5. Settled(0, ctrl_gedrueckt)'
            BY <1>3, <1>4, <3>2, <3>4 DEF Settled
        <3>. QED
            BY <1>3, <1>4, <1>6, <3>1, <3>5 DEF FlagsInv
    <2>3. CASE k = "lctrl"
        <3>1. wire' = <<"9D">>
            BY <2>1, <2>3 DEF Break
        <3>2. down' \cap Shifts = down \cap Shifts /\ "lctrl" \notin down'
            BY <2>1, <2>3 DEF Shifts
        <3>3. Settled(shift_gedrueckt, 0)'
            BY <1>4, <1>7, <3>2 DEF Settled
        <3>4. wire' \in Released
            BY <3>1 DEF Released
        <3>. QED
            BY <1>3, <1>4, <1>6, <3>3, <3>4 DEF FlagsInv
    <2>4. CASE k \in {"rctrl", "up"}
        <3>1. wire' \in {<<"E0", "9D">>, <<"E0", "C8">>, <<"E0", "C8", "E0", "2A">>}
            BY <2>1, <2>4, Pairs DEF Break, Reshift
        <3>2. <<0, wire'>> \in Neutral
            BY <3>1 DEF Neutral, Double, Ends
        <3>3. down' \cap Shifts = down \cap Shifts /\ ("lctrl" \in down' <=> "lctrl" \in down)
            BY <2>1, <2>4 DEF Shifts
        <3>4. Settled(shift_gedrueckt, ctrl_gedrueckt)'
            BY <1>3, <1>4, <1>7, <3>3 DEF Settled
        <3>. QED
            BY <1>3, <1>4, <1>6, <3>2, <3>4 DEF FlagsInv
    <2>. QED
        BY <2>1, <2>2, <2>3, <2>4 DEF Held, Shifts, Ctrls
<1>10. /\ down' = down
       /\ <<0, wire'>> \in Neutral \/ (wire' \in Released /\ "lctrl" \notin down)
       => FlagsInv'
    <2>. SUFFICES ASSUME down' = down,
                         <<0, wire'>> \in Neutral \/ (wire' \in Released /\ "lctrl" \notin down)
                  PROVE  FlagsInv'
        OBVIOUS
    <2>1. Settled(shift_gedrueckt, ctrl_gedrueckt)'
        BY <1>3, <1>4, <1>7 DEF Settled
    <2>2. "lctrl" \notin down => Settled(shift_gedrueckt, 0)'
        BY <1>4, <1>7 DEF Settled
    <2>. QED
        BY <1>3, <1>4, <1>6, <2>1, <2>2 DEF FlagsInv
<1>11. ASSUME NEW code \in Others, Sends(<<code>>, down) PROVE FlagsInv'
    <2>1. <<0, <<code>>>> \in Neutral
        BY Zenon DEF Neutral
    <2>2. wire' = <<code>> /\ down' = down
        BY <1>11 DEF Sends
    <2>3. <<0, wire'>> \in Neutral
        BY <2>1, <2>2, Zenon
    <2>. QED
        BY <1>10, <2>2, <2>3, Zenon
<1>12. ASSUME Sends(Pause, down) PROVE FlagsInv'
    <2>1. wire' = Pause /\ down' = down
        BY <1>12 DEF Sends
    <2>2. \/ Pause = <<"E0", "46", "E0", "C6">>
          \/ Pause = <<"E1", "1D", "45", "E1", "9D", "C5">> /\ "lctrl" \notin down
        BY Zenon DEF Pause, Ctrls
    <2>3. /\ <<0, <<"E0", "46", "E0", "C6">>>> \in Neutral
          /\ <<"E1", "1D", "45", "E1", "9D", "C5">> \in Released
        BY Zenon DEF Neutral, Double, Released
    <2>4. <<0, wire'>> \in Neutral \/ (wire' \in Released /\ "lctrl" \notin down)
        BY <2>1, <2>2, <2>3, Zenon
    <2>. QED
        BY <1>10, <2>1, <2>4, Zenon
<1>. QED
    BY <1>8, <1>9, <1>11, <1>12 DEF Strike

\* What the handler makes of the next code, and what it pushes
\* (keyboard.c:109-160).
LEMMA HandlerFlags ==
    ASSUME FlagsInv, Handler
    PROVE  FlagsInv' /\ Meant
<1>1. UNCHANGED <<down, both>> /\ wire # <<>> /\ wire' = Tail(wire)
    BY DEF Handler, Prefix, ExtendedOther, ExtendedArrow, Shift, Ctrl, Release,
           EscOrBackspace, CtrlKey, Character, Takes
<1>2. /\ shift_gedrueckt \in {0, 1} /\ ctrl_gedrueckt \in {0, 1}
      /\ down \subseteq Held /\ Shifts \subseteq down => both
    BY DEF FlagsInv
<1>3. ASSUME shift_gedrueckt' \in {0, 1}, ctrl_gedrueckt' \in {0, 1},
             \/ <<extended', wire'>> \in Neutral /\ Settled(shift_gedrueckt', ctrl_gedrueckt')
             \/ extended' = 0 /\ wire' \in Released /\ Settled(shift_gedrueckt', 0)
      PROVE  FlagsInv'
    BY <1>1, <1>2, <1>3 DEF FlagsInv, Settled
<1>. USE DEF Handler, Prefix, ExtendedOther, ExtendedArrow, Shift, Ctrl, Release,
             EscOrBackspace, CtrlKey, Character, Takes, Pushes, PushesNothing
<1>4. CASE <<extended, wire>> \in Neutral /\ Settled(shift_gedrueckt, ctrl_gedrueckt)
    <2>1. \/ extended = 0 /\ Head(wire) = "E0" /\ <<1, Tail(wire)>> \in Neutral
          \/ extended = 1 /\ Head(wire) \in Ignored \cup {"48"} /\ <<0, Tail(wire)>> \in Neutral
          \/ extended = 0 /\ Head(wire) \in Others \cup {"C5"} /\ Tail(wire) = <<>>
        BY <1>1, <1>4, NeutralAhead
    <2>2. <<0, <<>>>> \in Neutral
        BY Zenon DEF Neutral
    <2>3. /\ UNCHANGED <<shift_gedrueckt, ctrl_gedrueckt>>
          /\ <<extended', wire'>> \in Neutral
        <3>1. CASE extended = 0 /\ Head(wire) = "E0" /\ <<1, Tail(wire)>> \in Neutral
            <4>1. Prefix
                BY <3>1 DEF ShiftMake, ShiftBreak, Breaks
            <4>. QED
                BY <3>1, <4>1
        <3>2. CASE extended = 1 /\ Head(wire) \in Ignored \cup {"48"} /\ <<0, Tail(wire)>> \in Neutral
            <4>1. ExtendedOther \/ ExtendedArrow
                BY <3>2 DEF Ignored, Breaks
            <4>. QED
                BY <3>2, <4>1
        <3>3. CASE extended = 0 /\ Head(wire) \in Others \cup {"C5"} /\ Tail(wire) = <<>>
            <4>1. Release \/ EscOrBackspace \/ CtrlKey \/ Character
                BY <3>3 DEF Others, ShiftMake, ShiftBreak
            <4>. QED
                BY <1>1, <2>2, <3>3, <4>1
        <3>. QED
            BY <2>1, <3>1, <3>2, <3>3
    <2>4. FlagsInv'
        BY <1>2, <1>3, <1>4, <2>3
    <2>5. Meant
        BY <1>2, <1>4 DEF Meant, Settled, Char, ringVars
    <2>. QED
        BY <2>4, <2>5
<1>5. CASE extended = 0 /\ wire \in Released /\ Settled(shift_gedrueckt, 0)
    <2>1. \/ Head(wire) \in {"E1", "1D", "45"} /\ Tail(wire) \in Released
          \/ Head(wire) = "9D" /\ Tail(wire) \in {<<"C5">>, <<>>}
        BY <1>5, ReleasedAhead
    <2>2. CASE Head(wire) \in {"E1", "1D", "45"} /\ Tail(wire) \in Released
        <3>1. Ctrl \/ Release \/ CtrlKey \/ Character
            BY <1>5, <2>2 DEF ShiftMake, ShiftBreak
        <3>2. /\ extended' = 0 /\ shift_gedrueckt' = shift_gedrueckt
              /\ ctrl_gedrueckt' \in {0, 1}
            BY <1>2, <1>5, <3>1
        <3>3. FlagsInv'
            BY <1>1, <1>2, <1>3, <1>5, <2>2, <3>2
        <3>4. typed' # typed => key' = "junk"
            BY <1>5, <2>2, <3>1 DEF Char, ringVars
        <3>. QED
            BY <3>3, <3>4 DEF Meant
    <2>3. CASE Head(wire) = "9D" /\ Tail(wire) \in {<<"C5">>, <<>>}
        <3>1. Ctrl
            BY <1>5, <2>3 DEF ShiftMake, ShiftBreak, Breaks
        <3>2. /\ extended' = 0 /\ shift_gedrueckt' = shift_gedrueckt
              /\ ctrl_gedrueckt' = 0 /\ typed' = typed
            BY <1>5, <2>3, <3>1 DEF ringVars
        <3>3. <<0, <<"C5">>>> \in Neutral /\ <<0, <<>>>> \in Neutral
            BY Zenon DEF Neutral
        <3>4. FlagsInv'
            BY <1>1, <1>2, <1>3, <1>5, <2>3, <3>2, <3>3
        <3>. QED
            BY <3>2, <3>4 DEF Meant
    <2>. QED
        BY <2>1, <2>2, <2>3
<1>6. ASSUME NEW code, wire = <<code>>
      PROVE  Head(wire) = code /\ wire' = <<>>
    BY <1>1, <1>6
<1>7. <<0, <<>>>> \in Neutral
    BY Zenon DEF Neutral
<1>8. CASE extended = 0 /\ wire \in {<<"2A">>, <<"36">>} /\ Settled(1, ctrl_gedrueckt)
    <2>1. Head(wire) \in {"2A", "36"} /\ wire' = <<>>
        BY <1>6, <1>8
    <2>2. extended' = 0 /\ shift_gedrueckt' = 1 /\ ctrl_gedrueckt' = ctrl_gedrueckt /\ typed' = typed
        BY <1>8, <2>1 DEF ShiftMake, ShiftBreak, Breaks, ringVars
    <2>3. FlagsInv'
        BY <1>2, <1>3, <1>7, <1>8, <2>1, <2>2
    <2>. QED
        BY <2>2, <2>3 DEF Meant
<1>9. CASE extended = 0 /\ wire \in {<<"AA">>, <<"B6">>} /\ Settled(0, ctrl_gedrueckt)
    <2>1. Head(wire) \in {"AA", "B6"} /\ wire' = <<>>
        BY <1>6, <1>9
    <2>2. extended' = 0 /\ shift_gedrueckt' = 0 /\ ctrl_gedrueckt' = ctrl_gedrueckt /\ typed' = typed
        BY <1>9, <2>1 DEF ShiftMake, ShiftBreak, Breaks, ringVars
    <2>3. FlagsInv'
        BY <1>2, <1>3, <1>7, <1>9, <2>1, <2>2
    <2>. QED
        BY <2>2, <2>3 DEF Meant
<1>10. CASE extended = 0 /\ wire = <<"1D">> /\ Settled(shift_gedrueckt, 1)
    <2>1. Head(wire) = "1D" /\ wire' = <<>>
        BY <1>6, <1>10
    <2>2. extended' = 0 /\ shift_gedrueckt' = shift_gedrueckt /\ ctrl_gedrueckt' = 1 /\ typed' = typed
        BY <1>10, <2>1 DEF ShiftMake, ShiftBreak, Breaks, ringVars
    <2>3. FlagsInv'
        BY <1>2, <1>3, <1>7, <1>10, <2>1, <2>2
    <2>. QED
        BY <2>2, <2>3 DEF Meant
<1>. QED
    BY <1>4, <1>5, <1>8, <1>9, <1>10 DEF FlagsInv

\* The flags agree with the keys whenever nothing is under way that will change
\* them: fake shifts, Pause and repeats leave no flag behind (keyboard.c:113-134).
THEOREM FlagsInvInvariant == Spec => []FlagsInv
<1>1. FlagsInv /\ [Next]_vars => FlagsInv'
    <2>. SUFFICES ASSUME FlagsInv, [Next]_vars PROVE FlagsInv'
        OBVIOUS
    <2>1. CASE Strike
        BY <2>1, StrikeFlags
    <2>2. CASE Handler
        BY <2>2, HandlerFlags
    <2>3. CASE Reading \/ UNCHANGED vars
        BY <2>3 DEF Reading, vars, keyVars, FlagsInv, Settled
    <2>. QED
        BY <2>1, <2>2, <2>3 DEF Next
<1>. QED
    BY <1>1, InitFlags, PTL DEF Spec

\* Every keystroke ends with a key that was meant, whatever is held, repeated or
\* sent in between (keyboard.c:120, 146-158).
THEOREM MeantThroughout == Spec => KeysAreMeant
<1>1. FlagsInv /\ [Next]_vars => [Meant]_vars
    <2>. SUFFICES ASSUME FlagsInv, Next PROVE Meant
        OBVIOUS
    <2>1. CASE Strike
        BY <2>1 DEF Strike, Sends, ringVars, Meant
    <2>2. CASE Handler
        BY <2>2, HandlerFlags
    <2>3. CASE Reading
        BY <2>3 DEF Reading, Read, ReadSees, ReadLoads, ReadAdvances, Meant
    <2>. QED
        BY <2>1, <2>2, <2>3 DEF Next
<1>. QED
    BY <1>1, FlagsInvInvariant, PTL DEF Spec, KeysAreMeant

=============================================================================
