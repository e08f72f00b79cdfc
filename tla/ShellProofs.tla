------------------------------ MODULE ShellProofs ------------------------------
(***************************************************************************)
(* Theorems about Shell, for every size of the line and of the history,    *)
(* every screen and every set of commands: the line stays in its buffer,   *)
(* the history ring returns the lines in their order, and the screen shows *)
(* the line that is edited.                                                *)
(***************************************************************************)
EXTENDS Shell, SequenceTheorems, NaturalsInduction, WellFoundedInduction, TLAPS

Lines == {s \in Seq(Chars) : Len(s) < MaxInput}

\* input_buffer holds MAX_INPUT characters, the last one of them 0.
LineInv ==
    /\ input \in Lines /\ cur \in 0 .. Len(input)
    /\ history \in [0 .. HistorySize - 1 -> Lines]
    /\ log \in Seq(Lines)

\* The counter runs on and tells how many lines there were; the position is
\* one of a line that is still in the ring, or behind the last.
CountInv ==
    /\ history_count = Len(log)
    /\ history_pos \in 0 .. history_count
    /\ history_pos >= history_count - HistorySize

\* The last lines are each in the place that the number has in the ring.
RingInv ==
    \A j \in 0 .. history_count - 1 :
        j >= history_count - HistorySize => history[j % HistorySize] = log[j + 1]

IInv == LineInv /\ CountInv /\ RingInv

-----------------------------------------------------------------------------

\* The place of a line in the ring (shell.c, history_count % HISTORY_SIZE).
LEMMA PlaceOf ==
    ASSUME NEW a \in Nat, NEW s \in Nat \ {0}
    PROVE  a % s \in 0 .. s - 1 /\ a \div s \in Nat /\ a % s = a - (a \div s) * s
    OBVIOUS

\* A whole number of rings is at least one, or none, or less.
LEMMA WholeRings ==
    ASSUME NEW q \in Int, NEW n \in Nat
    PROVE  (q >= 1 => q * n >= n) /\ (q <= 0 => q * n <= 0)
    OBVIOUS

\* The difference of two multiples is a multiple.
LEMMA Multiples ==
    ASSUME NEW p \in Int, NEW q \in Int, NEW n \in Int
    PROVE  q * n - p * n = (q - p) * n /\ q * n \in Int /\ p * n \in Int
    OBVIOUS

\* Two of the last lines do not share a place (shell.c, history_count %
\* HISTORY_SIZE).
LEMMA PlacesApart ==
    ASSUME NEW a \in Nat, NEW b \in Nat, a < b, b - a < HistorySize,
           a % HistorySize = b % HistorySize
    PROVE  FALSE
<1>. DEFINE p == a \div HistorySize
            q == b \div HistorySize
<1>1. HistorySize \in Nat \ {0}
    BY ShellAssumption
<1>2. /\ p \in Nat /\ a % HistorySize = a - p * HistorySize
      /\ q \in Nat /\ b % HistorySize = b - q * HistorySize
    BY <1>1, PlaceOf
<1>. HIDE DEF p, q
<1>3. q * HistorySize - p * HistorySize = (q - p) * HistorySize
      /\ q * HistorySize \in Int /\ p * HistorySize \in Int
    BY <1>1, <1>2, Multiples
<1>4. b - a = (q - p) * HistorySize
    BY <1>2, <1>3
<1>5. /\ q - p >= 1 => (q - p) * HistorySize >= HistorySize
      /\ q - p <= 0 => (q - p) * HistorySize <= 0
    BY <1>1, <1>2, WholeRings
<1>. QED
    BY <1>1, <1>2, <1>4, <1>5

\* The first characters of a line and the ones behind them (shell_run, around
\* the cursor).
LEMMA Parts ==
    ASSUME NEW s \in Seq(Chars), NEW n \in 0 .. Len(s)
    PROVE  /\ Before(s, n) \in Seq(Chars) /\ Len(Before(s, n)) = n
           /\ From(s, n) \in Seq(Chars) /\ Len(From(s, n)) = Len(s) - n
<1>1. Len(s) \in Nat
    OBVIOUS
<1>. QED
    BY <1>1, SubSeqProperties DEF Before, From

\* Two parts put together (shell_run, the characters before and behind the
\* one that is typed or erased).
LEMMA Joined ==
    ASSUME NEW s \in Seq(Chars), NEW t \in Seq(Chars)
    PROVE  s \o t \in Seq(Chars) /\ Len(s \o t) = Len(s) + Len(t)
    BY ConcatProperties

\* The characters before and behind the cursor are all there are.
LEMMA InAll ==
    ASSUME NEW n \in Nat, NEW k \in 0 .. n
    PROVE  (k + 1) + (n - k) = n + 1 /\ (k - 1) + (n - k) = n - 1
    OBVIOUS

\* At first there is no line.
LEMMA InitIInv == Init => IInv
<1>. SUFFICES ASSUME Init PROVE IInv
    OBVIOUS
<1>1. <<>> \in Lines
    BY ShellAssumption DEF Lines
<1>2. LineInv
    BY <1>1, ShellAssumption DEF Init, LineInv
<1>3. CountInv /\ RingInv
    BY ShellAssumption DEF Init, CountInv, RingInv
<1>. QED
    BY <1>2, <1>3 DEF IInv

\* The keys that change the line and leave the history alone.
LEMMA EditStep ==
    ASSUME IInv, Erase \/ Move \/ \E c \in Chars : Type(c)
    PROVE  IInv'
<1>1. UNCHANGED <<history, history_count, history_pos, log>>
    BY DEF Erase, Move, Type
<1>2. CountInv' /\ RingInv'
    BY <1>1 DEF IInv, CountInv, RingInv
<1>3. /\ input \in Seq(Chars) /\ Len(input) < MaxInput /\ Len(input) \in Nat
      /\ cur \in 0 .. Len(input) /\ MaxInput \in Nat
    BY ShellAssumption DEF IInv, LineInv, Lines
<1>4. input' \in Lines /\ cur' \in 0 .. Len(input')
    <2>1. ASSUME NEW c \in Chars, Type(c) PROVE input' \in Lines /\ cur' \in 0 .. Len(input')
        <3>1. /\ input' = Before(input, cur) \o <<c>> \o From(input, cur)
              /\ cur' = cur + 1 /\ Len(input) < MaxInput - 1
            BY <2>1 DEF Type, Draw
        <3>2. /\ Before(input, cur) \in Seq(Chars) /\ Len(Before(input, cur)) = cur
              /\ From(input, cur) \in Seq(Chars) /\ Len(From(input, cur)) = Len(input) - cur
            BY <1>3, Parts
        <3>3. <<c>> \in Seq(Chars) /\ Len(<<c>>) = 1
            OBVIOUS
        <3>4. input' \in Seq(Chars) /\ Len(input') = Len(input) + 1
            <4>1. /\ Before(input, cur) \o <<c>> \in Seq(Chars)
                  /\ Len(Before(input, cur) \o <<c>>) = cur + 1
                BY <3>2, <3>3, Joined
            <4>2. /\ input' \in Seq(Chars)
                  /\ Len(input') = Len(Before(input, cur) \o <<c>>) + Len(From(input, cur))
                BY <3>1, <3>2, <4>1, Joined
            <4>3. Len(input') = (cur + 1) + (Len(input) - cur)
                BY <3>2, <4>1, <4>2
            <4>. QED
                BY <1>3, <4>2, <4>3, InAll
        <3>. QED
            BY <1>3, <3>1, <3>4 DEF Lines
    <2>2. CASE Erase
        <3>1. /\ input' = Before(input, cur - 1) \o From(input, cur)
              /\ cur' = cur - 1 /\ cur > 0
            BY <2>2 DEF Erase, Draw
        <3>2. cur - 1 \in 0 .. Len(input)
            BY <1>3, <3>1
        <3>3. /\ Before(input, cur - 1) \in Seq(Chars) /\ Len(Before(input, cur - 1)) = cur - 1
              /\ From(input, cur) \in Seq(Chars) /\ Len(From(input, cur)) = Len(input) - cur
            BY <1>3, <3>2, Parts
        <3>4. input' \in Seq(Chars) /\ Len(input') = Len(input) - 1
            <4>1. input' \in Seq(Chars) /\ Len(input') = (cur - 1) + (Len(input) - cur)
                BY <3>1, <3>3, Joined
            <4>. QED
                BY <1>3, <4>1, InAll
        <3>. QED
            BY <1>3, <3>1, <3>4 DEF Lines
    <2>3. CASE Move
        BY <1>3, <2>3 DEF Move, Lines
    <2>. QED
        BY <2>1, <2>2, <2>3
<1>5. LineInv'
    BY <1>1, <1>4 DEF IInv, LineInv
<1>. QED
    BY <1>2, <1>5 DEF IInv

\* What the two keys find in the ring.
LEMMA Recalled ==
    ASSUME IInv, NEW j \in 0 .. history_count - 1, j >= history_count - HistorySize
    PROVE  /\ history[j % HistorySize] = log[j + 1]
           /\ history[j % HistorySize] \in Lines
<1>1. history_count \in Nat /\ j \in Nat
    BY DEF IInv, LineInv, CountInv
<1>2. j % HistorySize \in 0 .. HistorySize - 1
    BY <1>1, ShellAssumption, PlaceOf
<1>. QED
    BY <1>2 DEF IInv, LineInv, RingInv

\* KEY_UP and KEY_DOWN show a line of the ring, or an empty one.
LEMMA RecallStep ==
    ASSUME IInv, KeyUp \/ KeyDown
    PROVE  IInv' /\ (KeyUp => history_pos' = history_pos - 1 /\ input' = log[history_pos' + 1])
           /\ (KeyDown => \/ history_pos' = Len(log) /\ input' = <<>>
                          \/ input' = log[history_pos' + 1])
<1>1. UNCHANGED <<history, history_count, log>>
    BY DEF KeyUp, KeyDown
<1>2. /\ history_count = Len(log) /\ history_count \in Nat /\ history_pos \in 0 .. history_count
      /\ history_pos >= history_count - HistorySize /\ HistorySize \in Nat \ {0}
    BY ShellAssumption DEF IInv, LineInv, CountInv
<1>3. ASSUME KeyUp
      PROVE  /\ history_pos' = history_pos - 1
             /\ history_pos' \in 0 .. history_count /\ history_pos' >= history_count - HistorySize
             /\ input' = log[history_pos' + 1] /\ input' \in Lines /\ cur' = Len(input')
    <2>1. /\ history_pos' = history_pos - 1 /\ history_pos > 0
          /\ history_pos > history_count - HistorySize
          /\ input' = history[history_pos' % HistorySize] /\ cur' = Len(input')
        BY <1>3 DEF KeyUp, Recall, Draw
    <2>2. history_pos' \in 0 .. history_count - 1 /\ history_pos' >= history_count - HistorySize
        BY <1>2, <2>1
    <2>3. /\ history[history_pos' % HistorySize] = log[history_pos' + 1]
          /\ history[history_pos' % HistorySize] \in Lines
        BY <2>2, Recalled
    <2>. QED
        BY <2>1, <2>2, <2>3, <1>2
<1>4. ASSUME KeyDown
      PROVE  /\ history_pos' \in 0 .. history_count /\ history_pos' >= history_count - HistorySize
             /\ \/ history_pos' = Len(log) /\ input' = <<>>
                \/ input' = log[history_pos' + 1]
             /\ input' \in Lines /\ cur' = Len(input')
    <2>1. /\ history_pos' = history_pos + 1 /\ history_pos < history_count
          /\ input' = (IF history_pos' = history_count THEN <<>>
                       ELSE history[history_pos' % HistorySize])
          /\ cur' = Len(input')
        BY <1>4 DEF KeyDown, Recall, Draw
    <2>2. history_pos' \in 0 .. history_count /\ history_pos' >= history_count - HistorySize
        BY <1>2, <2>1
    <2>3. CASE history_pos' = history_count
        <3>1. <<>> \in Lines
            BY ShellAssumption DEF Lines
        <3>. QED
            BY <1>2, <2>1, <2>2, <2>3, <3>1
    <2>4. CASE history_pos' # history_count
        <3>1. history_pos' \in 0 .. history_count - 1
            BY <1>2, <2>2, <2>4
        <3>. QED
            BY <2>1, <2>2, <2>4, <3>1, Recalled
    <2>. QED
        BY <2>3, <2>4
<1>5. /\ history_pos' \in 0 .. history_count /\ history_pos' >= history_count - HistorySize
      /\ input' \in Lines /\ cur' = Len(input')
    BY <1>3, <1>4
<1>6. cur' \in 0 .. Len(input')
    BY <1>5 DEF Lines
<1>7. IInv'
    BY <1>1, <1>5, <1>6 DEF IInv, LineInv, CountInv, RingInv
<1>. QED
    BY <1>3, <1>4, <1>7

\* A line that is executed takes the place of the oldest one, and of no other.
LEMMA EnterStep ==
    ASSUME IInv, Enter
    PROVE  IInv'
<1>1. input' = <<>> /\ cur' = 0
    BY DEF Enter, Prompted
<1>2. <<>> \in Lines /\ Len(<<>>) = 0
    BY ShellAssumption DEF Lines
<1>3. CASE input = <<>>
    <2>1. UNCHANGED <<history, history_count, history_pos, log>>
        BY <1>3 DEF Enter
    <2>. QED
        BY <1>1, <1>2, <2>1 DEF IInv, LineInv, CountInv, RingInv
<1>4. CASE input # <<>>
    <2>1. /\ history' = [history EXCEPT ![history_count % HistorySize] = input]
          /\ history_count' = history_count + 1 /\ history_pos' = history_count'
          /\ log' = Append(log, input)
        BY <1>4 DEF Enter
    <2>2. /\ history_count = Len(log) /\ history_count \in Nat /\ HistorySize \in Nat \ {0}
          /\ log \in Seq(Lines) /\ input \in Lines
          /\ history \in [0 .. HistorySize - 1 -> Lines]
        BY ShellAssumption DEF IInv, LineInv, CountInv
    <2>3. history_count % HistorySize \in 0 .. HistorySize - 1
        BY <2>2, PlaceOf
    <2>4. /\ log' \in Seq(Lines) /\ Len(log') = Len(log) + 1
          /\ \A i \in 1 .. Len(log) : log'[i] = log[i]
          /\ log'[Len(log) + 1] = input
        BY <2>1, <2>2, AppendProperties
    <2>5. history' \in [0 .. HistorySize - 1 -> Lines]
        BY <2>1, <2>2, <2>3
    <2>6. LineInv'
        BY <1>1, <1>2, <2>4, <2>5 DEF LineInv
    <2>7. CountInv'
        BY <2>1, <2>2, <2>4 DEF CountInv
    <2>8. RingInv'
        <3>. SUFFICES ASSUME NEW j \in 0 .. history_count, j >= history_count + 1 - HistorySize
                      PROVE  history'[j % HistorySize] = log'[j + 1]
            BY <2>1, <2>2 DEF RingInv
        <3>1. j \in Nat /\ j % HistorySize \in 0 .. HistorySize - 1
            <4>1. j \in Nat
                BY <2>2
            <4>. QED
                BY <4>1, <2>2, PlaceOf
        <3>2. CASE j = history_count
            BY <3>2, <2>1, <2>2, <2>3, <2>4
        <3>3. CASE j < history_count
            <4>1. j % HistorySize # history_count % HistorySize
                <5>1. history_count - j < HistorySize
                    BY <2>2, <3>1
                <5>. QED
                    BY <2>2, <3>1, <3>3, <5>1, PlacesApart
            <4>2. history'[j % HistorySize] = history[j % HistorySize]
                BY <2>1, <2>2, <3>1, <4>1
            <4>3. history[j % HistorySize] = log[j + 1]
                BY <2>2, <3>1, <3>3, Recalled
            <4>4. log'[j + 1] = log[j + 1]
                BY <2>2, <2>4, <3>1, <3>3
            <4>. QED
                BY <4>2, <4>3, <4>4
        <3>. QED
            BY <3>1, <3>2, <3>3, <2>2
    <2>. QED
        BY <2>6, <2>7, <2>8 DEF IInv
<1>. QED
    BY <1>3, <1>4

-----------------------------------------------------------------------------

\* No key makes the line outgrow its buffer, the cursor leave the line, or a
\* line of the history move (shell_run, shell_execute).
THEOREM IInvInvariant == Spec => []IInv
<1>1. IInv /\ [Next]_vars => IInv'
    <2>. SUFFICES ASSUME IInv, [Next]_vars PROVE IInv'
        OBVIOUS
    <2>1. CASE Enter
        BY <2>1, EnterStep
    <2>2. CASE Erase \/ Move \/ \E c \in Chars : Type(c)
        BY <2>2, EditStep
    <2>3. CASE KeyUp \/ KeyDown
        BY <2>3, RecallStep
    <2>4. CASE UNCHANGED vars
        BY <2>4 DEF vars, IInv, LineInv, CountInv, RingInv
    <2>. QED
        BY <2>1, <2>2, <2>3, <2>4 DEF Next
<1>. QED
    BY <1>1, InitIInv, PTL DEF Spec

\* The history shows the lines executed one at a time and in their order, for
\* every size of the ring and however many lines there were (KEY_UP and
\* KEY_DOWN in shell_run).
THEOREM HistoryInOrder == Spec => RecallsInOrder
<1>. DEFINE InOrder == 
        /\ KeyUp => history_pos' = history_pos - 1 /\ input' = log[history_pos' + 1]
        /\ KeyDown => \/ history_pos' = Len(log) /\ input' = <<>>
                      \/ input' = log[history_pos' + 1]
<1>1. IInv => [InOrder]_vars
    BY RecallStep
<1>2. RecallsInOrder <=> [][InOrder]_vars
    BY DEF RecallsInOrder
<1>. HIDE DEF InOrder
<1>. QED
    BY <1>1, <1>2, IInvInvariant, PTL

-----------------------------------------------------------------------------
(* Loops: what they do after every pass, by the first pass that does not.   *)

\* The loops count up: there is a first pass.
LEMMA LeastElement ==
    ASSUME NEW S \in SUBSET Nat, S # {}
    PROVE  \E x \in S : \A y \in S : x <= y
<1>1. IsWellFoundedOn(OpToRel(<, Nat), Nat)
    BY NatLessThanWellFounded
<1>2. PICK x \in S : \A y \in S : <<y, x>> \notin OpToRel(<, Nat)
    BY <1>1, WFMin
<1>3. \A y \in S : ~ (y < x)
    BY <1>2 DEF OpToRel
<1>. QED
    BY <1>3

\* What holds before the first pass and is kept by each holds after all.
LEMMA Climbs ==
    ASSUME NEW S, NEW m \in Int, NEW n \in Int, NEW q, q[m] \in S,
           \A i \in m + 1 .. n : q[i - 1] \in S => q[i] \in S
    PROVE  \A i \in m .. n : q[i] \in S
<1>. SUFFICES ASSUME NEW j \in m .. n, q[j] \notin S PROVE FALSE
    OBVIOUS
<1>. DEFINE T == {k \in Nat : m + k \in m .. n /\ q[m + k] \notin S}
<1>1. j - m \in T
    <2>1. j - m \in Nat /\ m + (j - m) = j
        OBVIOUS
    <2>. QED
        BY <2>1
<1>2. PICK k \in T : \A i \in T : k <= i
    BY <1>1, LeastElement
<1>3. k # 0
    <2>1. m + 0 = m
        OBVIOUS
    <2>. QED
        BY <2>1
<1>4. /\ k - 1 \in Nat /\ m + (k - 1) \in m .. n /\ m + k \in m + 1 .. n
      /\ m + k - 1 = m + (k - 1) /\ ~ (k <= k - 1)
    BY <1>3
<1>5. q[m + (k - 1)] \in S
    BY <1>2, <1>4
<1>6. q[m + k] \in S
    BY <1>4, <1>5
<1>. QED
    BY <1>6

\* A function given by its first value and a step that knows the pass.
Goes(r, m, n, b, G) == r[m] = b /\ \A i \in m + 1 .. n : r[i] = G[i][r[i - 1]]

\* There is one: console_print has a result.
LEMMA Recursion ==
    ASSUME NEW S, NEW b \in S, NEW G \in [Int -> [S -> S]], NEW m \in Int, NEW n \in Int, m <= n
    PROVE  \E r \in [m .. n -> S] : Goes(r, m, n, b, G)
<1>. DEFINE Upto(k) == \E r \in [m .. m + k -> S] : Goes(r, m, m + k, b, G)
<1>1. Upto(0)
    <2>. DEFINE q == [i \in m .. m + 0 |-> b]
    <2>1. q \in [m .. m + 0 -> S] /\ q[m] = b /\ \A i \in m + 1 .. m + 0 : FALSE
        OBVIOUS
    <2>2. Goes(q, m, m + 0, b, G)
        BY <2>1 DEF Goes
    <2>. QED
        BY <2>1, <2>2
<1>2. ASSUME NEW k \in Nat, Upto(k) PROVE Upto(k + 1)
    <2>1. PICK r \in [m .. m + k -> S] : Goes(r, m, m + k, b, G)
        BY <1>2
    <2>. DEFINE z == m + k + 1
                q == [i \in m .. z |-> IF i = z THEN G[z][r[m + k]] ELSE r[i]]
    <2>0. /\ z \in Int /\ z = m + (k + 1) /\ z - 1 = m + k /\ m + k \in m .. m + k
          /\ z \in m .. z /\ m \in m .. z /\ m # z /\ m + k # z /\ m + k \in m .. z
          /\ \A i \in m .. z : i # z => i \in m .. m + k
        OBVIOUS
    <2>. HIDE DEF z
    <2>2. q \in [m .. z -> S]
        BY <2>0
    <2>3. q[m] = b /\ q[z] = G[z][q[z - 1]]
        BY <2>0, <2>1 DEF Goes
    <2>4. ASSUME NEW i \in m + 1 .. z, i # z PROVE q[i] = G[i][q[i - 1]]
        <3>1. /\ i \in m + 1 .. m + k /\ i \in m .. z /\ i - 1 \in m .. z /\ i - 1 # z
            BY <2>0, <2>4 DEF z
        <3>2. q[i] = r[i] /\ q[i - 1] = r[i - 1]
            BY <2>4, <3>1
        <3>. QED
            BY <2>1, <3>1, <3>2 DEF Goes
    <2>. HIDE DEF q
    <2>5. \A i \in m + 1 .. z : q[i] = G[i][q[i - 1]]
        BY <2>3, <2>4
    <2>. QED
        BY <2>0, <2>2, <2>3, <2>5 DEF Goes
<1>3. Upto(n - m)
    <2>. DEFINE T == {k \in Nat : ~ Upto(k)}
    <2>. SUFFICES ASSUME ~ Upto(n - m) PROVE FALSE
        OBVIOUS
    <2>. HIDE DEF Upto
    <2>1. PICK k \in T : \A j \in T : k <= j
        <3>1. n - m \in T
            OBVIOUS
        <3>. QED
            BY <3>1, LeastElement
    <2>2. k # 0 /\ k - 1 \in Nat /\ k - 1 + 1 = k /\ ~ (k <= k - 1)
        BY <1>1
    <2>3. Upto(k - 1)
        BY <2>1, <2>2
    <2>4. Upto(k - 1 + 1)
        BY <1>2, <2>2, <2>3
    <2>. QED
        BY <2>2, <2>4
<1>4. m + (n - m) = n
    OBVIOUS
<1>. QED
    BY <1>3, <1>4

\* What holds of the first number and is kept holds of all.
LEMMA Counting ==
    ASSUME NEW S, NEW m \in Int, NEW n \in Int, m \in S,
           \A i \in m + 1 .. n : i - 1 \in S => i \in S
    PROVE  \A i \in m .. n : i \in S
<1>. DEFINE q == [i \in Int |-> i]
<1>1. \A i \in m .. n : i \in Int /\ q[i] = i
    OBVIOUS
<1>2. \A i \in m + 1 .. n : i \in Int /\ i - 1 \in Int /\ q[i] = i /\ q[i - 1] = i - 1
    OBVIOUS
<1>3. q[m] = m
    OBVIOUS
<1>. HIDE DEF q
<1>4. q[m] \in S /\ \A i \in m + 1 .. n : q[i - 1] \in S => q[i] \in S
    BY <1>2, <1>3
<1>5. \A i \in m .. n : q[i] \in S
    BY ONLY <1>4, m \in Int, n \in Int, Climbs
<1>. QED
    BY <1>1, <1>5

-----------------------------------------------------------------------------
(* The console: where a character goes and what it leaves alone.            *)

\* What a cell may hold.
Glyphs == STRING \cup {Space, NewLine}

\* The consoles the shell writes to.
Consoles ==
    [cell : [Cells -> Glyphs], col : Int, row : Int,
     fb : BOOLEAN, off : BOOLEAN, over : BOOLEAN]

\* The cell of a position.
At(c) == c.row * Width + c.col

\* Nothing was written outside the screen, and only the framebuffer has lost rows.
Sound(c) == c.off = FALSE /\ (c.fb = FALSE => c.over = FALSE)

\* The position is in the screen.
InScreen(c) ==
    c \in Consoles /\ c.col \in 0 .. Width - 1 /\ c.row \in 0 .. LastRow /\ Sound(c)

\* There is nothing from cell p on, unless the framebuffer has lost rows.
BlankFrom(c, p) == c.over = FALSE => \A i \in Cells : i >= p => c.cell[i] = Space

\* There is nothing behind the position.
Fresh(c) == InScreen(c) /\ BlankFrom(c, At(c))

\* A higher row starts no later (console.c, row * VGA_BREITE).
LEMMA RowsInOrder ==
    ASSUME NEW a \in Nat, NEW b \in Nat, a <= b, NEW w \in Nat
    PROVE  a * w <= b * w /\ a * w \in Nat /\ b * w \in Nat
<1>1. b - a \in Nat /\ a \in Int /\ b \in Int /\ w \in Int
    OBVIOUS
<1>2. (b - a) * w \in Nat /\ a * w \in Nat /\ b * w \in Nat
    BY <1>1
<1>3. (b - a) * w = b * w - a * w
    BY <1>1, Multiples
<1>. QED
    BY <1>2, <1>3

\* The screen is its rows, each of them Width cells.
LEMMA ScreenSize ==
    /\ Width \in Nat /\ Width > 0 /\ Height \in Nat /\ LastRow \in Nat /\ Height = LastRow + 1
    /\ LastRow * Width \in Nat /\ Width * LastRow = LastRow * Width
    /\ Width * Height = LastRow * Width + Width
<1>1. Width \in Nat /\ Width > 0 /\ Height \in Nat /\ LastRow \in Nat /\ Height = LastRow + 1
    BY ScreenAssumption DEF LastRow
<1>2. LastRow * Width \in Nat /\ Width * LastRow = LastRow * Width
    BY <1>1
<1>3. Width * (LastRow + 1) = LastRow * Width + Width
    BY <1>1
<1>. QED
    BY <1>1, <1>2, <1>3

\* A position in the screen has a cell (vga_putchar_at, fb_console_putchar_at).
LEMMA HasCell ==
    ASSUME NEW row \in 0 .. LastRow, NEW col \in 0 .. Width - 1
    PROVE  row * Width + col \in Cells /\ row * Width \in Nat
<1>1. row * Width <= LastRow * Width /\ row * Width \in Nat
    BY ScreenSize, RowsInOrder
<1>. QED
    BY <1>1, ScreenSize DEF Cells

\* The row below starts one row later (console.c).
LEMMA NextRow ==
    ASSUME NEW row \in Nat
    PROVE  (row + 1) * Width = row * Width + Width /\ row * Width \in Nat
    BY ScreenSize

\* Moving the rows up leaves a console (vga_scroll, fb_console_scroll).
LEMMA ScrollType ==
    ASSUME NEW c \in Consoles
    PROVE  Scroll(c) \in Consoles /\ Scroll(c).fb = c.fb
<1>1. CASE c.row < Height
    BY <1>1 DEF Scroll
<1>2. CASE ~ (c.row < Height)
    <2>. DEFINE cell == [i \in Cells |->
                IF c.fb THEN c.cell[i] ELSE IF i < Width * LastRow THEN c.cell[i + Width] ELSE Space]
    <2>1. \A i \in Cells : i < Width * LastRow => i + Width \in Cells
        BY ScreenSize DEF Cells
    <2>2. cell \in [Cells -> Glyphs]
        <3>1. Space \in Glyphs
            BY DEF Glyphs
        <3>2. c.cell \in [Cells -> Glyphs]
            BY DEF Consoles
        <3>3. \A i \in Cells : cell[i] \in Glyphs
            BY <2>1, <3>1, <3>2
        <3>. QED
            BY <3>3
    <2>3. Scroll(c) = [c EXCEPT !.row = LastRow, !.over = c.fb, !.cell = cell]
        BY <1>2 DEF Scroll
    <2>. HIDE DEF cell
    <2>4. LastRow \in Int
        BY ScreenSize
    <2>. QED
        BY <2>2, <2>3, <2>4 DEF Consoles
<1>. QED
    BY <1>1, <1>2

\* console_scroll brings a position that left the screen back into it.
LEMMA ScrollFresh ==
    ASSUME NEW c \in Consoles, c.col \in 0 .. Width - 1, c.row \in 0 .. Height,
           Sound(c), c.row < Height => BlankFrom(c, At(c))
    PROVE  Fresh(Scroll(c))
<1>1. CASE c.row < Height
    <2>1. Scroll(c) = c /\ c.row \in 0 .. LastRow
        BY <1>1, ScreenSize DEF Scroll
    <2>. QED
        BY <1>1, <2>1 DEF Fresh, InScreen
<1>2. CASE ~ (c.row < Height)
    <2>. DEFINE cell == [i \in Cells |->
                IF c.fb THEN c.cell[i] ELSE IF i < Width * LastRow THEN c.cell[i + Width] ELSE Space]
                r == Scroll(c)
    <2>1. r = [c EXCEPT !.row = LastRow, !.over = c.fb, !.cell = cell]
        BY <1>2 DEF Scroll
    <2>2. r \in Consoles
        BY ScrollType
    <2>3. \A i \in Cells : c.fb = FALSE /\ i >= LastRow * Width => cell[i] = Space
        BY ScreenSize DEF Cells
    <2>. HIDE DEF cell, r
    <2>4. /\ r.row = LastRow /\ r.over = c.fb /\ r.fb = c.fb /\ r.cell = cell
          /\ r.col = c.col /\ r.off = c.off
        BY <2>1 DEF Consoles
    <2>5. InScreen(r)
        <3>1. Sound(r)
            BY <2>4, Zenon DEF Sound
        <3>2. r.col \in 0 .. Width - 1 /\ r.row \in 0 .. LastRow
            BY <2>4, ScreenSize
        <3>. QED
            BY <2>2, <3>1, <3>2 DEF InScreen
    <2>6. At(r) \in Int /\ At(r) >= LastRow * Width
        BY <2>4, ScreenSize DEF At
    <2>7. BlankFrom(r, At(r))
        BY <2>3, <2>4, <2>6, ScreenSize DEF BlankFrom, Cells
    <2>. QED
        BY <2>5, <2>7 DEF Fresh, r
<1>. QED
    BY <1>1, <1>2

\* The console with another position and other characters.
To(c, col, row, cell) == [c EXCEPT !.col = col, !.row = row, !.cell = cell]

\* A console that differs in its position and its characters only.
IsMoved(c, r, col, row, cell) ==
    /\ r \in Consoles /\ r.col = col /\ r.row = row /\ r.cell = cell
    /\ r.fb = c.fb /\ (Sound(c) => Sound(r))
    /\ c.off = r.off /\ c.over = r.over

\* console.c keeps its position in two variables of their own.
LEMMA Moved ==
    ASSUME NEW c \in Consoles, NEW col \in Int, NEW row \in Int, NEW cell \in [Cells -> Glyphs]
    PROVE  IsMoved(c, To(c, col, row, cell), col, row, cell)
<1>. DEFINE r == To(c, col, row, cell)
<1>1. /\ r \in Consoles /\ r.col = col /\ r.row = row /\ r.cell = cell
      /\ r.fb = c.fb /\ c.off = r.off /\ c.over = r.over
    BY DEF Consoles, To
<1>. HIDE DEF r
<1>2. Sound(c) => Sound(r)
    BY <1>1, Zenon DEF Sound
<1>. QED
    BY <1>1, <1>2 DEF IsMoved, r

\* The characters behind the one that is written.
Put(c, ch) == [c.cell EXCEPT ![At(c)] = ch]

\* console_putchar, when the position has a cell.
LEMMA PutCharIs ==
    ASSUME NEW c \in Consoles, At(c) \in Cells, NEW ch \in Glyphs
    PROVE  PutChar(c, ch) =
             IF ch = NewLine THEN Scroll(To(c, 0, c.row + 1, c.cell))
             ELSE IF c.col + 1 < Width THEN Scroll(To(c, c.col + 1, c.row, Put(c, ch)))
             ELSE Scroll(To(c, 0, c.row + 1, Put(c, ch)))
<1>. DEFINE cell == Put(c, ch)
            drawn == [c EXCEPT !.cell = cell]
            next == [drawn EXCEPT !.col = @ + 1]
<1>1. cell \in [Cells -> Glyphs]
    BY DEF Consoles, Put
<1>2. PutChar(c, ch) = IF ch = NewLine THEN Scroll([c EXCEPT !.col = 0, !.row = @ + 1])
                       ELSE Scroll(Wrap(next))
    <2>1. [c EXCEPT !.cell[At(c)] = ch] = drawn
        BY DEF Consoles, Put
    <2>2. (c.row * Width + c.col) = At(c)
        BY DEF At
    <2>. HIDE DEF drawn, cell
    <2>. QED
        BY <2>1, <2>2 DEF PutChar
<1>3. [c EXCEPT !.col = 0, !.row = @ + 1] = To(c, 0, c.row + 1, c.cell)
    BY DEF Consoles, To
<1>. HIDE DEF cell
<1>4. next = To(c, c.col + 1, c.row, cell) /\ next.col = c.col + 1
    BY <1>1 DEF Consoles, To
<1>5. [next EXCEPT !.col = 0, !.row = @ + 1] = To(c, 0, c.row + 1, cell)
    BY <1>1 DEF Consoles, To
<1>. HIDE DEF next
<1>6. Wrap(next) = IF c.col + 1 < Width THEN To(c, c.col + 1, c.row, cell)
                   ELSE To(c, 0, c.row + 1, cell)
    BY <1>4, <1>5 DEF Wrap
<1>. QED
    BY <1>2, <1>3, <1>6 DEF cell

\* A character goes into the cell of the position, if there is one.
LEMMA PutCharType ==
    ASSUME NEW c \in Consoles, NEW ch \in Glyphs
    PROVE  PutChar(c, ch) \in Consoles /\ PutChar(c, ch).fb = c.fb
<1>. DEFINE i == c.row * Width + c.col
            drawn == IF i \in Cells THEN [c EXCEPT !.cell[i] = ch] ELSE [c EXCEPT !.off = TRUE]
            next == [drawn EXCEPT !.col = @ + 1]
            wrapped == Wrap(next)
            line == [c EXCEPT !.col = 0, !.row = @ + 1]
<1>1. drawn \in Consoles /\ drawn.fb = c.fb
    <2>. HIDE DEF i
    <2>. QED
        BY DEF Consoles
<1>. HIDE DEF drawn
<1>2. next \in Consoles /\ next.fb = c.fb
    BY <1>1 DEF Consoles
<1>. HIDE DEF next
<1>3. ASSUME NEW d \in Consoles
      PROVE  [d EXCEPT !.col = 0, !.row = @ + 1] \in Consoles /\ [d EXCEPT !.col = 0, !.row = @ + 1].fb = d.fb
    <2>1. 0 \in Int /\ d.row + 1 \in Int /\ d.cell \in [Cells -> Glyphs]
        BY DEF Consoles
    <2>2. IsMoved(d, To(d, 0, d.row + 1, d.cell), 0, d.row + 1, d.cell)
        BY <2>1, Moved
    <2>3. [d EXCEPT !.col = 0, !.row = @ + 1] = To(d, 0, d.row + 1, d.cell)
        BY DEF Consoles, To
    <2>. QED
        BY <2>2, <2>3 DEF IsMoved
<1>4. wrapped \in Consoles /\ wrapped.fb = c.fb /\ line \in Consoles /\ line.fb = c.fb
    BY <1>2, <1>3 DEF Wrap
<1>. HIDE DEF wrapped, line
<1>5. PutChar(c, ch) = IF ch = NewLine THEN Scroll(line) ELSE Scroll(wrapped)
    BY DEF PutChar, drawn, next, wrapped, line
<1>. QED
    BY <1>4, <1>5, ScrollType

\* What console_putchar writes into the row it is in.
PutsInRow(c, ch, r) ==
    /\ IsMoved(c, r, c.col + 1, c.row, Put(c, ch)) /\ At(r) = At(c) + 1

\* A character that is not a newline goes into its cell, and the position moves by
\* one, as long as the row has another cell (console_putchar).
LEMMA PutInRow ==
    ASSUME NEW c \in Consoles, NEW ch \in Glyphs, ch # NewLine,
           c.row \in 0 .. LastRow, c.col \in 0 .. Width - 1, c.col + 1 < Width
    PROVE  PutsInRow(c, ch, PutChar(c, ch))
<1>1. At(c) \in Cells /\ c.row * Width \in Nat
    BY HasCell DEF At
<1>2. PICK r : r = To(c, c.col + 1, c.row, Put(c, ch))
    OBVIOUS
<1>3. IsMoved(c, r, c.col + 1, c.row, Put(c, ch))
    <2>1. c.col + 1 \in Int /\ c.row \in Int
        BY DEF Consoles
    <2>2. Put(c, ch) \in [Cells -> Glyphs]
        BY DEF Put, Consoles
    <2>. QED
        BY <1>2, <2>1, <2>2, Moved
<1>4. PutChar(c, ch) = Scroll(r)
    BY <1>1, <1>2, PutCharIs
<1>5. r.col = c.col + 1 /\ r.row = c.row
    BY <1>3 DEF IsMoved
<1>6. Scroll(r) = r
    BY <1>5, ScreenSize DEF Scroll
<1>7. At(r) = At(c) + 1
    <2>1. c.row * Width \in Int /\ c.col \in Int
        BY <1>1
    <2>. QED
        BY <1>5, <2>1 DEF At
<1>. QED
    BY <1>3, <1>4, <1>6, <1>7 DEF PutsInRow

\* Behind the position there stays nothing (console_putchar, with the end of the row
\* and the scrolling).
LEMMA PutCharFresh ==
    ASSUME NEW c, Fresh(c), NEW ch \in Glyphs
    PROVE  Fresh(PutChar(c, ch))
<1>0. /\ c \in Consoles /\ c.col \in 0 .. Width - 1 /\ c.row \in 0 .. LastRow
      /\ Sound(c) /\ BlankFrom(c, At(c))
    BY DEF Fresh, InScreen
<1>1. At(c) \in Cells /\ c.row * Width \in Nat
    BY <1>0, HasCell DEF At
<1>2. /\ Width \in Nat /\ Width > 0 /\ LastRow \in Nat /\ Height = LastRow + 1
      /\ (c.row + 1) * Width = c.row * Width + Width
    BY <1>0, ScreenSize, NextRow
<1>3. /\ c.cell \in [Cells -> Glyphs] /\ Put(c, ch) \in [Cells -> Glyphs]
      /\ \A i \in Cells : i # At(c) => Put(c, ch)[i] = c.cell[i]
    BY <1>0, <1>1 DEF Consoles, Put
<1>4. ASSUME NEW cell \in [Cells -> Glyphs], NEW col \in 0 .. Width - 1, NEW row \in 0 .. Height,
             row * Width + col >= At(c) + 1,
             \A i \in Cells : i # At(c) => cell[i] = c.cell[i]
      PROVE  Fresh(Scroll(To(c, col, row, cell)))
    <2>1. PICK r : r = To(c, col, row, cell)
        OBVIOUS
    <2>2. col \in Int /\ row \in Int
        OBVIOUS
    <2>3. IsMoved(c, r, col, row, cell)
        BY ONLY <1>0, <2>1, <2>2, cell \in [Cells -> Glyphs], Moved
    <2>4. /\ r \in Consoles /\ r.col = col /\ r.row = row /\ r.cell = cell
          /\ Sound(r) /\ r.over = c.over
        BY ONLY <1>0, <2>3 DEF IsMoved
    <2>5. At(r) >= At(c) + 1
        BY <1>4, <2>4 DEF At
    <2>6. BlankFrom(r, At(r))
        <3>1. At(r) \in Int /\ At(c) \in Int
            <4>1. r.row * Width \in Int /\ r.col \in Int
                BY <1>2, <2>2, <2>4
            <4>. QED
                BY <1>1, <4>1 DEF At, Cells
        <3>2. \A i \in Cells : i >= At(r) => i >= At(c) /\ i # At(c)
            BY <1>2, <2>5, <3>1, ScreenSize DEF Cells
        <3>3. r.over = FALSE => \A i \in Cells : i >= At(c) => c.cell[i] = Space
            BY ONLY <1>0, <2>4 DEF BlankFrom
        <3>. QED
            BY <1>4, <2>4, <3>2, <3>3 DEF BlankFrom
    <2>7. r.col \in 0 .. Width - 1 /\ r.row \in 0 .. Height
        BY <2>4
    <2>8. Fresh(Scroll(r))
        BY ONLY <2>4, <2>6, <2>7, ScrollFresh
    <2>. QED
        BY <2>1, <2>8
<1>5. /\ 0 \in 0 .. Width - 1 /\ c.row + 1 \in 0 .. Height /\ c.row \in 0 .. Height
      /\ (c.row + 1) * Width + 0 >= At(c) + 1
      /\ c.col + 1 < Width => c.col + 1 \in 0 .. Width - 1 /\ c.row * Width + (c.col + 1) >= At(c) + 1
    BY <1>0, <1>1, <1>2 DEF At
<1>6. Fresh(Scroll(To(c, 0, c.row + 1, c.cell)))
    BY <1>3, <1>4, <1>5
<1>7. Fresh(Scroll(To(c, 0, c.row + 1, Put(c, ch))))
    BY <1>3, <1>4, <1>5
<1>8. c.col + 1 < Width => Fresh(Scroll(To(c, c.col + 1, c.row, Put(c, ch))))
    BY <1>3, <1>4, <1>5
<1>9. PutChar(c, ch) =
             IF ch = NewLine THEN Scroll(To(c, 0, c.row + 1, c.cell))
             ELSE IF c.col + 1 < Width THEN Scroll(To(c, c.col + 1, c.row, Put(c, ch)))
             ELSE Scroll(To(c, 0, c.row + 1, Put(c, ch)))
    BY ONLY <1>0, <1>1, ch \in Glyphs, PutCharIs
<1>. QED
    BY <1>6, <1>7, <1>8, <1>9

-----------------------------------------------------------------------------
(* Printing.                                                                *)

\* The consoles after so many characters (console_print).
Printed(c, s, a) ==
    /\ a[0] = c /\ \A n \in 0 .. Len(s) : a[n] \in Consoles
    /\ \A n \in 1 .. Len(s) : a[n] = PutChar(a[n - 1], s[n])

\* console_print prints a text of any length.
LEMMA PrintThere ==
    ASSUME NEW c \in Consoles, NEW s \in Seq(Glyphs)
    PROVE  \E a : Printed(c, s, a) /\ PrintText(c, s) = a[Len(s)]
<1>. DEFINE N == Len(s)
            G == [n \in Int |-> [d \in Consoles |-> IF n \in 1 .. N THEN PutChar(d, s[n]) ELSE d]]
            Eq(a) == a = [n \in 0 .. N |-> IF n = 0 THEN c ELSE PutChar(a[n - 1], s[n])]
<1>0. N \in Nat /\ 0 \in Int /\ N \in Int /\ 0 <= N /\ \A n \in 1 .. N : s[n] \in Glyphs
    <2>1. N \in Nat /\ \A n \in 1 .. N : s[n] \in Glyphs
        BY LenProperties, ElementOfSeq
    <2>. QED
        BY <2>1
<1>. HIDE DEF N
<1>1. ASSUME NEW d \in Consoles, NEW n \in 1 .. N PROVE PutChar(d, s[n]) \in Consoles
    BY <1>0, PutCharType
<1>2. G \in [Int -> [Consoles -> Consoles]]
    BY <1>1
<1>. HIDE DEF G
<1>3. PICK r \in [0 .. N -> Consoles] :
          r[0] = c /\ \A n \in 1 .. N : r[n] = PutChar(r[n - 1], s[n])
    <2>1. PICK g \in [Int -> [Consoles -> Consoles]] : g = G
        BY <1>2, Zenon
    <2>2. PICK r \in [0 .. N -> Consoles] : Goes(r, 0, N, c, g)
        BY ONLY <1>0, c \in Consoles, Recursion
    <2>3. \A n \in 1 .. N : n \in Int /\ n \in 0 + 1 .. N /\ r[n - 1] \in Consoles
        BY <1>0
    <2>4. \A n \in 1 .. N : G[n][r[n - 1]] = PutChar(r[n - 1], s[n])
        BY <2>3 DEF G
    <2>. QED
        BY <2>1, <2>2, <2>3, <2>4 DEF Goes
<1>4. Eq(r)
    BY <1>0, <1>3
<1>5. PICK a : Eq(a) /\ PrintText(c, s) = a[N]
    BY <1>4, Zenon DEF PrintText, N
<1>6. a[0] = c /\ \A n \in 1 .. N : a[n] = PutChar(a[n - 1], s[n])
    BY <1>0, <1>5
<1>7. \A n \in 0 .. N : a[n] \in Consoles
    <2>1. ASSUME NEW n \in 0 + 1 .. N, a[n - 1] \in Consoles PROVE a[n] \in Consoles
        <3>1. n \in 1 .. N
            OBVIOUS
        <3>. HIDE DEF Eq
        <3>. QED
            BY <1>1, <1>6, <2>1, <3>1
    <2>2. \A n \in 0 + 1 .. N : a[n - 1] \in Consoles => a[n] \in Consoles
        BY <2>1
    <2>3. a[0] \in Consoles
        BY <1>6
    <2>. QED
        BY ONLY <1>0, <2>2, <2>3, Climbs
<1>. QED
    BY <1>5, <1>6, <1>7, Zenon DEF Printed, N

\* Printing leaves a console.
LEMMA PrintTextType ==
    ASSUME NEW c \in Consoles, NEW s \in Seq(Glyphs)
    PROVE  PrintText(c, s) \in Consoles
<1>1. PICK a : Printed(c, s, a) /\ PrintText(c, s) = a[Len(s)]
    BY PrintThere
<1>2. Len(s) \in 0 .. Len(s)
    BY LenProperties
<1>. QED
    BY <1>1, <1>2 DEF Printed

\* However much is printed, there is nothing behind it.
LEMMA PrintTextFresh ==
    ASSUME NEW c, Fresh(c), NEW s \in Seq(Glyphs)
    PROVE  Fresh(PrintText(c, s))
<1>1. PICK a : Printed(c, s, a) /\ PrintText(c, s) = a[Len(s)]
    BY PrintThere DEF Fresh, InScreen
<1>2. PICK l : l = Len(s)
    OBVIOUS
<1>3. l \in Nat /\ 0 \in Int /\ l \in Int /\ l \in 0 .. l /\ \A n \in 1 .. l : s[n] \in Glyphs
    <2>1. l \in Nat /\ \A n \in 1 .. l : s[n] \in Glyphs
        BY <1>2, LenProperties, ElementOfSeq
    <2>. QED
        BY <2>1
<1>. DEFINE S == {n \in 0 .. l : Fresh(a[n])}
<1>4. 0 \in S
    BY <1>1, <1>3 DEF Printed
<1>5. ASSUME NEW n \in 0 + 1 .. l, n - 1 \in S PROVE n \in S
    <2>1. n \in 1 .. l /\ n \in 0 .. l
        BY <1>3
    <2>2. a[n] = PutChar(a[n - 1], s[n])
        BY <1>1, <1>2, <2>1 DEF Printed
    <2>. QED
        BY <1>3, <1>5, <2>1, <2>2, PutCharFresh
<1>6. \A n \in 0 + 1 .. l : n - 1 \in S => n \in S
    BY <1>5
<1>7. l \in S
    <2>. HIDE DEF S
    <2>1. \A n \in 0 .. l : n \in S
        BY ONLY <1>3, <1>4, <1>6, Counting
    <2>. QED
        BY <1>3, <2>1
<1>. QED
    BY <1>1, <1>2, <1>7

\* The first n characters of text s stand from the position on, and the rest is as
\* it was.
Wrote(c, r, s, n) ==
    /\ r \in Consoles /\ r.col = c.col + n /\ r.row = c.row /\ At(r) = At(c) + n
    /\ (Sound(c) => Sound(r)) /\ r.over = c.over
    /\ \A i \in Cells : r.cell[i] = IF At(c) <= i /\ i < At(c) + n THEN s[i - At(c) + 1]
                                    ELSE c.cell[i]

\* Texts without newlines.
Plain == {s \in Seq(Glyphs) : \A i \in 1 .. Len(s) : s[i] # NewLine}

\* A text that fits into its row is written there.
LEMMA PrintInRow ==
    ASSUME NEW c \in Consoles, c.row \in 0 .. LastRow, c.col \in 0 .. Width - 1,
           NEW s \in Plain, c.col + Len(s) < Width
    PROVE  Wrote(c, PrintText(c, s), s, Len(s))
<1>0. s \in Seq(Glyphs)
    BY DEF Plain
<1>1. PICK a : Printed(c, s, a) /\ PrintText(c, s) = a[Len(s)]
    BY <1>0, PrintThere
<1>2. PICK l : l = Len(s)
    OBVIOUS
<1>3. /\ l \in Nat /\ 0 \in Int /\ l \in Int /\ l \in 0 .. l
      /\ \A n \in 1 .. l : s[n] \in Glyphs /\ s[n] # NewLine
    <2>1. l \in Nat /\ \A n \in 1 .. l : s[n] \in Glyphs /\ s[n] # NewLine
        BY <1>0, <1>2, LenProperties, ElementOfSeq DEF Plain
    <2>. QED
        BY <2>1
<1>4. At(c) \in Cells /\ At(c) \in Int
    <2>1. At(c) \in Cells
        BY HasCell DEF At
    <2>. QED
        BY <2>1 DEF Cells
<1>. DEFINE S == {n \in 0 .. l : Wrote(c, a[n], s, n)}
<1>5. 0 \in S
    <2>1. a[0] = c
        BY <1>1 DEF Printed
    <2>2. c.col = c.col + 0 /\ At(c) = At(c) + 0 /\ \A i \in Cells : ~ (At(c) <= i /\ i < At(c) + 0)
        BY <1>4, ScreenSize DEF Cells
    <2>3. Wrote(c, c, s, 0)
        BY ONLY <2>2, c \in Consoles DEF Wrote
    <2>. QED
        BY <1>3, <2>1, <2>3
<1>6. ASSUME NEW n \in 0 + 1 .. l, n - 1 \in S PROVE n \in S
    <2>1. n \in 1 .. l /\ n \in 0 .. l
        BY <1>3
    <2>2. PICK d : d = a[n - 1]
        OBVIOUS
    <2>3. PICK m : m = n - 1
        OBVIOUS
    <2>4. Wrote(c, d, s, m)
        BY <1>6, <2>2, <2>3
    <2>5. /\ d \in Consoles /\ d.col = c.col + m /\ d.row = c.row /\ At(d) = At(c) + m
          /\ (Sound(c) => Sound(d)) /\ d.over = c.over
          /\ \A i \in Cells : d.cell[i] = IF At(c) <= i /\ i < At(c) + m THEN s[i - At(c) + 1]
                                          ELSE c.cell[i]
        BY ONLY <2>4 DEF Wrote
    <2>6. PICK r : r = a[n]
        OBVIOUS
    <2>7. r = PutChar(d, s[n])
        BY <1>1, <1>2, <2>1, <2>2, <2>6 DEF Printed
    <2>8. /\ d.row \in 0 .. LastRow /\ d.col \in 0 .. Width - 1 /\ d.col + 1 < Width
          /\ s[n] \in Glyphs /\ s[n] # NewLine
        <3>1. PICK x : x = c.col
            OBVIOUS
        <3>2. x \in 0 .. Width - 1 /\ Width \in Nat /\ x + l < Width /\ d.col = x + m
            BY <1>2, <2>5, <3>1, ScreenSize
        <3>3. m \in Int /\ 0 <= m /\ m + 1 <= l /\ l \in Nat
            BY <1>3, <2>1, <2>3
        <3>4. d.col \in 0 .. Width - 1 /\ d.col + 1 < Width
            BY ONLY <3>2, <3>3
        <3>. QED
            BY <1>3, <2>1, <2>5, <3>4
    <2>9. PutsInRow(d, s[n], r)
        BY ONLY <2>5, <2>7, <2>8, PutInRow
    <2>10. /\ r \in Consoles /\ r.col = d.col + 1 /\ r.row = d.row /\ At(r) = At(d) + 1
           /\ (Sound(d) => Sound(r)) /\ r.over = d.over /\ r.cell = Put(d, s[n])
        BY ONLY <2>9 DEF PutsInRow, IsMoved
    <2>11. \A i \in Cells : r.cell[i] = IF i = At(d) THEN s[n] ELSE d.cell[i]
        <3>1. d.cell \in [Cells -> Glyphs]
            BY <2>5 DEF Consoles
        <3>. QED
            BY <2>10, <3>1 DEF Put
    <2>12. r.col = c.col + n /\ At(r) = At(c) + n
        <3>1. c.col \in Int
            BY DEF Consoles
        <3>. QED
            BY <1>4, <2>1, <2>3, <2>5, <2>10, <3>1
    <2>13. \A i \in Cells : r.cell[i] = IF At(c) <= i /\ i < At(c) + n THEN s[i - At(c) + 1]
                                        ELSE c.cell[i]
        <3>. SUFFICES ASSUME NEW i \in Cells
                      PROVE  r.cell[i] = IF At(c) <= i /\ i < At(c) + n THEN s[i - At(c) + 1]
                                         ELSE c.cell[i]
            OBVIOUS
        <3>1. i \in Int
            BY ScreenSize DEF Cells
        <3>2. CASE i = At(d)
            <4>1. At(c) <= i /\ i < At(c) + n /\ i - At(c) + 1 = n
                BY <1>4, <2>1, <2>3, <2>5, <3>2
            <4>. QED
                BY <2>11, <3>2, <4>1
        <3>3. CASE i # At(d)
            <4>1. (At(c) <= i /\ i < At(c) + n) <=> (At(c) <= i /\ i < At(c) + m)
                BY <1>4, <2>1, <2>3, <2>5, <3>1, <3>3
            <4>2. r.cell[i] = d.cell[i]
                BY <2>11, <3>3
            <4>. QED
                BY <2>5, <4>1, <4>2
        <3>. QED
            BY <3>2, <3>3
    <2>14. Wrote(c, r, s, n)
        BY ONLY <2>5, <2>10, <2>12, <2>13 DEF Wrote
    <2>. QED
        BY <2>1, <2>6, <2>14
<1>7. l \in S
    <2>1. \A n \in 0 + 1 .. l : n - 1 \in S => n \in S
        BY <1>6
    <2>. HIDE DEF S
    <2>2. \A n \in 0 .. l : n \in S
        BY ONLY <1>3, <1>5, <2>1, Counting
    <2>. QED
        BY <1>3, <2>2
<1>. QED
    BY <1>1, <1>2, <1>7

-----------------------------------------------------------------------------
(* The image of the line.                                                   *)

\* The character k places behind the prompt.
Image(line, k) == IF k < Len(line) THEN line[k + 1] ELSE Space

\* From cell p on there stand the line and blanks, unless the framebuffer has lost
\* rows.
Holds(c, p, line) ==
    c.over = FALSE => \A i \in Cells : i >= p => c.cell[i] = Image(line, i - p)

\* The line fits into its row behind prompt p, is shown there, and the cursor is at
\* its n-th character.
OnScreen(c, p, line, n) ==
    /\ p[1] \in Nat /\ p[2] \in 0 .. LastRow /\ p[1] + Len(line) < Width
    /\ c.row = p[2] /\ c.col = p[1] + n /\ Sound(c)
    /\ Holds(c, p[2] * Width + p[1], line)

\* What is drawn makes the image of the new line from the one of the old.
Patches(old, from, text, new) ==
    \A k \in Nat : Image(new, k) = IF from <= k /\ k < from + Len(text) THEN text[k - from + 1]
                                   ELSE Image(old, k)

\* A position may be set to any value (console_set_pos).
LEMMA SetPosType ==
    ASSUME NEW c \in Consoles, NEW col \in Int, NEW row \in Int
    PROVE  SetPos(c, col, row) \in Consoles
<1>. DEFINE x == IF c.fb /\ col >= Width THEN c.col ELSE col
            y == IF c.fb /\ row >= Height THEN c.row ELSE row
<1>1. x \in Int /\ y \in Int
    BY DEF Consoles
<1>2. SetPos(c, col, row) = [c EXCEPT !.col = x, !.row = y]
    BY DEF SetPos, Consoles
<1>. HIDE DEF x, y
<1>. QED
    BY <1>1, <1>2 DEF Consoles

\* A position in the screen is the one that is set (console_set_pos).
LEMMA SetPosIs ==
    ASSUME NEW c \in Consoles, NEW col \in 0 .. Width - 1, NEW row \in 0 .. LastRow
    PROVE  IsMoved(c, SetPos(c, col, row), col, row, c.cell)
<1>1. col \in Int /\ row \in Int /\ ~ (col >= Width) /\ ~ (row >= Height)
    BY ScreenSize
<1>2. SetPos(c, col, row) = [c EXCEPT !.col = col, !.row = row]
    BY <1>1 DEF SetPos, Consoles
<1>3. [c EXCEPT !.col = col, !.row = row] = To(c, col, row, c.cell) /\ c.cell \in [Cells -> Glyphs]
    BY <1>1 DEF Consoles, To
<1>. QED
    BY <1>1, <1>2, <1>3, Moved

\* Drawing part of the line again shows all of the new line (shell_run: set the
\* position, print, set the position).
LEMMA Drawn ==
    ASSUME NEW c \in Consoles, NEW p, NEW old \in Seq(Glyphs), NEW n, OnScreen(c, p, old, n),
           NEW from \in Nat, NEW text \in Plain, p[1] + from + Len(text) < Width,
           NEW new \in Seq(Glyphs), p[1] + Len(new) < Width, NEW pos \in 0 .. Len(new),
           Patches(old, from, text, new)
    PROVE  OnScreen(SetPos(PrintText(SetPos(c, p[1] + from, p[2]), text), p[1] + pos, p[2]),
                    p, new, pos)
<1>. DEFINE start == p[2] * Width + p[1]
<1>0. /\ p[1] \in Nat /\ p[2] \in 0 .. LastRow /\ p[1] + Len(old) < Width
      /\ c.row = p[2] /\ c.col = p[1] + n /\ Sound(c) /\ Holds(c, start, old)
    BY DEF OnScreen
<1>1. /\ Len(text) \in Nat /\ Len(new) \in Nat /\ Width \in Nat
      /\ p[1] + from \in 0 .. Width - 1 /\ p[1] + pos \in 0 .. Width - 1
      /\ p[1] + pos \in Int /\ p[1] \in 0 .. Width - 1
    <2>1. Len(text) \in Nat /\ Len(new) \in Nat /\ Width \in Nat
        BY ScreenSize, LenProperties DEF Plain
    <2>2. PICK x : x = p[1]
        OBVIOUS
    <2>3. PICK l : l = Len(text)
        OBVIOUS
    <2>4. PICK m : m = Len(new)
        OBVIOUS
    <2>5. /\ x \in Nat /\ l \in Nat /\ m \in Nat /\ Width \in Nat
          /\ x + from + l < Width /\ x + m < Width /\ pos \in 0 .. m
        BY <1>0, <2>1, <2>2, <2>3, <2>4
    <2>6. /\ x + from \in 0 .. Width - 1 /\ x + pos \in 0 .. Width - 1
          /\ x + pos \in Int /\ x \in 0 .. Width - 1
        BY ONLY <2>5, from \in Nat
    <2>. QED
        BY ONLY <2>1, <2>2, <2>6
<1>2. PICK d : d = SetPos(c, p[1] + from, p[2])
    OBVIOUS
<1>3. /\ d \in Consoles /\ d.col = p[1] + from /\ d.row = p[2] /\ d.cell = c.cell
      /\ Sound(d) /\ d.over = c.over
    <2>1. IsMoved(c, d, p[1] + from, p[2], c.cell)
        BY <1>0, <1>1, <1>2, SetPosIs
    <2>. QED
        BY ONLY <1>0, <2>1 DEF IsMoved
<1>4. PICK e : e = PrintText(d, text)
    OBVIOUS
<1>5. /\ e \in Consoles /\ Sound(e) /\ e.over = d.over
      /\ \A i \in Cells : e.cell[i] = IF At(d) <= i /\ i < At(d) + Len(text)
                                      THEN text[i - At(d) + 1] ELSE d.cell[i]
    <2>1. d.row \in 0 .. LastRow /\ d.col \in 0 .. Width - 1 /\ d.col + Len(text) < Width
        BY <1>0, <1>1, <1>3
    <2>2. Wrote(d, e, text, Len(text))
        BY ONLY <1>3, <1>4, <2>1, text \in Plain, PrintInRow
    <2>. QED
        BY ONLY <1>3, <2>2 DEF Wrote
<1>6. PICK r : r = SetPos(e, p[1] + pos, p[2])
    OBVIOUS
<1>7. /\ r.col = p[1] + pos /\ r.row = p[2] /\ r.cell = e.cell
      /\ Sound(r) /\ r.over = e.over
    <2>1. IsMoved(e, r, p[1] + pos, p[2], e.cell)
        <3>1. PICK col \in 0 .. Width - 1, row \in 0 .. LastRow : col = p[1] + pos /\ row = p[2]
            BY <1>0, <1>1
        <3>2. IsMoved(e, SetPos(e, col, row), col, row, e.cell)
            BY ONLY <1>5, SetPosIs
        <3>. QED
            BY ONLY <1>6, <3>1, <3>2
    <2>. QED
        BY ONLY <1>5, <2>1 DEF IsMoved
<1>8. start \in Nat /\ At(d) = start + from
    <2>1. PICK a \in Nat, x \in Nat : a = p[2] * Width /\ x = p[1]
        BY <1>0, <1>1, HasCell
    <2>2. At(d) = a + (x + from)
        BY ONLY <1>3, <2>1 DEF At
    <2>3. start = a + x
        BY ONLY <2>1
    <2>. HIDE DEF start
    <2>. QED
        BY ONLY <2>2, <2>3, from \in Nat
<1>9. Holds(r, start, new)
    <2>. SUFFICES ASSUME r.over = FALSE, NEW i \in Cells, i >= start
                  PROVE  r.cell[i] = Image(new, i - start)
        BY DEF Holds
    <2>1. c.cell[i] = Image(old, i - start)
        BY <1>0, <1>3, <1>5, <1>7 DEF Holds
    <2>2. PICK k : k = i - start
        OBVIOUS
    <2>. HIDE DEF start
    <2>3. /\ i \in Int /\ k \in Nat
          /\ (At(d) <= i /\ i < At(d) + Len(text)) <=> (from <= k /\ k < from + Len(text))
          /\ i - At(d) + 1 = k - from + 1
        BY <1>1, <1>8, <2>2, ScreenSize DEF Cells
    <2>4. Image(new, k) = IF from <= k /\ k < from + Len(text) THEN text[k - from + 1]
                          ELSE Image(old, k)
        BY <2>3 DEF Patches
    <2>5. r.cell[i] = IF from <= k /\ k < from + Len(text) THEN text[k - from + 1] ELSE c.cell[i]
        BY <1>3, <1>5, <1>7, <2>3
    <2>. QED
        BY <2>1, <2>2, <2>4, <2>5
<1>. QED
    BY <1>0, <1>2, <1>4, <1>6, <1>7, <1>9 DEF OnScreen

\* What is typed are no newlines.
LEMMA CharsArePlain ==
    ASSUME NEW s \in Seq(Chars)
    PROVE  s \in Plain /\ s \in Seq(Glyphs)
<1>1. Len(s) \in Nat /\ \A i \in 1 .. Len(s) : s[i] \in Chars
    BY LenProperties, ElementOfSeq
<1>2. \A x \in Chars : x \in Glyphs /\ x # NewLine
    BY ShellAssumption DEF Glyphs
<1>3. s \in [1 .. Len(s) -> Glyphs]
    <2>1. s \in [1 .. Len(s) -> Chars]
        BY LenProperties
    <2>. QED
        BY <1>2, <2>1
<1>4. s \in Seq(Glyphs)
    BY <1>1, <1>3, SeqDef
<1>. QED
    BY <1>1, <1>2, <1>4 DEF Plain

\* What the program prints can be printed.
LEMMA TextsArePrinted ==
    ASSUME NEW s \in Seq(STRING)
    PROVE  s \in Seq(Glyphs)
<1>1. Len(s) \in Nat /\ s \in [1 .. Len(s) -> STRING]
    BY LenProperties
<1>2. s \in [1 .. Len(s) -> Glyphs]
    BY <1>1 DEF Glyphs
<1>. QED
    BY <1>1, <1>2, SeqDef

\* What is behind n characters of a text (shell_run, the characters behind the
\* cursor).
LEMMA Rest ==
    ASSUME NEW s \in Seq(Chars), NEW n \in 0 .. Len(s)
    PROVE  \A j \in 1 .. Len(s) - n : From(s, n)[j] = s[n + j]
<1>1. Len(s) \in Nat
    OBVIOUS
<1>. QED
    BY <1>1, SubSeqProperties DEF From

\* The line after a key, and what is drawn of it from column from on.
Redraws(old, from, text, new) ==
    /\ new \in Seq(Chars) /\ text \in Plain /\ from \in Nat
    /\ Patches(old, from, text, new)

\* A character that is typed: what is behind it is drawn again, the characters before
\* it are on the screen (shell_run).
LEMMA TypeRedraws ==
    ASSUME NEW old \in Seq(Chars), NEW n \in 0 .. Len(old), NEW ch \in Chars,
           NEW new, new = Before(old, n) \o <<ch>> \o From(old, n)
    PROVE  /\ Redraws(old, n, From(new, n), new)
           /\ n + Len(From(new, n)) = Len(new) /\ n + 1 \in 0 .. Len(new)
<1>. DEFINE a == Before(old, n)
            b == From(old, n)
            l == Len(old)
            m == l + 1
<1>0. l \in Nat
    OBVIOUS
<1>1. a \in Seq(Chars) /\ Len(a) = n /\ b \in Seq(Chars) /\ Len(b) = l - n
    BY Parts
<1>2. \A i \in 1 .. n : a[i] = old[i]
    BY <1>0, SubSeqProperties DEF Before
<1>. HIDE DEF a, b
<1>3. <<ch>> \in Seq(Chars) /\ Len(<<ch>>) = 1
    OBVIOUS
<1>4. PICK u : u = a \o <<ch>>
    OBVIOUS
<1>5. u \in Seq(Chars) /\ Len(u) = n + 1 /\ \A i \in 1 .. n : u[i] = a[i]
    BY <1>1, <1>3, <1>4, ConcatProperties
<1>6. new = u \o b
    BY <1>4 DEF a, b
<1>7. new \in Seq(Chars) /\ Len(new) = m /\ \A i \in 1 .. n : new[i] = old[i]
    <2>1. new \in Seq(Chars) /\ Len(new) = (n + 1) + (l - n)
          /\ \A i \in 1 .. n + 1 : new[i] = u[i]
        <3>1. /\ u \o b \in Seq(Chars) /\ Len(u \o b) = Len(u) + Len(b)
              /\ \A i \in 1 .. Len(u) + Len(b) : (u \o b)[i] = IF i <= Len(u) THEN u[i] ELSE b[i - Len(u)]
            BY ONLY <1>1, <1>5, ConcatProperties
        <3>2. \A i \in 1 .. n + 1 : i \in 1 .. (n + 1) + (l - n) /\ i <= n + 1
            BY <1>0
        <3>. QED
            BY ONLY <1>1, <1>5, <1>6, <3>1, <3>2
    <2>2. (n + 1) + (l - n) = m /\ \A i \in 1 .. n : i \in 1 .. n + 1
        BY <1>0
    <2>. QED
        BY <1>2, <1>5, <2>1, <2>2
<1>8. n \in 0 .. Len(new) /\ m \in Nat
    BY <1>0, <1>7
<1>9. PICK t : t = From(new, n)
    OBVIOUS
<1>10. t \in Seq(Chars) /\ Len(t) = m - n /\ \A j \in 1 .. m - n : t[j] = new[n + j]
    <2>1. t \in Seq(Chars) /\ Len(t) = Len(new) - n
        BY ONLY <1>7, <1>8, <1>9, Parts
    <2>2. \A j \in 1 .. Len(new) - n : t[j] = new[n + j]
        BY ONLY <1>7, <1>8, <1>9, Rest
    <2>. QED
        BY <1>7, <2>1, <2>2
<1>11. t \in Plain
    BY <1>10, CharsArePlain
<1>12. Patches(old, n, t, new)
    <2>. SUFFICES ASSUME NEW k \in Nat
                  PROVE  Image(new, k) = IF n <= k /\ k < n + Len(t) THEN t[k - n + 1]
                                         ELSE Image(old, k)
        BY DEF Patches
    <2>1. n + Len(t) = m /\ n <= l
        BY <1>0, <1>8, <1>10
    <2>2. CASE k < n
        <3>1. ~ (n <= k) /\ k < l /\ k < m /\ k + 1 \in 1 .. n
            BY <1>0, <2>1, <2>2
        <3>. QED
            BY <1>7, <3>1 DEF Image
    <2>3. CASE n <= k /\ k < m
        <3>1. k - n + 1 \in 1 .. m - n /\ n + (k - n + 1) = k + 1
            BY <1>0, <2>3
        <3>2. t[k - n + 1] = new[k + 1]
            BY <1>10, <3>1
        <3>3. k < Len(new) /\ k < n + Len(t)
            BY <1>7, <2>1, <2>3
        <3>. QED
            BY <2>3, <3>2, <3>3 DEF Image
    <2>4. CASE ~ (k < m)
        <3>1. ~ (k < l)
            BY <1>0, <2>4
        <3>. QED
            BY <1>7, <2>1, <2>4, <3>1 DEF Image
    <2>. QED
        BY <1>0, <2>2, <2>3, <2>4
<1>13. n + Len(t) = Len(new) /\ n + 1 \in 0 .. Len(new)
    BY <1>0, <1>7, <1>10
<1>. QED
    BY <1>7, <1>9, <1>11, <1>12, <1>13 DEF Redraws

\* A line that became shorter: all of it is drawn again, and a blank over its last
\* character (shell_run, backspace).
LEMMA EraseRedraws ==
    ASSUME NEW old \in Seq(Chars), NEW new \in Seq(Chars), Len(new) = Len(old) - 1
    PROVE  Redraws(old, 0, Append(new, Space), new) /\ Len(Append(new, Space)) = Len(old)
<1>. DEFINE l == Len(new)
            t == Append(new, Space)
<1>1. l \in Nat /\ Len(old) = l + 1
    <2>1. l \in Nat /\ Len(old) \in Nat
        OBVIOUS
    <2>. QED
        BY <2>1
<1>2. new \in Plain /\ new \in Seq(Glyphs) /\ Space \in Glyphs /\ Space # NewLine
    BY CharsArePlain DEF Glyphs, Space, NewLine
<1>3. /\ t \in Seq(Glyphs) /\ Len(t) = l + 1 /\ t[l + 1] = Space
      /\ \A i \in 1 .. l : t[i] = new[i]
    BY <1>2, AppendProperties
<1>. HIDE DEF t
<1>4. t \in Plain
    <2>1. \A i \in 1 .. l + 1 : i = l + 1 \/ i \in 1 .. l
        BY <1>1
    <2>. QED
        BY <1>2, <1>3, <2>1 DEF Plain
<1>5. Patches(old, 0, t, new)
    <2>. SUFFICES ASSUME NEW k \in Nat
                  PROVE  Image(new, k) = IF 0 <= k /\ k < 0 + Len(t) THEN t[k - 0 + 1]
                                         ELSE Image(old, k)
        BY DEF Patches
    <2>1. 0 <= k /\ 0 + Len(t) = l + 1 /\ k - 0 + 1 = k + 1
        BY <1>1, <1>3
    <2>2. CASE k < l
        <3>1. k + 1 \in 1 .. l /\ k < l + 1
            BY <1>1, <2>2
        <3>. QED
            BY <1>3, <2>1, <2>2, <3>1 DEF Image
    <2>3. CASE k = l
        <3>1. ~ (k < l) /\ k < l + 1
            BY <1>1, <2>3
        <3>. QED
            BY <1>3, <2>1, <2>3, <3>1 DEF Image
    <2>4. CASE k > l
        <3>1. ~ (k < l) /\ ~ (k < l + 1)
            BY <1>1, <2>4
        <3>. QED
            BY <1>1, <2>1, <3>1 DEF Image
    <2>. QED
        BY <1>1, <2>2, <2>3, <2>4
<1>. QED
    BY <1>1, <1>3, <1>4, <1>5 DEF Redraws, t

\* A line from the history: it is drawn with the blanks behind it, which cover the
\* line it replaces (shell_run, KEY_UP and KEY_DOWN).
LEMMA RecallRedraws ==
    ASSUME NEW old \in Seq(Chars), NEW new \in Seq(Chars), Len(old) <= Longer(Pad, Len(new)),
           NEW text, text = new \o Blanks(Longer(Pad - Len(new), 0))
    PROVE  Redraws(old, 0, text, new) /\ Len(text) = Longer(Pad, Len(new))
<1>. DEFINE l == Len(new)
            n == Longer(Pad - l, 0)
            b == Blanks(n)
            m == Longer(Pad, l)
<1>1. l \in Nat /\ n \in Nat /\ m \in Nat /\ l + n = m /\ Len(old) \in Nat
    <2>1. l \in Nat /\ Pad \in Nat /\ Len(old) \in Nat
        BY ShellAssumption
    <2>. HIDE DEF l
    <2>. QED
        BY <2>1 DEF Longer
<1>2. new \in Plain /\ new \in Seq(Glyphs) /\ Space \in Glyphs /\ Space # NewLine
    BY CharsArePlain DEF Glyphs, Space, NewLine
<1>. HIDE DEF n
<1>3. b \in [1 .. n -> Glyphs] /\ \A i \in 1 .. n : b[i] = Space
    BY <1>2 DEF Blanks
<1>. HIDE DEF b
<1>4. b \in Seq(Glyphs) /\ Len(b) = n
    BY <1>1, <1>3, SeqDef
<1>5. text = new \o b
    BY DEF b, n
<1>6. /\ text \in Seq(Glyphs) /\ Len(text) = m
      /\ \A i \in 1 .. l : text[i] = new[i]
      /\ \A i \in 1 .. m : i > l => text[i] = Space
    <2>1. /\ text \in Seq(Glyphs) /\ Len(text) = l + n
          /\ \A i \in 1 .. l : text[i] = new[i]
          /\ \A i \in l + 1 .. l + n : text[i] = b[i - l]
        <3>1. /\ new \o b \in Seq(Glyphs) /\ Len(new \o b) = Len(new) + Len(b)
              /\ \A i \in 1 .. Len(new) + Len(b) :
                    (new \o b)[i] = IF i <= Len(new) THEN new[i] ELSE b[i - Len(new)]
            BY ONLY <1>2, <1>4, ConcatProperties
        <3>2. /\ \A i \in 1 .. l : i \in 1 .. l + n /\ i <= l
              /\ \A i \in l + 1 .. l + n : i \in 1 .. l + n /\ ~ (i <= l)
            BY <1>1
        <3>. QED
            BY ONLY <1>4, <1>5, <3>1, <3>2
    <2>2. \A i \in 1 .. m : i > l => i \in l + 1 .. l + n /\ i - l \in 1 .. n
        BY <1>1
    <2>. HIDE DEF l, m
    <2>. QED
        BY <1>1, <1>3, <2>1, <2>2
<1>. HIDE DEF m
<1>7. text \in Plain
    <2>1. \A i \in 1 .. m : i > l \/ i \in 1 .. l
        BY <1>1
    <2>. QED
        BY <1>2, <1>6, <2>1 DEF Plain
<1>8. Patches(old, 0, text, new)
    <2>. SUFFICES ASSUME NEW k \in Nat
                  PROVE  Image(new, k) = IF 0 <= k /\ k < 0 + Len(text) THEN text[k - 0 + 1]
                                         ELSE Image(old, k)
        BY DEF Patches
    <2>1. 0 <= k /\ 0 + Len(text) = m /\ k - 0 + 1 = k + 1 /\ l <= m
        BY <1>1, <1>6
    <2>2. CASE k < l
        <3>1. k + 1 \in 1 .. l /\ k < m
            BY <1>1, <2>1, <2>2
        <3>. QED
            BY <1>6, <2>1, <2>2, <3>1 DEF Image
    <2>3. CASE ~ (k < l) /\ k < m
        <3>1. k + 1 \in 1 .. m /\ k + 1 > l
            BY <1>1, <2>3
        <3>. QED
            BY <1>6, <2>1, <2>3, <3>1 DEF Image
    <2>4. CASE ~ (k < m)
        <3>1. ~ (k < l) /\ ~ (k < Len(old))
            BY <1>1, <2>1, <2>4 DEF m
        <3>. QED
            BY <2>1, <2>4, <3>1 DEF Image
    <2>. QED
        BY <2>1, <2>2, <2>3, <2>4
<1>. QED
    BY <1>6, <1>7, <1>8 DEF Redraws, m

-----------------------------------------------------------------------------
(* The screen, key by key.                                                  *)

\* As long as every line fitted into its row, the screen shows the line.
ScreenInv ==
    /\ con \in Consoles /\ prompt[1] \in Int /\ prompt[2] \in Int
    /\ tidy = TRUE => OnScreen(con, prompt, input, cur)

\* Behind a prompt on a fresh screen stands the empty line (shell_prompt).
LEMMA PromptShows ==
    ASSUME NEW c, Fresh(c), NEW p, p = <<c.col, c.row>>
    PROVE  OnScreen(c, p, <<>>, 0)
<1>1. /\ c \in Consoles /\ c.col \in 0 .. Width - 1 /\ c.row \in 0 .. LastRow /\ Sound(c)
      /\ BlankFrom(c, At(c)) /\ Width \in Nat
    BY ScreenSize DEF Fresh, InScreen
<1>2. p[1] = c.col /\ p[2] = c.row
    OBVIOUS
<1>3. /\ p[1] \in Nat /\ p[2] \in 0 .. LastRow /\ p[1] + 0 < Width /\ c.col = p[1] + 0
      /\ Len(<<>>) = 0
    BY <1>1, <1>2
<1>4. p[2] * Width + p[1] = At(c)
    BY <1>2 DEF At
<1>5. Holds(c, At(c), <<>>)
    <2>1. At(c) \in Int /\ \A i \in Cells : i \in Int
        BY <1>1, HasCell, ScreenSize DEF At, Cells
    <2>2. \A i \in Cells : i >= At(c) => Image(<<>>, i - At(c)) = Space
        BY <1>3, <2>1 DEF Image
    <2>. QED
        BY <1>1, <2>2 DEF Holds, BlankFrom
<1>. QED
    BY <1>1, <1>2, <1>3, <1>4, <1>5 DEF OnScreen

\* console_clear leaves nothing on the screen.
LEMMA ClearedFresh ==
    ASSUME NEW c \in Consoles
    PROVE  Fresh(Cleared(c))
<1>. DEFINE cell == [i \in Cells |-> Space]
            r == Cleared(c)
<1>1. cell \in [Cells -> Glyphs] /\ \A i \in Cells : cell[i] = Space
    BY DEF Glyphs
<1>2. r = [c EXCEPT !.cell = cell, !.col = 0, !.row = 0, !.over = FALSE, !.off = FALSE]
    BY DEF Cleared
<1>. HIDE DEF cell, r
<1>3. /\ r \in Consoles /\ r.col = 0 /\ r.row = 0 /\ r.over = FALSE /\ r.off = FALSE
      /\ r.cell = cell
    <2>1. /\ c = [cell |-> c.cell, col |-> c.col, row |-> c.row, fb |-> c.fb, off |-> c.off,
                  over |-> c.over]
          /\ c.fb \in BOOLEAN
        BY DEF Consoles
    <2>2. r = [cell |-> cell, col |-> 0, row |-> 0, fb |-> c.fb, off |-> FALSE, over |-> FALSE]
        BY <1>2, <2>1
    <2>3. r \in Consoles
        BY <1>1, <2>1, <2>2 DEF Consoles
    <2>. QED
        BY <2>2, <2>3
<1>4. Sound(r) /\ BlankFrom(r, At(r))
    BY <1>1, <1>3 DEF Sound, BlankFrom
<1>5. r.col \in 0 .. Width - 1 /\ r.row \in 0 .. LastRow
    BY <1>3, ScreenSize
<1>. QED
    BY <1>3, <1>4, <1>5 DEF Fresh, InScreen, r

\* A new line goes into the next row, or into the last one: there is nothing behind it
\* either (console_putchar).
LEMMA NewLineFresh ==
    ASSUME NEW c \in Consoles, NEW p, NEW line \in Seq(Chars), NEW n \in 0 .. Len(line),
           OnScreen(c, p, line, n)
    PROVE  Fresh(PutChar(c, NewLine))
<1>. DEFINE start == p[2] * Width + p[1]
<1>0. /\ p[1] \in Nat /\ p[2] \in 0 .. LastRow /\ p[1] + Len(line) < Width
      /\ c.row = p[2] /\ c.col = p[1] + n /\ Sound(c) /\ Holds(c, start, line)
    BY DEF OnScreen
<1>1. /\ Width \in Nat /\ Width > 0 /\ LastRow \in Nat /\ Height = LastRow + 1 /\ Len(line) \in Nat
      /\ (p[2] + 1) * Width = p[2] * Width + Width /\ p[2] * Width \in Nat
    BY <1>0, ScreenSize, NextRow, LenProperties
<1>2. At(c) \in Cells
    <2>1. PICK x : x = p[1]
        OBVIOUS
    <2>2. PICK l : l = Len(line)
        OBVIOUS
    <2>3. x \in Nat /\ l \in Nat /\ x + l < Width /\ n \in 0 .. l /\ c.col = x + n /\ Width \in Nat
        BY <1>0, <1>1, <2>1, <2>2
    <2>4. c.col \in 0 .. Width - 1
        BY ONLY <2>3
    <2>5. c.row \in 0 .. LastRow
        BY <1>0
    <2>. QED
        BY ONLY <2>4, <2>5, HasCell DEF At
<1>3. PICK r : r = To(c, 0, c.row + 1, c.cell)
    OBVIOUS
<1>4. /\ r \in Consoles /\ r.col = 0 /\ r.row = p[2] + 1 /\ r.cell = c.cell
      /\ Sound(r) /\ r.over = c.over
    <2>1. 0 \in Int /\ c.row + 1 \in Int /\ c.cell \in [Cells -> Glyphs]
        BY DEF Consoles
    <2>2. IsMoved(c, r, 0, c.row + 1, c.cell)
        BY ONLY <1>3, <2>1, c \in Consoles, Moved
    <2>. QED
        BY ONLY <1>0, <2>2 DEF IsMoved
<1>5. At(r) = p[2] * Width + Width /\ start \in Nat /\ At(r) >= start + Len(line)
    <2>1. (p[2] + 1) * Width + 0 = p[2] * Width + Width
        BY <1>1
    <2>2. At(r) = p[2] * Width + Width
        BY <1>4, <2>1 DEF At
    <2>3. PICK a : a = p[2] * Width
        OBVIOUS
    <2>4. PICK x : x = p[1]
        OBVIOUS
    <2>5. PICK l : l = Len(line)
        OBVIOUS
    <2>6. a \in Nat /\ x \in Nat /\ l \in Nat /\ x + l < Width /\ Width \in Nat
        BY <1>0, <1>1, <2>3, <2>4, <2>5
    <2>7. a + x \in Nat /\ a + Width >= a + x + l
        BY ONLY <2>6
    <2>8. start = a + x
        BY <2>3, <2>4
    <2>. HIDE DEF start
    <2>. QED
        BY ONLY <2>2, <2>3, <2>5, <2>6, <2>7, <2>8
<1>6. BlankFrom(r, At(r))
    <2>. SUFFICES ASSUME r.over = FALSE, NEW i \in Cells, i >= At(r)
                  PROVE  r.cell[i] = Space
        BY DEF BlankFrom
    <2>1. i \in Int
        BY ScreenSize DEF Cells
    <2>. HIDE DEF start
    <2>2. i >= start /\ ~ (i - start < Len(line))
        <3>1. PICK a, l : a = At(r) /\ l = Len(line)
            OBVIOUS
        <3>2. a \in Int /\ l \in Nat
            BY <1>1, <1>5, <3>1
        <3>3. a >= start + l /\ i >= a /\ start \in Nat
            BY <1>5, <3>1
        <3>4. i >= start /\ ~ (i - start < l)
            BY ONLY <2>1, <3>2, <3>3
        <3>. QED
            BY ONLY <3>1, <3>4
    <2>3. c.cell[i] = Image(line, i - start)
        BY <1>0, <1>4, <2>2 DEF Holds
    <2>. QED
        BY <1>4, <2>2, <2>3 DEF Image
<1>7. r.col \in 0 .. Width - 1 /\ r.row \in 0 .. Height
    <2>1. PICK y : y = p[2]
        OBVIOUS
    <2>2. y \in 0 .. LastRow /\ LastRow \in Nat /\ Height = LastRow + 1 /\ Width \in Nat /\ Width > 0
        BY <1>0, <1>1, <2>1
    <2>3. y + 1 \in 0 .. Height /\ 0 \in 0 .. Width - 1
        BY ONLY <2>2
    <2>. QED
        BY <1>4, <2>1, <2>3
<1>8. Fresh(Scroll(r))
    BY ONLY <1>4, <1>6, <1>7, ScrollFresh
<1>9. PutChar(c, NewLine) = Scroll(r)
    <2>1. NewLine \in Glyphs
        BY DEF Glyphs
    <2>. QED
        BY <1>2, <1>3, <2>1, PutCharIs
<1>. QED
    BY <1>8, <1>9

\* What a command leaves is a console, and a fresh one when it started with one
\* (shell_execute).
LEMMA ExecutedKeeps ==
    ASSUME NEW line, NEW c \in Consoles, NEW d \in Executed(line, c)
    PROVE  d \in Consoles /\ (Fresh(c) => Fresh(d))
<1>1. ASSUME NEW s \in Seq(STRING)
      PROVE  PrintText(c, s) \in Consoles /\ (Fresh(c) => Fresh(PrintText(c, s)))
    <2>1. s \in Seq(Glyphs)
        BY TextsArePrinted
    <2>. QED
        BY <2>1, PrintTextType, PrintTextFresh
<1>2. Fresh(Cleared(c)) /\ Cleared(c) \in Consoles
    BY ClearedFresh DEF Fresh, InScreen
<1>3. Unknown \in Seq(STRING) /\ \A w \in DOMAIN Commands : Commands[w] \subseteq Seq(STRING)
    BY ShellAssumption
<1>4. \/ d = c \/ d = Cleared(c) \/ d = PrintText(c, Unknown)
      \/ \E w \in DOMAIN Commands : \E out \in Commands[w] : d = PrintText(c, out)
    BY Zenon DEF Executed
<1>. QED
    BY <1>1, <1>2, <1>3, <1>4

\* The first prompt stands on an empty screen.
LEMMA InitScreen == Init => ScreenInv
<1>. SUFFICES ASSUME Init PROVE ScreenInv
    OBVIOUS
<1>1. PICK fb \in BOOLEAN, text \in Prompts : con = PrintText(PowerOn(fb), text)
    BY DEF Init
<1>2. PICK c : c = PowerOn(fb)
    OBVIOUS
<1>3. Fresh(c)
    <2>. DEFINE cell == [i \in Cells |-> Space]
    <2>1. cell \in [Cells -> Glyphs] /\ \A i \in Cells : cell[i] = Space
        BY DEF Glyphs
    <2>2. c = [cell |-> cell, col |-> 0, row |-> 0, fb |-> fb, off |-> FALSE, over |-> FALSE]
        BY <1>2 DEF PowerOn
    <2>. HIDE DEF cell
    <2>3. /\ c \in Consoles /\ c.col = 0 /\ c.row = 0 /\ c.over = FALSE /\ c.off = FALSE
          /\ c.cell = cell
        BY <2>1, <2>2 DEF Consoles
    <2>4. Sound(c) /\ BlankFrom(c, At(c))
        BY <2>1, <2>3 DEF Sound, BlankFrom
    <2>5. c.col \in 0 .. Width - 1 /\ c.row \in 0 .. LastRow
        BY <2>3, ScreenSize
    <2>. QED
        BY <2>3, <2>4, <2>5 DEF Fresh, InScreen
<1>4. Fresh(con)
    <2>1. text \in Seq(Glyphs)
        BY ShellAssumption, TextsArePrinted
    <2>. QED
        BY <1>1, <1>2, <1>3, <2>1, PrintTextFresh
<1>5. prompt = <<con.col, con.row>> /\ input = <<>> /\ cur = 0
    BY DEF Init
<1>6. con \in Consoles /\ con.col \in Int /\ con.row \in Int
    BY <1>4 DEF Fresh, InScreen, Consoles
<1>7. OnScreen(con, prompt, <<>>, 0)
    BY <1>4, <1>5, PromptShows
<1>. QED
    BY <1>5, <1>6, <1>7 DEF ScreenInv

\* What every key that changes the line does to the screen (shell_run).
LEMMA DrawKeeps ==
    ASSUME IInv, ScreenInv, NEW line, NEW pos \in 0 .. Len(line), NEW from, NEW text,
           Draw(line, pos, from, text), line \in Seq(Chars), from \in Nat, text \in Plain
    PROVE  /\ con' \in Consoles /\ prompt' = prompt
           /\ tidy = TRUE /\ Redraws(input, from, text, line) /\ Column(from + Len(text)) < Width
              /\ Column(Len(line)) < Width
                 => OnScreen(con', prompt', input', cur')
<1>1. /\ input' = line /\ cur' = pos /\ prompt' = prompt
      /\ con' = SetPos(PrintText(SetPos(con, prompt[1] + from, prompt[2]), text),
                       prompt[1] + pos, prompt[2])
    BY DEF Draw, Column
<1>2. con' \in Consoles
    <2>1. prompt[1] + from \in Int /\ prompt[1] + pos \in Int /\ prompt[2] \in Int
        BY DEF ScreenInv
    <2>2. PICK c : c = SetPos(con, prompt[1] + from, prompt[2])
        OBVIOUS
    <2>3. c \in Consoles
        BY <2>1, <2>2, SetPosType DEF ScreenInv
    <2>4. PICK d : d = PrintText(c, text)
        OBVIOUS
    <2>5. d \in Consoles
        BY <2>3, <2>4, PrintTextType DEF Plain
    <2>. QED
        BY <1>1, <2>1, <2>2, <2>4, <2>5, SetPosType
<1>3. ASSUME tidy = TRUE, Redraws(input, from, text, line), Column(from + Len(text)) < Width,
             Column(Len(line)) < Width
      PROVE  OnScreen(con', prompt', input', cur')
    <2>1. con \in Consoles /\ OnScreen(con, prompt, input, cur)
        BY <1>3 DEF ScreenInv
    <2>2. input \in Seq(Glyphs) /\ line \in Seq(Glyphs)
        BY CharsArePlain DEF IInv, LineInv, Lines
    <2>3. Patches(input, from, text, line) /\ prompt[1] + Len(line) < Width
        BY <1>3 DEF Redraws, Column
    <2>4. prompt[1] + from + Len(text) < Width
        <3>1. Len(text) \in Nat /\ prompt[1] \in Int
            BY LenProperties DEF Plain, ScreenInv
        <3>2. prompt[1] + (from + Len(text)) < Width
            BY <1>3 DEF Column
        <3>3. Width \in Nat
            BY ScreenSize
        <3>4. PICK x : x = prompt[1]
            OBVIOUS
        <3>5. PICK l : l = Len(text)
            OBVIOUS
        <3>6. x \in Int /\ l \in Nat /\ x + (from + l) < Width
            BY <3>1, <3>2, <3>4, <3>5
        <3>7. x + from + l < Width
            BY ONLY <3>3, <3>6, from \in Nat
        <3>. QED
            BY <3>4, <3>5, <3>7
    <2>5. PICK c : c = con
        OBVIOUS
    <2>6. PICK p : p = prompt
        OBVIOUS
    <2>7. PICK old, n : old = input /\ n = cur
        OBVIOUS
    <2>8. /\ c \in Consoles /\ OnScreen(c, p, old, n) /\ old \in Seq(Glyphs) /\ line \in Seq(Glyphs)
          /\ Patches(old, from, text, line) /\ p[1] + Len(line) < Width
          /\ p[1] + from + Len(text) < Width
        BY <2>1, <2>2, <2>3, <2>4, <2>5, <2>6, <2>7
    <2>9. OnScreen(SetPos(PrintText(SetPos(c, p[1] + from, p[2]), text), p[1] + pos, p[2]), p, line, pos)
        BY ONLY <2>8, from \in Nat, text \in Plain, pos \in 0 .. Len(line), Drawn
    <2>. QED
        BY <1>1, <2>5, <2>6, <2>9
<1>. QED
    BY <1>1, <1>2, <1>3

\* A character that is typed (shell_run).
LEMMA TypeScreen ==
    ASSUME IInv, ScreenInv, NEW c \in Chars, Type(c)
    PROVE  ScreenInv'
<1>0. input \in Seq(Chars) /\ cur \in 0 .. Len(input)
    BY DEF IInv, LineInv, Lines
<1>1. PICK line : line = Before(input, cur) \o <<c>> \o From(input, cur)
    OBVIOUS
<1>2. PICK text : text = From(line, cur)
    OBVIOUS
<1>3. /\ Redraws(input, cur, text, line)
      /\ cur + Len(text) = Len(line) /\ cur + 1 \in 0 .. Len(line)
    BY <1>0, <1>1, <1>2, TypeRedraws
<1>4. Draw(line, cur + 1, cur, text) /\ tidy' = (tidy /\ Column(Len(line)) < Width)
    BY <1>1, <1>2 DEF Type
<1>5. line \in Seq(Chars) /\ text \in Plain /\ cur \in Nat
    BY <1>3 DEF Redraws
<1>6. /\ con' \in Consoles /\ prompt' = prompt
      /\ tidy = TRUE /\ Redraws(input, cur, text, line) /\ Column(cur + Len(text)) < Width
         /\ Column(Len(line)) < Width
            => OnScreen(con', prompt', input', cur')
    BY <1>3, <1>4, <1>5, DrawKeeps
<1>7. tidy' = TRUE => tidy = TRUE /\ Column(Len(line)) < Width
    BY <1>4, Zenon
<1>. QED
    BY <1>3, <1>6, <1>7 DEF ScreenInv

\* A character that is erased (shell_run, backspace).
LEMMA EraseScreen ==
    ASSUME IInv, ScreenInv, Erase
    PROVE  ScreenInv'
<1>0. input \in Seq(Chars) /\ cur \in 0 .. Len(input) /\ cur > 0 /\ Len(input) \in Nat
    BY DEF IInv, LineInv, Lines, Erase
<1>1. PICK line : line = Before(input, cur - 1) \o From(input, cur)
    OBVIOUS
<1>2. line \in Seq(Chars) /\ Len(line) = Len(input) - 1 /\ cur - 1 \in 0 .. Len(line)
    <2>1. cur - 1 \in 0 .. Len(input)
        BY <1>0
    <2>2. /\ Before(input, cur - 1) \in Seq(Chars) /\ Len(Before(input, cur - 1)) = cur - 1
          /\ From(input, cur) \in Seq(Chars) /\ Len(From(input, cur)) = Len(input) - cur
        BY <1>0, <2>1, Parts
    <2>3. line \in Seq(Chars) /\ Len(line) = (cur - 1) + (Len(input) - cur)
        BY <1>1, <2>2, Joined
    <2>. QED
        BY <1>0, <2>3
<1>3. PICK text : text = Append(line, Space)
    OBVIOUS
<1>4. Redraws(input, 0, text, line) /\ Len(text) = Len(input)
    BY <1>0, <1>2, <1>3, EraseRedraws
<1>5. Draw(line, cur - 1, 0, text) /\ tidy' = tidy
    BY <1>1, <1>3 DEF Erase
<1>6. text \in Plain /\ 0 \in Nat
    BY <1>4 DEF Redraws
<1>7. /\ con' \in Consoles /\ prompt' = prompt
      /\ tidy = TRUE /\ Redraws(input, 0, text, line) /\ Column(0 + Len(text)) < Width
         /\ Column(Len(line)) < Width
            => OnScreen(con', prompt', input', cur')
    BY <1>2, <1>5, <1>6, DrawKeeps
<1>8. tidy = TRUE => Column(0 + Len(text)) < Width /\ Column(Len(line)) < Width
    <2>. SUFFICES ASSUME tidy = TRUE PROVE Column(0 + Len(text)) < Width /\ Column(Len(line)) < Width
        OBVIOUS
    <2>1. prompt[1] \in Nat /\ prompt[1] + Len(input) < Width /\ Width \in Nat
        BY ScreenSize DEF ScreenInv, OnScreen
    <2>2. 0 + Len(text) = Len(input)
        BY <1>0, <1>4
    <2>3. prompt[1] + (Len(input) - 1) < Width
        BY <1>0, <2>1
    <2>. QED
        BY <1>2, <2>1, <2>2, <2>3 DEF Column
<1>. QED
    BY <1>4, <1>5, <1>7, <1>8 DEF ScreenInv

\* The cursor goes to another character of the line (shell_run, KEY_LEFT, KEY_RIGHT).
LEMMA MoveScreen ==
    ASSUME IInv, ScreenInv, Move
    PROVE  ScreenInv'
<1>1. PICK n \in 0 .. Len(input) : con' = SetPos(con, prompt[1] + n, prompt[2]) /\ cur' = n
    BY DEF Move, Column
<1>2. UNCHANGED <<input, prompt, tidy>>
    BY DEF Move
<1>3. prompt[1] + n \in Int /\ prompt[2] \in Int /\ con \in Consoles
    BY DEF ScreenInv
<1>4. con' \in Consoles
    BY <1>1, <1>3, SetPosType
<1>5. ASSUME tidy = TRUE PROVE OnScreen(con', prompt, input, n)
    <2>1. /\ prompt[1] \in Nat /\ prompt[2] \in 0 .. LastRow /\ prompt[1] + Len(input) < Width
          /\ Sound(con) /\ Holds(con, prompt[2] * Width + prompt[1], input)
        BY <1>5 DEF ScreenInv, OnScreen
    <2>2. prompt[1] + n \in 0 .. Width - 1
        <3>1. Len(input) \in Nat /\ Width \in Nat
            BY ScreenSize DEF IInv, LineInv, Lines
        <3>2. PICK x : x = prompt[1]
            OBVIOUS
        <3>3. PICK l : l = Len(input)
            OBVIOUS
        <3>4. x \in Nat /\ l \in Nat /\ x + l < Width /\ Width \in Nat /\ n \in 0 .. l
            BY <2>1, <3>1, <3>2, <3>3
        <3>5. x + n \in 0 .. Width - 1
            BY ONLY <3>4
        <3>. QED
            BY <3>2, <3>5
    <2>3. PICK r : r = con'
        OBVIOUS
    <2>4. IsMoved(con, r, prompt[1] + n, prompt[2], con.cell)
        BY <1>1, <1>3, <2>1, <2>2, <2>3, SetPosIs
    <2>5. /\ r.col = prompt[1] + n /\ r.row = prompt[2] /\ r.cell = con.cell
          /\ Sound(r) /\ r.over = con.over
        BY <2>1, <2>4 DEF IsMoved
    <2>6. Holds(r, prompt[2] * Width + prompt[1], input)
        BY <2>1, <2>5 DEF Holds
    <2>. QED
        BY <2>1, <2>3, <2>5, <2>6 DEF OnScreen
<1>. QED
    BY <1>1, <1>2, <1>3, <1>4, <1>5 DEF ScreenInv

\* A line of the history takes the place of the line (shell_run, KEY_UP, KEY_DOWN).
LEMMA RecallScreen ==
    ASSUME IInv, ScreenInv, NEW line \in Lines, Recall(line)
    PROVE  ScreenInv'
<1>0. input \in Seq(Chars) /\ line \in Seq(Chars) /\ Len(line) \in 0 .. Len(line)
    BY DEF IInv, LineInv, Lines
<1>1. PICK text : text = line \o Blanks(Longer(Pad - Len(line), 0))
    OBVIOUS
<1>2. Draw(line, Len(line), 0, text)
    BY <1>1 DEF Recall
<1>3. tidy' = TRUE => /\ tidy = TRUE /\ Column(Longer(Pad, Len(line))) < Width
                      /\ Len(input) <= Longer(Pad, Len(line))
    BY Zenon DEF Recall
<1>4. text \in Plain
    <2>1. 0 <= Longer(Pad, Len(line))
        BY <1>0, ShellAssumption DEF Longer
    <2>2. PICK old : old = <<>>
        OBVIOUS
    <2>3. old \in Seq(Chars) /\ Len(old) <= Longer(Pad, Len(line))
        BY <2>1, <2>2
    <2>. QED
        BY <1>0, <1>1, <2>3, RecallRedraws DEF Redraws
<1>5. /\ con' \in Consoles /\ prompt' = prompt
      /\ tidy = TRUE /\ Redraws(input, 0, text, line) /\ Column(0 + Len(text)) < Width
         /\ Column(Len(line)) < Width
            => OnScreen(con', prompt', input', cur')
    BY <1>0, <1>2, <1>4, DrawKeeps
<1>6. ASSUME tidy' = TRUE
      PROVE  /\ Redraws(input, 0, text, line) /\ Column(0 + Len(text)) < Width
             /\ Column(Len(line)) < Width
    <2>1. Redraws(input, 0, text, line) /\ Len(text) = Longer(Pad, Len(line))
        BY <1>0, <1>1, <1>3, <1>6, RecallRedraws
    <2>2. PICK x : x = prompt[1]
        OBVIOUS
    <2>3. PICK l : l = Len(line)
        OBVIOUS
    <2>4. PICK m : m = Longer(Pad, l)
        OBVIOUS
    <2>5. x \in Int /\ l \in Nat /\ m \in Nat /\ l <= m /\ x + m < Width /\ Width \in Nat
        <3>1. l \in Nat /\ Pad \in Nat
            BY <1>0, <2>3, ShellAssumption
        <3>2. m \in Nat /\ l <= m
            BY ONLY <2>4, <3>1 DEF Longer
        <3>3. x + m < Width /\ x \in Int /\ Width \in Nat
            BY <1>3, <1>6, <2>2, <2>3, <2>4, ScreenSize DEF Column, ScreenInv
        <3>. QED
            BY <3>1, <3>2, <3>3
    <2>6. 0 + m = m /\ x + l < Width
        BY ONLY <2>5
    <2>. QED
        BY <2>1, <2>2, <2>3, <2>4, <2>5, <2>6 DEF Column
<1>. QED
    BY <1>3, <1>5, <1>6 DEF ScreenInv

\* Enter: the command prints behind the line, or clears the screen, and the next
\* prompt has nothing behind it (shell_run, shell_execute, shell_prompt).
LEMMA EnterScreen ==
    ASSUME IInv, ScreenInv, Enter
    PROVE  ScreenInv'
<1>0. input \in Seq(Chars) /\ cur \in 0 .. Len(input) /\ con \in Consoles
    BY DEF IInv, LineInv, Lines, ScreenInv
<1>1. PICK b : b = PutChar(con, NewLine)
    OBVIOUS
<1>2. b \in Consoles
    <2>1. NewLine \in Glyphs
        BY DEF Glyphs
    <2>. QED
        BY <1>0, <1>1, <2>1, PutCharType
<1>3. PICK c \in Executed(input, b), text \in Prompts :
          /\ con' = PrintText(c, text) /\ prompt' = <<con'.col, con'.row>>
          /\ input' = <<>> /\ cur' = 0
          /\ tidy' = (tidy \/ con' = PrintText(Cleared(con), text))
    BY <1>1 DEF Enter, Prompted
<1>4. c \in Consoles /\ (Fresh(b) => Fresh(c))
    BY <1>2, <1>3, ExecutedKeeps
<1>5. text \in Seq(Glyphs)
    BY ShellAssumption, TextsArePrinted
<1>6. PICK d, p : d = con' /\ p = prompt'
    OBVIOUS
<1>7. d \in Consoles /\ p = <<d.col, d.row>>
    BY <1>3, <1>4, <1>5, <1>6, PrintTextType
<1>8. p[1] \in Int /\ p[2] \in Int
    BY <1>7 DEF Consoles
<1>9. ASSUME tidy = TRUE PROVE Fresh(d)
    <2>1. OnScreen(con, prompt, input, cur)
        BY <1>9 DEF ScreenInv
    <2>2. Fresh(b)
        BY <1>0, <1>1, <2>1, NewLineFresh
    <2>. QED
        BY <1>3, <1>4, <1>5, <1>6, <2>2, PrintTextFresh
<1>10. ASSUME d = PrintText(Cleared(con), text) PROVE Fresh(d)
    <2>1. Fresh(Cleared(con))
        BY <1>0, ClearedFresh
    <2>. QED
        BY <1>5, <1>10, <2>1, PrintTextFresh
<1>11. tidy' = TRUE => tidy = TRUE \/ d = PrintText(Cleared(con), text)
    BY <1>3, <1>6, Zenon
<1>12. tidy' = TRUE => OnScreen(d, p, <<>>, 0)
    <2>1. Fresh(d) => OnScreen(d, p, <<>>, 0)
        BY <1>7, PromptShows
    <2>. QED
        BY <1>9, <1>10, <1>11, <2>1
<1>. QED
    BY <1>3, <1>6, <1>7, <1>8, <1>12 DEF ScreenInv

\* The screen, the line and the history fit together, key after key.
LEMMA ScreenStep == IInv /\ ScreenInv /\ [Next]_vars => ScreenInv'
<1>. SUFFICES ASSUME IInv, ScreenInv, [Next]_vars PROVE ScreenInv'
    OBVIOUS
<1>1. CASE Enter
    BY <1>1, EnterScreen
<1>2. CASE \E c \in Chars : Type(c)
    BY <1>2, TypeScreen
<1>3. CASE Erase
    BY <1>3, EraseScreen
<1>4. CASE Move
    BY <1>4, MoveScreen
<1>5. CASE KeyUp \/ KeyDown
    <2>1. PICK line : Recall(line) /\ line = input'
        BY <1>5 DEF KeyUp, KeyDown, Recall, Draw
    <2>2. input' \in Lines
        BY <1>5, RecallStep DEF IInv, LineInv
    <2>. QED
        BY <2>1, <2>2, RecallScreen
<1>6. CASE UNCHANGED vars
    BY <1>6 DEF vars, ScreenInv
<1>. QED
    BY <1>1, <1>2, <1>3, <1>4, <1>5, <1>6 DEF Next

\* The line is on the screen, behind the prompt, and the cursor at the character that
\* is edited, for every size of the screen and whatever the commands print (shell_run).
THEOREM LineIsShown == Spec => []InputIsShown
<1>1. IInv /\ ScreenInv => InputIsShown
    <2>. DEFINE start == prompt[2] * Width + prompt[1]
    <2>. SUFFICES ASSUME IInv, ScreenInv, tidy, ~con.over
                  PROVE  /\ ~con.off
                         /\ con.row = prompt[2] /\ con.col = Column(cur)
                         /\ \A i \in 1 .. Width - prompt[1] :
                               con.cell[start + i - 1] =
                                   IF i <= Len(input) THEN input[i] ELSE Space
        BY DEF InputIsShown
    <2>1. con \in Consoles /\ OnScreen(con, prompt, input, cur)
        BY DEF ScreenInv
    <2>2. /\ prompt[1] \in Nat /\ prompt[2] \in 0 .. LastRow /\ prompt[1] + Len(input) < Width
          /\ con.row = prompt[2] /\ con.col = prompt[1] + cur /\ Sound(con)
          /\ Holds(con, start, input)
        BY <2>1 DEF OnScreen
    <2>3. ~con.off /\ con.over = FALSE
        BY <2>1, <2>2 DEF Sound, Consoles
    <2>4. ASSUME NEW i \in 1 .. Width - prompt[1]
          PROVE  con.cell[start + i - 1] = IF i <= Len(input) THEN input[i] ELSE Space
        <3>1. PICK k : k = i - 1
            OBVIOUS
        <3>2. PICK x : x = prompt[1]
            OBVIOUS
        <3>3. Width \in Nat /\ Len(input) \in Nat
            BY ScreenSize DEF IInv, LineInv, Lines
        <3>4. x \in Nat /\ x + k \in 0 .. Width - 1 /\ k \in Nat /\ k + 1 = i
              /\ (k < Len(input) <=> i <= Len(input))
            BY <2>2, <3>1, <3>2, <3>3
        <3>5. PICK a : a = prompt[2] * Width
            OBVIOUS
        <3>6. a + (x + k) \in Cells /\ a \in Nat
            BY <2>2, <3>4, <3>5, HasCell
        <3>7. /\ start + i - 1 = a + (x + k) /\ a + (x + k) - start = k /\ a + (x + k) >= start
              /\ start \in Int
            <4>1. start = a + x
                BY <3>2, <3>5
            <4>. HIDE DEF start
            <4>. QED
                BY ONLY <3>1, <3>4, <3>6, <4>1, i \in 1 .. Width - prompt[1]
        <3>8. con.cell[a + (x + k)] = Image(input, k)
            <4>. HIDE DEF start
            <4>1. PICK b : b = start
                OBVIOUS
            <4>2. PICK j : j = a + (x + k)
                OBVIOUS
            <4>3. Holds(con, b, input)
                BY ONLY <2>2, <4>1
            <4>4. j \in Cells /\ j - b = k /\ j >= b
                BY ONLY <3>4, <3>6, <3>7, <4>1, <4>2
            <4>5. con.cell[j] = Image(input, j - b)
                BY ONLY <2>3, <4>3, <4>4 DEF Holds
            <4>. QED
                BY ONLY <4>2, <4>4, <4>5
        <3>. QED
            BY <3>4, <3>7, <3>8 DEF Image
    <2>. QED
        BY <2>2, <2>3, <2>4 DEF Column
<1>. QED
    BY <1>1, IInvInvariant, InitScreen, ScreenStep, PTL DEF Spec
===============================================================================
