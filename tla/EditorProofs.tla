----------------------------- MODULE EditorProofs -----------------------------
(***************************************************************************)
(* Theorems about Editor, for any number and length of lines, any size of  *)
(* the undo ring and of the view, any characters and files.                *)
(***************************************************************************)
EXTENDS Editor, SequenceTheorems, FiniteSetTheorems, WellFoundedInduction, TLAPS

\* What a line of the buffer, a slot of the undo ring, a remembered text and the
\* editor's state may be.
Lines == {s \in Seq(Chars) : Len(s) < LineLen}
Slots == {s \in [line : Lines, x : Nat, y : LineNos] : s.x <= Len(s.line)}
Texts == UNION {{<<n, f, x, y>> : f \in [0 .. n - 1 -> Lines], x \in Nat, y \in LineNos}
                : n \in Int}
Events == {"forward", "kept", "undo"}
EdSet ==
    [lines : [LineNos -> Lines], count : Int, x : Nat, y : LineNos,
     sel : BOOLEAN, sx : Nat, sy : LineNos, clip : Seq(Chars \cup {Newline}),
     undo : Seq(Slots), redo : Seq(Slots), dirty : SUBSET LineNos,
     past : Seq(Texts), ahead : Seq(Texts), events : SUBSET Events, ok : BOOLEAN]

IsEd(e) == e \in EdSet /\ e.count <= MaxLines /\ e.x <= Len(e.lines[e.y])

\* The entry of a ring that was pushed k pushes ago.
Nth(ring, k) == ring[Len(ring) - k]

\* Putting the slot back into text next gives text t.
Restores(slot, next, t) ==
    /\ t[1] = next[1] /\ t[3] = slot.x /\ t[4] = slot.y
    /\ \A i \in 0 .. t[1] - 1 : t[2][i] = IF i = slot.y THEN slot.line ELSE next[2][i]

\* The slots of a ring lead from text to text.
Leads(ring, texts, now) ==
    /\ Len(texts) <= Len(ring)
    /\ \A k \in 0 .. Len(texts) - 1 :
          Restores(Nth(ring, k), IF k = 0 THEN now ELSE Nth(texts, k - 1), Nth(texts, k))

\* The number of lines is that of the text, and the texts to come back to have as
\* many.
Numbered(e) ==
    e.ok /\ "undo" \notin e.events =>
        /\ e.y < e.count
        /\ \A k \in 0 .. Len(e.past) - 1 : Nth(e.undo, k).y < e.count
        /\ \A k \in 0 .. Len(e.ahead) - 1 : Nth(e.redo, k).y < e.count

UndoInv(e) == Leads(e.undo, e.past, Text(e)) /\ Leads(e.redo, e.ahead, Text(e))
SelInv(e) == e.events = {} => e.ok /\ ~ Stale(e)

EdInv(e) == IsEd(e) /\ Numbered(e) /\ UndoInv(e) /\ SelInv(e)

\* Between two renderings every changed line is marked.
Tracks(e, f) ==
    f.ok /\ "undo" \notin f.events =>
        /\ e.ok /\ "undo" \notin e.events /\ e.dirty \subseteq f.dirty
        /\ \A i \in 0 .. f.count - 1 :
              i \in f.dirty \/ (i < e.count /\ f.lines[i] = e.lines[i])

ShownInv ==
    ed.ok /\ "undo" \notin ed.events =>
        \A r \in Rows : top + r < ed.count => shown[r] = ed.lines[top + r] \/ (r = 1 /\ shown[r] = Times)

IInv ==
    /\ EdInv(ed) /\ file \in Seq(Chars \cup {Newline})
    /\ top \in Nat /\ ed.y \in top .. top + ViewHeight - 1
    /\ ShownInv

-----------------------------------------------------------------------------
\* The undo ring keeps its newest entries, each one place further from the end
\* (ed_save_undo).
LEMMA PushRing ==
    ASSUME NEW S, NEW ring \in Seq(S), NEW entry \in S
    PROVE  /\ Push(ring, entry) \in Seq(S)
           /\ Len(Push(ring, entry)) = IF Len(ring) + 1 > UndoSize THEN Len(ring) ELSE Len(ring) + 1
           /\ Len(Push(ring, entry)) >= 1 => Nth(Push(ring, entry), 0) = entry
           /\ \A k \in 1 .. Len(Push(ring, entry)) - 1 :
                 Nth(Push(ring, entry), k) = Nth(ring, k - 1)
<1>. DEFINE r == Append(ring, entry)
<1>1. /\ r \in Seq(S) /\ Len(r) = Len(ring) + 1 /\ Len(ring) \in Nat /\ r # <<>>
      /\ r[Len(ring) + 1] = entry /\ \A i \in 1 .. Len(ring) : r[i] = ring[i]
    BY AppendProperties, LenProperties, EmptySeq
<1>2. /\ Tail(r) \in Seq(S) /\ Len(Tail(r)) = Len(ring)
      /\ \A i \in 1 .. Len(ring) : Tail(r)[i] = r[i + 1]
    BY <1>1, HeadTailProperties
<1>. HIDE DEF r
<1>3. CASE Len(r) > UndoSize
    <2>1. Push(ring, entry) = Tail(r)
        BY <1>3 DEF Push, r
    <2>2. \A k \in 1 .. Len(ring) - 1 : Nth(Tail(r), k) = Nth(ring, k - 1)
        <3>. SUFFICES ASSUME NEW k \in 1 .. Len(ring) - 1 PROVE Nth(Tail(r), k) = Nth(ring, k - 1)
            OBVIOUS
        <3>1. Len(ring) - k \in 1 .. Len(ring) /\ Len(ring) - k + 1 \in 1 .. Len(ring)
              /\ Len(ring) - (k - 1) = Len(ring) - k + 1
            BY <1>1
        <3>. QED
            BY <1>1, <1>2, <3>1 DEF Nth
    <2>3. Len(ring) + 1 > UndoSize /\ Len(ring) >= 1 /\ Len(ring) - 0 = Len(ring)
          /\ Len(ring) \in 1 .. Len(ring) /\ UndoSize \in Nat \ {0}
        BY <1>1, <1>3, EditorAssumption
    <2>4. Nth(Tail(r), 0) = entry
        BY <1>1, <1>2, <2>3 DEF Nth
    <2>. QED
        BY <1>2, <2>1, <2>2, <2>3, <2>4
<1>4. CASE ~ (Len(r) > UndoSize)
    <2>1. Push(ring, entry) = r
        BY <1>4 DEF Push, r
    <2>2. \A k \in 1 .. Len(ring) : Nth(r, k) = Nth(ring, k - 1)
        <3>. SUFFICES ASSUME NEW k \in 1 .. Len(ring) PROVE Nth(r, k) = Nth(ring, k - 1)
            OBVIOUS
        <3>1. Len(ring) + 1 - k \in 1 .. Len(ring) /\ Len(ring) - (k - 1) = Len(ring) + 1 - k
            BY <1>1
        <3>. QED
            BY <1>1, <3>1 DEF Nth
    <2>. QED
        BY <1>1, <1>4, <2>1, <2>2 DEF Nth
<1>. QED
    BY <1>3, <1>4

\* Part of a sequence.
LEMMA Sliced ==
    ASSUME NEW S, NEW s \in Seq(S), NEW m \in Int, NEW n \in Int, 1 <= m, n <= Len(s), m <= n + 1
    PROVE  /\ SubSeq(s, m, n) \in Seq(S) /\ Len(SubSeq(s, m, n)) = n - m + 1
           /\ \A i \in 1 .. n - m + 1 : SubSeq(s, m, n)[i] = s[m + i - 1]
<1>1. Len(s) \in Nat /\ \A i \in 1 .. Len(s) : s[i] \in S
    BY LenProperties, ElementOfSeq
<1>2. \A i \in m .. n : s[i] \in S
    <2>. SUFFICES ASSUME NEW i \in m .. n PROVE s[i] \in S
        OBVIOUS
    <2>1. i \in 1 .. Len(s)
        BY <1>1
    <2>. QED
        BY ONLY <1>1, <2>1
<1>3. /\ SubSeq(s, m, n) \in Seq(S)
      /\ Len(SubSeq(s, m, n)) = IF m <= n THEN n - m + 1 ELSE 0
      /\ \A i \in 1 .. n - m + 1 : SubSeq(s, m, n)[i] = s[m + i - 1]
    BY ONLY <1>2, m \in Int, n \in Int, SubSeqProperties
<1>4. (IF m <= n THEN n - m + 1 ELSE 0) = n - m + 1
    OBVIOUS
<1>. QED
    BY ONLY <1>3, <1>4

\* Three parts put together.
LEMMA Spliced ==
    ASSUME NEW S, NEW s \in Seq(S), NEW t \in Seq(S), NEW u \in Seq(S)
    PROVE  (s \o t) \o u \in Seq(S) /\ Len((s \o t) \o u) = Len(s) + Len(t) + Len(u)
<1>. DEFINE v == s \o t
<1>1. v \in Seq(S) /\ Len(v) = Len(s) + Len(t)
    BY ConcatProperties
<1>. HIDE DEF v
<1>2. v \o u \in Seq(S) /\ Len(v \o u) = Len(v) + Len(u)
    BY <1>1, ConcatProperties
<1>. QED
    BY ONLY <1>1, <1>2 DEF v

\* A sequence given by its elements.
LEMMA Counted ==
    ASSUME NEW S, NEW n \in Nat, NEW f \in [1 .. n -> S]
    PROVE  f \in Seq(S) /\ Len(f) = n
<1>1. f \in Seq(S)
    BY SeqDef
<1>2. Len(f) \in Nat /\ DOMAIN f = 1 .. Len(f)
    BY <1>1, LenProperties
<1>3. 1 .. n = 1 .. Len(f)
    BY <1>2
<1>. QED
    BY <1>1, <1>2, <1>3

\* Taking the newest entry off.
LEMMA PopRing ==
    ASSUME NEW S, NEW ring \in Seq(S), ring # <<>>
    PROVE  /\ Last(ring) \in S /\ Last(ring) = Nth(ring, 0)
           /\ Front(ring) \in Seq(S) /\ Len(Front(ring)) = Len(ring) - 1 /\ Len(ring) \in Nat \ {0}
           /\ \A k \in 0 .. Len(Front(ring)) - 1 : Nth(Front(ring), k) = Nth(ring, k + 1)
<1>1. Len(ring) \in Nat \ {0} /\ Len(ring) \in 1 .. Len(ring) /\ Len(ring) - 0 = Len(ring)
    BY EmptySeq
<1>2. /\ SubSeq(ring, 1, Len(ring) - 1) \in Seq(S)
      /\ Len(SubSeq(ring, 1, Len(ring) - 1)) = Len(ring) - 1 - 1 + 1
      /\ \A i \in 1 .. Len(ring) - 1 - 1 + 1 : SubSeq(ring, 1, Len(ring) - 1)[i] = ring[1 + i - 1]
    <2>1. Len(ring) - 1 \in Int /\ 1 \in Int /\ 1 <= 1 /\ Len(ring) - 1 <= Len(ring) /\ 1 <= Len(ring) - 1 + 1
        BY <1>1
    <2>. QED
        <3>1. PICK m \in Int, n \in Int : m = 1 /\ n = Len(ring) - 1
            BY ONLY <2>1
        <3>2. 1 <= m /\ n <= Len(ring) /\ m <= n + 1
            BY ONLY <2>1, <3>1
        <3>3. /\ SubSeq(ring, m, n) \in Seq(S) /\ Len(SubSeq(ring, m, n)) = n - m + 1
              /\ \A i \in 1 .. n - m + 1 : SubSeq(ring, m, n)[i] = ring[m + i - 1]
            BY ONLY <3>2, ring \in Seq(S), Sliced
        <3>. QED
            BY ONLY <3>1, <3>3
<1>3. /\ Front(ring) \in Seq(S) /\ Len(Front(ring)) = Len(ring) - 1
      /\ \A i \in 1 .. Len(ring) - 1 : Front(ring)[i] = ring[i]
    <2>1. /\ Len(ring) - 1 - 1 + 1 = Len(ring) - 1
          /\ \A i \in 1 .. Len(ring) - 1 : 1 + i - 1 = i
        BY <1>1
    <2>. QED
        BY ONLY <1>2, <2>1 DEF Front
<1>4. Last(ring) \in S /\ Last(ring) = Nth(ring, 0)
    BY <1>1, ElementOfSeq DEF Last, Nth
<1>5. ASSUME NEW k \in 0 .. Len(Front(ring)) - 1 PROVE Nth(Front(ring), k) = Nth(ring, k + 1)
    <2>1. /\ Len(ring) - 1 - k \in 1 .. Len(ring) - 1
          /\ Len(ring) - (k + 1) = Len(ring) - 1 - k
        BY <1>1, <1>3
    <2>. QED
        BY <1>3, <2>1 DEF Nth
<1>. QED
    BY <1>1, <1>3, <1>4, <1>5

\* The two halves of a line at the cursor.
LEMMA Halves ==
    ASSUME NEW S, NEW s \in Seq(S), NEW n \in 0 .. Len(s)
    PROVE  /\ Before(s, n) \in Seq(S) /\ Len(Before(s, n)) = n
           /\ From(s, n) \in Seq(S) /\ Len(From(s, n)) = Len(s) - n
<1>1. /\ Len(s) \in Nat /\ n \in Int /\ n + 1 \in Int /\ 1 \in Int /\ Len(s) \in Int
      /\ 1 <= 1 /\ n <= Len(s) /\ 1 <= n + 1 /\ Len(s) <= Len(s) /\ n + 1 <= Len(s) + 1
      /\ n - 1 + 1 = n /\ Len(s) - (n + 1) + 1 = Len(s) - n
    BY LenProperties
<1>2. SubSeq(s, 1, n) \in Seq(S) /\ Len(SubSeq(s, 1, n)) = n
    <2>1. PICK m \in Int : m = 1
        OBVIOUS
    <2>2. 1 <= m /\ m <= n + 1 /\ n - m + 1 = n
        BY ONLY <1>1, <2>1
    <2>3. SubSeq(s, m, n) \in Seq(S) /\ Len(SubSeq(s, m, n)) = n - m + 1
        BY ONLY <1>1, <2>2, s \in Seq(S), Sliced
    <2>. QED
        BY ONLY <2>1, <2>2, <2>3
<1>3. SubSeq(s, n + 1, Len(s)) \in Seq(S) /\ Len(SubSeq(s, n + 1, Len(s))) = Len(s) - n
    <2>1. PICK m \in Int, l \in Int : m = n + 1 /\ l = Len(s)
        BY <1>1
    <2>2. 1 <= m /\ l <= Len(s) /\ m <= l + 1 /\ l - m + 1 = Len(s) - n
        BY ONLY <1>1, <2>1
    <2>3. SubSeq(s, m, l) \in Seq(S) /\ Len(SubSeq(s, m, l)) = l - m + 1
        BY ONLY <2>2, s \in Seq(S), Sliced
    <2>. QED
        BY ONLY <2>1, <2>2, <2>3
<1>. QED
    BY <1>2, <1>3 DEF Before, From

-----------------------------------------------------------------------------
\* ed_mark_dirty: only the marks change.
LEMMA RedrawFields ==
    ASSUME NEW e \in EdSet, NEW a \in Int, NEW b \in Int
    PROVE  /\ Redraw(e, a, b) \in EdSet
           /\ Redraw(e, a, b).dirty = e.dirty \cup ((a .. b) \cap LineNos)
           /\ Redraw(e, a, b).lines = e.lines /\ Redraw(e, a, b).count = e.count
           /\ Redraw(e, a, b).x = e.x /\ Redraw(e, a, b).y = e.y
           /\ Redraw(e, a, b).sel = e.sel /\ Redraw(e, a, b).sx = e.sx /\ Redraw(e, a, b).sy = e.sy
           /\ Redraw(e, a, b).clip = e.clip /\ Redraw(e, a, b).undo = e.undo
           /\ Redraw(e, a, b).redo = e.redo /\ Redraw(e, a, b).past = e.past
           /\ Redraw(e, a, b).ahead = e.ahead /\ Redraw(e, a, b).events = e.events
           /\ Redraw(e, a, b).ok = e.ok
    BY DEF EdSet, Redraw

\* State f is e with these lines marked.
Redrawn(e, f, a, b) ==
    /\ f \in EdSet /\ f.dirty = e.dirty \cup ((a .. b) \cap LineNos)
    /\ f.lines = e.lines /\ f.count = e.count /\ f.x = e.x /\ f.y = e.y
    /\ f.sel = e.sel /\ f.sx = e.sx /\ f.sy = e.sy /\ f.clip = e.clip
    /\ f.undo = e.undo /\ f.redo = e.redo /\ f.past = e.past /\ f.ahead = e.ahead
    /\ f.events = e.events /\ f.ok = e.ok

\* The same said in short (ed_mark_dirty).
LEMMA RedrawMarks ==
    ASSUME NEW e \in EdSet, NEW a \in Int, NEW b \in Int
    PROVE  Redrawn(e, Redraw(e, a, b), a, b)
    BY RedrawFields DEF Redrawn

\* A slot and a text of the editor's state (ed_save_undo).
LEMMA SlotText ==
    ASSUME NEW e, IsEd(e)
    PROVE  /\ Slot(e) \in Slots /\ Slot(e).line = e.lines[e.y] /\ Slot(e).x = e.x /\ Slot(e).y = e.y
           /\ Text(e) \in Texts /\ Text(e)[1] = e.count /\ Text(e)[3] = e.x /\ Text(e)[4] = e.y
           /\ \A i \in 0 .. e.count - 1 : Text(e)[2][i] = e.lines[i]
<1>1. /\ e.lines \in [LineNos -> Lines] /\ e.count \in Int /\ e.x \in Nat /\ e.y \in LineNos
      /\ e.count <= MaxLines /\ e.x <= Len(e.lines[e.y])
    BY DEF IsEd, EdSet
<1>2. Slot(e) \in Slots /\ Slot(e).line = e.lines[e.y] /\ Slot(e).x = e.x /\ Slot(e).y = e.y
    BY <1>1 DEF Slot, Slots, Line
<1>3. \A i \in 0 .. e.count - 1 : i \in LineNos
    BY <1>1, EditorAssumption DEF LineNos
<1>4. [i \in 0 .. e.count - 1 |-> e.lines[i]] \in [0 .. e.count - 1 -> Lines]
    BY <1>1, <1>3
<1>5. Text(e) \in Texts
    <2>. DEFINE f == [i \in 0 .. e.count - 1 |-> e.lines[i]]
                T(n) == {<<n, g, x, y>> : g \in [0 .. n - 1 -> Lines], x \in Nat, y \in LineNos}
    <2>1. Text(e) = <<e.count, f, e.x, e.y>> /\ f \in [0 .. e.count - 1 -> Lines]
        BY <1>4 DEF Text
    <2>. HIDE DEF f
    <2>2. Text(e) \in T(e.count)
        BY <1>1, <2>1
    <2>. HIDE DEF T
    <2>3. Text(e) \in UNION {T(n) : n \in Int}
        BY <1>1, <2>2
    <2>. QED
        BY <2>3 DEF Texts, T
<1>. QED
    BY <1>2, <1>5 DEF Text

-----------------------------------------------------------------------------
\* No texts to come back to: nothing is promised.
LEMMA LeadsNowhere ==
    ASSUME NEW ring \in Seq(Slots), NEW now
    PROVE  Leads(ring, <<>>, now)
<1>1. Len(<<>>) = 0 /\ Len(ring) \in Nat
    OBVIOUS
<1>. QED
    BY <1>1 DEF Leads

\* The cursor may move: only the lines count.
LEMMA LeadsMoved ==
    ASSUME NEW ring, NEW texts, NEW now, NEW then, Leads(ring, texts, now),
           then[1] = now[1], \A i \in 0 .. now[1] - 1 : then[2][i] = now[2][i]
    PROVE  Leads(ring, texts, then)
BY DEF Leads, Restores

\* A change within a line, with the line and the cursor before it pushed.
LEMMA LeadsOn ==
    ASSUME NEW ring \in Seq(Slots), NEW texts \in Seq(Texts), NEW now \in Texts, NEW next,
           NEW slot \in Slots, Leads(ring, texts, now), Restores(slot, next, now)
    PROVE  Leads(Push(ring, slot), Push(texts, now), next)
<1>1. /\ Len(Push(ring, slot)) = IF Len(ring) + 1 > UndoSize THEN Len(ring) ELSE Len(ring) + 1
      /\ Len(Push(ring, slot)) >= 1 => Nth(Push(ring, slot), 0) = slot
      /\ \A k \in 1 .. Len(Push(ring, slot)) - 1 : Nth(Push(ring, slot), k) = Nth(ring, k - 1)
    BY PushRing
<1>2. /\ Len(Push(texts, now)) = IF Len(texts) + 1 > UndoSize THEN Len(texts) ELSE Len(texts) + 1
      /\ Len(Push(texts, now)) >= 1 => Nth(Push(texts, now), 0) = now
      /\ \A k \in 1 .. Len(Push(texts, now)) - 1 : Nth(Push(texts, now), k) = Nth(texts, k - 1)
    BY PushRing
<1>3. Len(ring) \in Nat /\ Len(texts) \in Nat /\ UndoSize \in Nat
    BY EditorAssumption
<1>. DEFINE R == Push(ring, slot)
            T == Push(texts, now)
<1>4. Len(T) <= Len(R) /\ Len(T) \in Nat /\ Len(R) \in Nat /\ Len(T) - 1 <= Len(texts)
    BY <1>1, <1>2, <1>3 DEF Leads
<1>. HIDE DEF R, T
<1>5. ASSUME NEW k \in 0 .. Len(T) - 1
      PROVE  Restores(Nth(R, k), IF k = 0 THEN next ELSE Nth(T, k - 1), Nth(T, k))
    <2>1. CASE k = 0
        <3>1. Nth(R, 0) = slot /\ Nth(T, 0) = now
            BY <1>1, <1>2, <1>4, <2>1 DEF R, T
        <3>. QED
            BY <2>1, <3>1
    <2>2. CASE k = 1
        <3>1. Nth(R, 1) = Nth(ring, 0) /\ Nth(T, 1) = Nth(texts, 0) /\ Nth(T, 0) = now
            BY <1>1, <1>2, <1>4, <2>2 DEF R, T
        <3>2. 0 \in 0 .. Len(texts) - 1 /\ k - 1 = 0 /\ k # 0
            BY <1>3, <1>4, <2>2
        <3>3. Restores(Nth(ring, 0), now, Nth(texts, 0))
            BY <3>2 DEF Leads
        <3>. QED
            BY <2>2, <3>1, <3>2, <3>3
    <2>3. CASE k >= 2
        <3>1. Nth(R, k) = Nth(ring, k - 1) /\ Nth(T, k) = Nth(texts, k - 1)
            BY <1>1, <1>2, <1>4, <2>3 DEF R, T
        <3>2. Nth(T, k - 1) = Nth(texts, k - 1 - 1)
            BY <1>2, <1>4, <2>3 DEF T
        <3>3. k - 1 \in 0 .. Len(texts) - 1 /\ k - 1 # 0 /\ k # 0
            BY <1>3, <1>4, <2>3
        <3>4. Restores(Nth(ring, k - 1), Nth(texts, k - 1 - 1), Nth(texts, k - 1))
            BY <3>3 DEF Leads
        <3>. QED
            BY <3>1, <3>2, <3>3, <3>4
    <2>. QED
        BY <1>4, <2>1, <2>2, <2>3
<1>. QED
    BY <1>4, <1>5 DEF Leads, R, T

\* A slot that lies within the text, pushed on others that do.
LEMMA PushBelow ==
    ASSUME NEW ring \in Seq(Slots), NEW texts \in Seq(Texts), NEW slot \in Slots,
           NEW text \in Texts, NEW n, Len(texts) <= Len(ring), slot.y < n,
           \A k \in 0 .. Len(texts) - 1 : Nth(ring, k).y < n
    PROVE  \A k \in 0 .. Len(Push(texts, text)) - 1 : Nth(Push(ring, slot), k).y < n
<1>1. /\ Len(Push(ring, slot)) = IF Len(ring) + 1 > UndoSize THEN Len(ring) ELSE Len(ring) + 1
      /\ Len(Push(ring, slot)) >= 1 => Nth(Push(ring, slot), 0) = slot
      /\ \A k \in 1 .. Len(Push(ring, slot)) - 1 : Nth(Push(ring, slot), k) = Nth(ring, k - 1)
    BY PushRing
<1>2. Len(Push(texts, text)) = IF Len(texts) + 1 > UndoSize THEN Len(texts) ELSE Len(texts) + 1
    BY PushRing
<1>3. /\ Len(ring) \in Nat /\ Len(texts) \in Nat /\ UndoSize \in Nat \ {0}
    BY EditorAssumption
<1>. DEFINE R == Push(ring, slot)
            T == Push(texts, text)
<1>4. /\ Len(T) <= Len(R) /\ Len(T) \in Nat /\ Len(R) \in Nat /\ Len(T) - 1 <= Len(texts)
      /\ Len(R) >= 1 => Nth(R, 0) = slot
      /\ \A k \in 1 .. Len(R) - 1 : Nth(R, k) = Nth(ring, k - 1)
    BY <1>1, <1>2, <1>3
<1>. HIDE DEF R, T
<1>5. ASSUME NEW k \in 0 .. Len(T) - 1 PROVE Nth(R, k).y < n
    <2>1. CASE k = 0
        <3>1. Len(R) >= 1
            BY <1>4, <2>1
        <3>. QED
            BY <1>4, <2>1, <3>1
    <2>2. CASE k # 0
        <3>1. k \in 1 .. Len(R) - 1 /\ k - 1 \in 0 .. Len(texts) - 1
            BY <1>3, <1>4, <2>2
        <3>. QED
            BY <1>4, <3>1
    <2>. QED
        BY <2>1, <2>2
<1>. QED
    BY <1>5 DEF R, T

\* The newest slot brings back the newest text, and the others follow.
LEMMA LeadsBack ==
    ASSUME NEW ring \in Seq(Slots), NEW texts \in Seq(Texts), NEW now,
           Leads(ring, texts, now), texts # <<>>
    PROVE  /\ ring # <<>> /\ Restores(Last(ring), now, Last(texts))
           /\ Leads(Front(ring), Front(texts), Last(texts))
<1>1. Len(texts) \in Nat \ {0} /\ Len(ring) \in Nat /\ Len(texts) <= Len(ring)
    BY EmptySeq DEF Leads
<1>2. ring # <<>>
    BY <1>1
<1>3. /\ Last(ring) = Nth(ring, 0) /\ Len(Front(ring)) = Len(ring) - 1
      /\ \A k \in 0 .. Len(Front(ring)) - 1 : Nth(Front(ring), k) = Nth(ring, k + 1)
    BY <1>2, PopRing
<1>4. /\ Last(texts) = Nth(texts, 0) /\ Len(Front(texts)) = Len(texts) - 1
      /\ \A k \in 0 .. Len(Front(texts)) - 1 : Nth(Front(texts), k) = Nth(texts, k + 1)
    BY PopRing
<1>5. 0 \in 0 .. Len(texts) - 1
    BY <1>1
<1>6. Restores(Nth(ring, 0), now, Nth(texts, 0))
    BY <1>5 DEF Leads
<1>7. ASSUME NEW k \in 0 .. Len(Front(texts)) - 1
      PROVE  Restores(Nth(Front(ring), k), IF k = 0 THEN Last(texts) ELSE Nth(Front(texts), k - 1),
                      Nth(Front(texts), k))
    <2>1. Nth(Front(ring), k) = Nth(ring, k + 1) /\ Nth(Front(texts), k) = Nth(texts, k + 1)
        BY <1>1, <1>3, <1>4
    <2>2. (IF k = 0 THEN Last(texts) ELSE Nth(Front(texts), k - 1)) = Nth(texts, k)
        <3>1. CASE k = 0
            BY <1>4, <3>1
        <3>2. CASE k # 0
            <4>1. k - 1 \in 0 .. Len(Front(texts)) - 1 /\ k - 1 + 1 = k
                BY <1>1, <1>4, <3>2
            <4>. QED
                BY <1>4, <3>2, <4>1
        <3>. QED
            BY <3>1, <3>2
    <2>3. k + 1 \in 0 .. Len(texts) - 1 /\ k + 1 # 0 /\ k + 1 - 1 = k
        BY <1>1, <1>4
    <2>4. Restores(Nth(ring, k + 1), Nth(texts, k), Nth(texts, k + 1))
        BY <2>3 DEF Leads
    <2>. QED
        BY <2>1, <2>2, <2>4
<1>8. Len(Front(texts)) <= Len(Front(ring))
    BY <1>1, <1>3, <1>4
<1>. QED
    BY <1>2, <1>3, <1>4, <1>6, <1>7, <1>8 DEF Leads

-----------------------------------------------------------------------------
\* f comes from e by a change of line e.y that ed_save_undo went before.
InLineOf(e, f) ==
    /\ f.undo = Push(e.undo, Slot(e)) /\ f.past = Push(e.past, Text(e))
    /\ f.redo = <<>> /\ f.ahead = <<>> /\ f.count = e.count /\ f.y = e.y
    /\ e.events \subseteq f.events /\ (f.ok => e.ok)
    /\ \A i \in 0 .. e.count - 1 : i # e.y => f.lines[i] = e.lines[i]

\* f has the text and the rings of e.
TextOf(e, f) ==
    /\ f.undo = e.undo /\ f.past = e.past /\ f.redo = e.redo /\ f.ahead = e.ahead
    /\ f.lines = e.lines /\ f.count = e.count
    /\ e.events \subseteq f.events /\ (f.ok => e.ok)

\* The rings after a change within a line (ed_insert_char).
LEMMA InLineRings ==
    ASSUME NEW e, NEW f, IsEd(e), UndoInv(e), Numbered(e), IsEd(f), InLineOf(e, f)
    PROVE  UndoInv(f) /\ Numbered(f)
<1>1. /\ e.undo \in Seq(Slots) /\ e.past \in Seq(Texts) /\ e.count \in Int /\ e.y \in LineNos
      /\ Slot(e) \in Slots /\ Text(e) \in Texts /\ Slot(e).y = e.y
    BY SlotText DEF IsEd, EdSet
<1>2. f.redo \in Seq(Slots) /\ f.events \subseteq Events
    BY DEF IsEd, EdSet
<1>3. Restores(Slot(e), Text(f), Text(e))
    <2>1. f.count = e.count /\ \A i \in 0 .. e.count - 1 : i # e.y => f.lines[i] = e.lines[i]
        BY DEF InLineOf
    <2>2. /\ Slot(e).line = e.lines[e.y] /\ Slot(e).x = e.x
          /\ Text(e)[1] = e.count /\ Text(e)[3] = e.x /\ Text(e)[4] = e.y
          /\ \A i \in 0 .. e.count - 1 : Text(e)[2][i] = e.lines[i]
        BY SlotText
    <2>3. Text(f)[1] = f.count /\ \A i \in 0 .. f.count - 1 : Text(f)[2][i] = f.lines[i]
        BY SlotText
    <2>. QED
        BY <1>1, <2>1, <2>2, <2>3 DEF Restores
<1>4. Leads(e.undo, e.past, Text(e))
    BY DEF UndoInv
<1>5. Leads(f.undo, f.past, Text(f))
    <2>1. Leads(Push(e.undo, Slot(e)), Push(e.past, Text(e)), Text(f))
        BY ONLY <1>1, <1>3, <1>4, LeadsOn
    <2>. QED
        BY <2>1 DEF InLineOf
<1>6. Leads(f.redo, f.ahead, Text(f))
    BY <1>2, LeadsNowhere DEF InLineOf
<1>7. Numbered(f)
    <2>. SUFFICES ASSUME f.ok, "undo" \notin f.events
                  PROVE  /\ f.y < f.count
                         /\ \A k \in 0 .. Len(f.past) - 1 : Nth(f.undo, k).y < f.count
                         /\ \A k \in 0 .. Len(f.ahead) - 1 : Nth(f.redo, k).y < f.count
        BY DEF Numbered
    <2>1. /\ e.y < e.count
          /\ \A k \in 0 .. Len(e.past) - 1 : Nth(e.undo, k).y < e.count
        BY DEF Numbered, InLineOf
    <2>2. f.undo = Push(e.undo, Slot(e)) /\ f.past = Push(e.past, Text(e)) /\ f.ahead = <<>>
          /\ f.count = e.count /\ f.y = e.y
        BY DEF InLineOf
    <2>3. Slot(e).y < e.count /\ Len(e.past) <= Len(e.undo)
        BY <1>1, <1>4, <2>1 DEF Leads
    <2>4. \A k \in 0 .. Len(Push(e.past, Text(e))) - 1 : Nth(Push(e.undo, Slot(e)), k).y < e.count
        BY ONLY <1>1, <2>1, <2>3, PushBelow
    <2>5. Len(f.ahead) = 0
        BY <2>2
    <2>. QED
        BY ONLY <2>1, <2>2, <2>4, <2>5
<1>. QED
    BY <1>5, <1>6, <1>7 DEF UndoInv

\* The rings when the texts to come back to are forgotten (ed_insert_newline).
LEMMA AcrossRings ==
    ASSUME NEW f, IsEd(f), f.past = <<>>, f.ahead = <<>>,
           f.ok /\ "undo" \notin f.events => f.y < f.count
    PROVE  UndoInv(f) /\ Numbered(f)
<1>1. f.undo \in Seq(Slots) /\ f.redo \in Seq(Slots)
    BY DEF IsEd, EdSet
<1>. QED
    BY <1>1, LeadsNowhere DEF UndoInv, Numbered

\* The rings while the text stays (ed_move_up, ed_mark_dirty).
LEMMA TextRings ==
    ASSUME NEW e, NEW f, IsEd(e), UndoInv(e), Numbered(e), IsEd(f), TextOf(e, f),
           f.ok /\ "undo" \notin f.events => f.y < f.count
    PROVE  UndoInv(f) /\ Numbered(f)
<1>1. Text(f)[1] = Text(e)[1] /\ \A i \in 0 .. Text(e)[1] - 1 : Text(f)[2][i] = Text(e)[2][i]
    <2>1. Text(e)[1] = e.count /\ \A i \in 0 .. e.count - 1 : Text(e)[2][i] = e.lines[i]
        BY SlotText
    <2>2. Text(f)[1] = f.count /\ \A i \in 0 .. f.count - 1 : Text(f)[2][i] = f.lines[i]
        BY SlotText
    <2>. QED
        BY <2>1, <2>2 DEF TextOf
<1>2. Leads(e.undo, e.past, Text(f)) /\ Leads(e.redo, e.ahead, Text(f))
    BY <1>1, LeadsMoved DEF UndoInv
<1>3. UndoInv(f)
    BY <1>2 DEF UndoInv, TextOf
<1>4. Numbered(f)
    BY DEF TextOf, Numbered
<1>. QED
    BY <1>3, <1>4

-----------------------------------------------------------------------------
\* Marks add up from handler to handler.
LEMMA TracksOn ==
    ASSUME NEW e, NEW f, NEW g, IsEd(f), IsEd(g), Tracks(e, f), Tracks(f, g)
    PROVE  Tracks(e, g)
<1>1. f.count \in Int /\ g.count \in Int
    BY DEF IsEd, EdSet
<1>. QED
    BY <1>1 DEF Tracks

\* A handler that returns at once.
LEMMA TracksSame ==
    ASSUME NEW e, IsEd(e)
    PROVE  Tracks(e, e)
<1>1. e.count \in Int
    BY DEF IsEd, EdSet
<1>. QED
    BY <1>1 DEF Tracks

\* Every change is in the range that is marked (ed_mark_dirty).
LEMMA TracksRange ==
    ASSUME NEW e, NEW f, IsEd(e), IsEd(f), NEW a \in Int, NEW b \in Int,
           f.dirty = e.dirty \cup ((a .. b) \cap LineNos),
           e.events \subseteq f.events, f.ok => e.ok,
           f.ok /\ "undo" \notin f.events =>
               \A i \in 0 .. f.count - 1 : i \notin a .. b => i < e.count /\ f.lines[i] = e.lines[i]
    PROVE  Tracks(e, f)
<1>1. f.count \in Int /\ f.count <= MaxLines
    BY DEF IsEd, EdSet
<1>2. \A i \in 0 .. f.count - 1 : i \in LineNos
    BY <1>1, EditorAssumption DEF LineNos
<1>. QED
    BY <1>2 DEF Tracks

\* What ed_save_undo leaves behind.
LEMMA SaveFields ==
    ASSUME NEW e, IsEd(e), NEW inline \in BOOLEAN
    PROVE  /\ SaveUndo(e, inline) \in EdSet
           /\ SaveUndo(e, inline).undo = Push(e.undo, Slot(e))
           /\ SaveUndo(e, inline).redo = <<>> /\ SaveUndo(e, inline).ahead = <<>>
           /\ SaveUndo(e, inline).past = IF inline THEN Push(e.past, Text(e)) ELSE <<>>
           /\ SaveUndo(e, inline).lines = e.lines /\ SaveUndo(e, inline).count = e.count
           /\ SaveUndo(e, inline).x = e.x /\ SaveUndo(e, inline).y = e.y
           /\ SaveUndo(e, inline).sel = e.sel
           /\ SaveUndo(e, inline).sx = e.sx /\ SaveUndo(e, inline).sy = e.sy
           /\ SaveUndo(e, inline).clip = e.clip /\ SaveUndo(e, inline).dirty = e.dirty
           /\ SaveUndo(e, inline).events = e.events /\ SaveUndo(e, inline).ok = e.ok
<1>1. /\ e \in EdSet /\ e.undo \in Seq(Slots) /\ e.past \in Seq(Texts)
      /\ Slot(e) \in Slots /\ Text(e) \in Texts
    BY SlotText DEF IsEd, EdSet
<1>2. Push(e.undo, Slot(e)) \in Seq(Slots)
    BY <1>1, PushRing
<1>3. (IF inline THEN Push(e.past, Text(e)) ELSE <<>>) \in Seq(Texts)
    BY <1>1, PushRing
<1>4. <<>> \in Seq(Slots) /\ <<>> \in Seq(Texts)
    BY EmptySeq
<1>. DEFINE u == Push(e.undo, Slot(e))
            p == IF inline THEN Push(e.past, Text(e)) ELSE <<>>
            f == [e EXCEPT !.undo = u, !.redo = <<>>, !.ahead = <<>>, !.past = p]
<1>5. SaveUndo(e, inline) = f
    BY <1>1 DEF SaveUndo
<1>. HIDE DEF u, p
<1>6. /\ f \in EdSet /\ f.undo = u /\ f.redo = <<>> /\ f.ahead = <<>> /\ f.past = p
      /\ f.lines = e.lines /\ f.count = e.count /\ f.x = e.x /\ f.y = e.y
      /\ f.sel = e.sel /\ f.sx = e.sx /\ f.sy = e.sy
      /\ f.clip = e.clip /\ f.dirty = e.dirty /\ f.events = e.events /\ f.ok = e.ok
    BY <1>1, <1>2, <1>3, <1>4 DEF EdSet, u, p
<1>. QED
    BY ONLY <1>5, <1>6 DEF u, p

\* ed_clear_selection.
LEMMA ClearSelectionInv ==
    ASSUME NEW e, EdInv(e)
    PROVE  /\ EdInv(ClearSelection(e)) /\ Tracks(e, ClearSelection(e))
           /\ ~ ClearSelection(e).sel
           /\ ClearSelection(e).ok = e.ok /\ ClearSelection(e).lines = e.lines
           /\ ClearSelection(e).y = e.y /\ ClearSelection(e).x = e.x
           /\ ClearSelection(e).count = e.count
<1>1. CASE ~ e.sel
    <2>1. ClearSelection(e) = e
        BY <1>1 DEF ClearSelection
    <2>. QED
        BY <1>1, <2>1, TracksSame DEF EdInv
<1>2. CASE e.sel
    <2>. DEFINE a == IF e.sy < e.y THEN e.sy ELSE e.y
                b == IF e.sy < e.y THEN e.y ELSE e.sy
                g == Redraw(e, a, b)
                f == [g EXCEPT !.sel = FALSE]
    <2>1. /\ e \in EdSet /\ a \in Int /\ b \in Int
        BY DEF EdInv, IsEd, EdSet, LineNos
    <2>. HIDE DEF a, b
    <2>2. /\ g \in EdSet /\ g.dirty = e.dirty \cup ((a .. b) \cap LineNos)
          /\ g.lines = e.lines /\ g.count = e.count /\ g.x = e.x /\ g.y = e.y
          /\ g.undo = e.undo /\ g.redo = e.redo /\ g.past = e.past
          /\ g.ahead = e.ahead /\ g.events = e.events /\ g.ok = e.ok
        <3>1. Redrawn(e, g, a, b)
            BY ONLY <2>1, RedrawMarks
        <3>. HIDE DEF g
        <3>. QED
            BY ONLY <3>1 DEF Redrawn
    <2>3. ClearSelection(e) = f
        BY <1>2 DEF ClearSelection, SelectionRows, a, b
    <2>. HIDE DEF g
    <2>4. /\ f \in EdSet /\ f.dirty = e.dirty \cup ((a .. b) \cap LineNos)
          /\ f.lines = e.lines /\ f.count = e.count /\ f.x = e.x /\ f.y = e.y
          /\ f.undo = e.undo /\ f.redo = e.redo /\ f.past = e.past
          /\ f.ahead = e.ahead /\ f.events = e.events /\ f.ok = e.ok /\ f.sel = FALSE
        BY <2>2 DEF EdSet
    <2>. HIDE DEF f
    <2>5. IsEd(f)
        BY <2>4 DEF EdInv, IsEd
    <2>6. UndoInv(f) /\ Numbered(f)
        BY <2>4, <2>5, TextRings DEF EdInv, TextOf, Numbered
    <2>7. SelInv(f)
        BY <2>4 DEF EdInv, SelInv, Stale
    <2>8. Tracks(e, f)
        <3>1. e.count \in Int
            BY <2>1 DEF EdSet
        <3>. QED
            BY <2>4, <3>1 DEF Tracks
    <2>. QED
        BY <2>3, <2>4, <2>5, <2>6, <2>7, <2>8 DEF EdInv
<1>. QED
    BY <1>1, <1>2

-----------------------------------------------------------------------------
\* The cursor's line is replaced, behind ed_save_undo.
WithLine(e, line, x) ==
    Redraw([SaveUndo(e, TRUE) EXCEPT !.lines = [e.lines EXCEPT ![e.y] = line], !.x = x], e.y, e.y)

\* One line is replaced by another that fits its array (ed_insert_char,
\* ed_backspace and ed_delete_selection within a line).
LEMMA LineReplaced ==
    ASSUME NEW e, EdInv(e), NEW line \in Lines, NEW x \in Nat, x <= Len(line),
           NEW f, f = WithLine(e, line, x)
    PROVE  /\ IsEd(f) /\ UndoInv(f) /\ Numbered(f) /\ Tracks(e, f)
           /\ f.sel = e.sel /\ f.events = e.events /\ f.ok = e.ok
<1>1. /\ IsEd(e) /\ e \in EdSet /\ e.lines \in [LineNos -> Lines] /\ e.y \in LineNos
      /\ e.count \in Int /\ e.count <= MaxLines
    BY DEF EdInv, IsEd, EdSet
<1>. DEFINE u == SaveUndo(e, TRUE)
            L == [e.lines EXCEPT ![e.y] = line]
            g == [u EXCEPT !.lines = L, !.x = x]
<1>2. /\ u \in EdSet /\ u.undo = Push(e.undo, Slot(e)) /\ u.past = Push(e.past, Text(e))
      /\ u.redo = <<>> /\ u.ahead = <<>> /\ u.lines = e.lines /\ u.count = e.count
      /\ u.x = e.x /\ u.y = e.y /\ u.sel = e.sel
      /\ u.dirty = e.dirty /\ u.events = e.events /\ u.ok = e.ok
    BY <1>1, SaveFields
<1>. HIDE DEF u
<1>3. /\ L \in [LineNos -> Lines] /\ L[e.y] = line
      /\ \A i \in LineNos : i # e.y => L[i] = e.lines[i]
    BY <1>1
<1>. HIDE DEF L
<1>4. /\ g \in EdSet /\ g.undo = u.undo /\ g.past = u.past /\ g.redo = u.redo
      /\ g.ahead = u.ahead /\ g.count = u.count /\ g.y = u.y /\ g.sel = u.sel
      /\ g.dirty = u.dirty /\ g.events = u.events /\ g.ok = u.ok /\ g.x = x /\ g.lines = L
    BY <1>2, <1>3 DEF EdSet
<1>5. f = Redraw(g, e.y, e.y)
    BY DEF L, u, WithLine
<1>. HIDE DEF g
<1>6. /\ f \in EdSet /\ f.undo = Push(e.undo, Slot(e)) /\ f.past = Push(e.past, Text(e))
      /\ f.redo = <<>> /\ f.ahead = <<>> /\ f.count = e.count /\ f.y = e.y /\ f.sel = e.sel
      /\ f.dirty = e.dirty \cup ((e.y .. e.y) \cap LineNos)
      /\ f.events = e.events /\ f.ok = e.ok /\ f.x = x /\ f.lines = L
    <2>1. e.y \in Int
        BY <1>1 DEF LineNos
    <2>2. /\ Redraw(g, e.y, e.y) \in EdSet
          /\ Redraw(g, e.y, e.y).dirty = g.dirty \cup ((e.y .. e.y) \cap LineNos)
          /\ Redraw(g, e.y, e.y).lines = g.lines /\ Redraw(g, e.y, e.y).count = g.count
          /\ Redraw(g, e.y, e.y).x = g.x /\ Redraw(g, e.y, e.y).y = g.y
          /\ Redraw(g, e.y, e.y).sel = g.sel /\ Redraw(g, e.y, e.y).undo = g.undo
          /\ Redraw(g, e.y, e.y).redo = g.redo /\ Redraw(g, e.y, e.y).past = g.past
          /\ Redraw(g, e.y, e.y).ahead = g.ahead /\ Redraw(g, e.y, e.y).events = g.events
          /\ Redraw(g, e.y, e.y).ok = g.ok
        BY <1>4, <2>1, RedrawFields
    <2>. QED
        BY ONLY <1>2, <1>4, <1>5, <2>2
<1>7. \A i \in 0 .. e.count - 1 : i # e.y => f.lines[i] = e.lines[i]
    BY <1>1, <1>3, <1>6, EditorAssumption DEF LineNos
<1>8. IsEd(f)
    BY <1>1, <1>3, <1>6 DEF IsEd
<1>9. UndoInv(f) /\ Numbered(f)
    BY <1>1, <1>6, <1>7, <1>8, InLineRings DEF EdInv, InLineOf
<1>10. Tracks(e, f)
    <2>1. \A i \in 0 .. f.count - 1 : i \notin e.y .. e.y => i < e.count /\ f.lines[i] = e.lines[i]
        BY <1>1, <1>6, <1>7 DEF LineNos
    <2>2. e.y \in Int /\ e.events \subseteq f.events /\ (f.ok => e.ok)
        BY <1>1, <1>6 DEF LineNos
    <2>. QED
        BY ONLY <1>1, <1>6, <1>8, <2>1, <2>2, TracksRange
<1>. QED
    BY <1>6, <1>8, <1>9, <1>10

\* ed_insert_char, once the selection is cleared: one line changes, and stays
\* shorter than its array.
LEMMA InsertCharInv ==
    ASSUME NEW e, EdInv(e), NEW c \in Chars
    PROVE  EdInv(InsertChar(e, c)) /\ Tracks(e, InsertChar(e, c))
<1>. DEFINE d == ClearSelection(e)
<1>1. EdInv(d) /\ Tracks(e, d) /\ ~ d.sel
    BY ClearSelectionInv
<1>2. CASE Len(Line(d)) >= LineLen - 1
    <2>1. InsertChar(e, c) = d
        BY <1>2 DEF InsertChar
    <2>. QED
        BY <1>1, <2>1
<1>3. CASE ~ (Len(Line(d)) >= LineLen - 1)
    <2>. DEFINE u == SaveUndo(d, TRUE)
                line == Before(d.lines[d.y], d.x) \o <<c>> \o From(d.lines[d.y], d.x)
                f == InsertChar(e, c)
    <2>. HIDE DEF d
    <2>1. /\ IsEd(d) /\ d \in EdSet /\ d.lines \in [LineNos -> Lines] /\ d.y \in LineNos
          /\ d.x \in Nat /\ d.x <= Len(d.lines[d.y])
        BY <1>1 DEF EdInv, IsEd, EdSet
    <2>2. line \in Lines /\ d.x + 1 <= Len(line)
        <3>. DEFINE s == d.lines[d.y]
        <3>1. s \in Seq(Chars) /\ Len(s) < LineLen /\ Len(s) \in Nat
            BY <2>1 DEF Lines
        <3>2. Len(s) < LineLen - 1
            BY <1>3, <3>1, EditorAssumption DEF Line
        <3>. HIDE DEF s
        <3>3. d.x \in 0 .. Len(s)
            BY <2>1, <3>1 DEF s
        <3>4. /\ Before(s, d.x) \in Seq(Chars) /\ Len(Before(s, d.x)) = d.x
              /\ From(s, d.x) \in Seq(Chars) /\ Len(From(s, d.x)) = Len(s) - d.x
            BY <3>1, <3>3, Halves
        <3>5. <<c>> \in Seq(Chars) /\ Len(<<c>>) = 1
            OBVIOUS
        <3>6. /\ (Before(s, d.x) \o <<c>>) \o From(s, d.x) \in Seq(Chars)
              /\ Len((Before(s, d.x) \o <<c>>) \o From(s, d.x))
                    = Len(Before(s, d.x)) + Len(<<c>>) + Len(From(s, d.x))
            BY ONLY <3>4, <3>5, Spliced
        <3>7. /\ (Before(s, d.x) \o <<c>>) \o From(s, d.x) \in Seq(Chars)
              /\ Len((Before(s, d.x) \o <<c>>) \o From(s, d.x)) = d.x + 1 + (Len(s) - d.x)
            BY ONLY <3>4, <3>5, <3>6
        <3>8. line = (Before(s, d.x) \o <<c>>) \o From(s, d.x)
            BY DEF s
        <3>. HIDE DEF line
        <3>9. d.x + 1 + (Len(s) - d.x) = Len(s) + 1 /\ LineLen \in Nat /\ d.x + 1 <= Len(s) + 1
            BY ONLY <2>1, <3>1, <3>3, EditorAssumption
        <3>10. line \in Seq(Chars) /\ Len(line) = Len(s) + 1
            BY ONLY <3>7, <3>8, <3>9
        <3>11. Len(s) + 1 < LineLen
            BY ONLY <3>1, <3>2, <3>9
        <3>. QED
            BY ONLY <3>9, <3>10, <3>11 DEF Lines
    <2>3. u.lines = d.lines /\ u.x = d.x /\ u \in EdSet
        BY <2>1, SaveFields
    <2>. HIDE DEF u, line
    <2>4. f = Redraw([u EXCEPT !.lines = [d.lines EXCEPT ![d.y] = line], !.x = d.x + 1], d.y, d.y)
        BY <1>3, <2>1, <2>3 DEF InsertChar, d, u, line, EdSet
    <2>5. d.x + 1 \in Nat
        BY <2>1
    <2>. HIDE DEF f
    <2>6. /\ IsEd(f) /\ UndoInv(f) /\ Numbered(f) /\ Tracks(d, f)
          /\ f.sel = d.sel /\ f.events = d.events /\ f.ok = d.ok
        <3>. DEFINE x == d.x + 1
        <3>1. f = WithLine(d, line, x)
            BY ONLY <2>4 DEF u, WithLine
        <3>2. x \in Nat /\ x <= Len(line)
            BY <2>2, <2>5
        <3>. HIDE DEF x
        <3>. QED
            BY ONLY <1>1, <2>2, <3>1, <3>2, LineReplaced
    <2>7. SelInv(f)
        BY <1>1, <2>6 DEF EdInv, SelInv, Stale
    <2>8. Tracks(e, f)
        BY <1>1, <2>1, <2>6, TracksOn
    <2>. QED
        BY <2>6, <2>7, <2>8 DEF EdInv, f
<1>. QED
    BY <1>2, <1>3

\* Something is remembered of the session; the program's state stays.
LEMMA NoteInv ==
    ASSUME NEW e, EdInv(e), NEW what \in Events
    PROVE  /\ EdInv(Note(e, what)) /\ Tracks(e, Note(e, what))
           /\ Note(e, what).events = e.events \cup {what}
           /\ Note(e, what).lines = e.lines /\ Note(e, what).count = e.count
           /\ Note(e, what).x = e.x /\ Note(e, what).y = e.y
           /\ Note(e, what).sel = e.sel /\ Note(e, what).sx = e.sx /\ Note(e, what).sy = e.sy
           /\ Note(e, what).clip = e.clip /\ Note(e, what).dirty = e.dirty
           /\ Note(e, what).undo = e.undo /\ Note(e, what).redo = e.redo
           /\ Note(e, what).past = e.past /\ Note(e, what).ahead = e.ahead
           /\ Note(e, what).ok = e.ok
<1>. DEFINE f == Note(e, what)
<1>1. e \in EdSet
    BY DEF EdInv, IsEd
<1>2. /\ f \in EdSet /\ f.events = e.events \cup {what}
      /\ f.lines = e.lines /\ f.count = e.count /\ f.x = e.x /\ f.y = e.y
      /\ f.sel = e.sel /\ f.sx = e.sx /\ f.sy = e.sy /\ f.clip = e.clip /\ f.dirty = e.dirty
      /\ f.undo = e.undo /\ f.redo = e.redo /\ f.past = e.past /\ f.ahead = e.ahead
      /\ f.ok = e.ok
    BY <1>1 DEF EdSet, Note
<1>. HIDE DEF f
<1>3. IsEd(f)
    BY <1>2 DEF EdInv, IsEd
<1>4. UndoInv(f) /\ Numbered(f)
    BY <1>2, <1>3, TextRings DEF EdInv, TextOf, Numbered
<1>5. SelInv(f)
    BY <1>2 DEF SelInv
<1>6. Tracks(e, f)
    <2>1. e.count \in Int
        BY <1>1 DEF EdSet
    <2>. QED
        BY <1>2, <2>1 DEF Tracks
<1>. QED
    BY <1>2, <1>3, <1>4, <1>5, <1>6 DEF EdInv, f

\* The text is about to change under a selection that stays.
LEMMA KeepInv ==
    ASSUME NEW e, EdInv(e)
    PROVE  /\ EdInv(Keep(e)) /\ Tracks(e, Keep(e))
           /\ Keep(e).lines = e.lines /\ Keep(e).count = e.count
           /\ Keep(e).x = e.x /\ Keep(e).y = e.y
           /\ Keep(e).sel = e.sel /\ Keep(e).clip = e.clip /\ Keep(e).dirty = e.dirty
           /\ Keep(e).undo = e.undo /\ Keep(e).redo = e.redo
           /\ Keep(e).past = e.past /\ Keep(e).ahead = e.ahead /\ Keep(e).ok = e.ok
           /\ e.events \subseteq Keep(e).events /\ (e.sel => Keep(e).events # {})
           /\ ("undo" \in Keep(e).events => "undo" \in e.events)
<1>1. CASE e.sel
    <2>1. "kept" \in Events /\ "kept" # "undo"
        BY DEF Events
    <2>2. Keep(e) = Note(e, "kept")
        BY <1>1 DEF Keep
    <2>3. /\ EdInv(Note(e, "kept")) /\ Tracks(e, Note(e, "kept"))
          /\ Note(e, "kept").events = e.events \cup {"kept"}
          /\ Note(e, "kept").lines = e.lines /\ Note(e, "kept").count = e.count
          /\ Note(e, "kept").x = e.x /\ Note(e, "kept").y = e.y
          /\ Note(e, "kept").sel = e.sel
          /\ Note(e, "kept").clip = e.clip /\ Note(e, "kept").dirty = e.dirty
          /\ Note(e, "kept").undo = e.undo /\ Note(e, "kept").redo = e.redo
          /\ Note(e, "kept").past = e.past /\ Note(e, "kept").ahead = e.ahead
          /\ Note(e, "kept").ok = e.ok
        BY <2>1, NoteInv
    <2>. QED
        BY ONLY <2>1, <2>2, <2>3
<1>2. CASE ~ e.sel
    BY <1>2, TracksSame DEF Keep, EdInv
<1>. QED
    BY <1>1, <1>2

\* The code would write past an array here.
LEMMA BrokenInv ==
    ASSUME NEW e, IsEd(e), UndoInv(e), e.events # {}
    PROVE  \A d : EdInv(Broken(e)) /\ Tracks(d, Broken(e))
<1>. DEFINE f == Broken(e)
<1>1. e \in EdSet
    BY DEF EdInv, IsEd
<1>2. /\ f \in EdSet /\ f.ok = FALSE /\ f.events = e.events
      /\ f.lines = e.lines /\ f.count = e.count /\ f.x = e.x /\ f.y = e.y
      /\ f.undo = e.undo /\ f.redo = e.redo /\ f.past = e.past /\ f.ahead = e.ahead
    BY <1>1 DEF EdSet, Broken
<1>. HIDE DEF f
<1>3. IsEd(f)
    BY <1>2 DEF EdInv, IsEd
<1>4. Numbered(f) /\ \A d : Tracks(d, f)
    BY <1>2 DEF Numbered, Tracks
<1>5. UndoInv(f)
    BY <1>2 DEF UndoInv, Text
<1>6. SelInv(f)
    BY <1>2 DEF SelInv
<1>. QED
    BY <1>3, <1>4, <1>5, <1>6 DEF EdInv, f

\* ed_insert_newline: the line is cut in two and the lines below move down.
LEMMA InsertNewlineInv ==
    ASSUME NEW e, EdInv(e)
    PROVE  EdInv(InsertNewline(e)) /\ Tracks(e, InsertNewline(e))
<1>0. /\ e \in EdSet /\ IsEd(e) /\ e.lines \in [LineNos -> Lines] /\ e.y \in LineNos
      /\ e.x \in Nat /\ e.x <= Len(e.lines[e.y]) /\ e.count \in Int /\ e.count <= MaxLines
      /\ e.events \subseteq Events
    BY DEF EdInv, IsEd, EdSet
<1>1. CASE e.count >= MaxLines
    BY <1>0, <1>1, TracksSame DEF InsertNewline
<1>2. CASE ~ (e.count >= MaxLines) /\ e.y + 1 \notin LineNos
    <2>1. e.events # {}
        <3>1. e.events = {} => e.y < e.count
            BY ONLY EdInv(e) DEF EdInv, SelInv, Numbered
        <3>2. e.y \in Int /\ e.y >= 0 /\ MaxLines \in Nat
            BY <1>0, EditorAssumption DEF LineNos
        <3>3. ~ (e.y < e.count)
            BY ONLY <1>0, <1>2, <3>2 DEF LineNos
        <3>. QED
            BY ONLY <3>1, <3>3
    <2>2. InsertNewline(e) = Broken(e)
        BY <1>2 DEF InsertNewline
    <2>. QED
        BY <1>0, <2>1, <2>2, BrokenInv DEF EdInv
<1>3. CASE ~ (e.count >= MaxLines) /\ e.y + 1 \in LineNos
    <2>. DEFINE k == Keep(e)
                u == SaveUndo(k, FALSE)
                lines == [i \in LineNos |->
                            IF i = e.y THEN Before(Line(e), e.x)
                            ELSE IF i = e.y + 1 THEN From(Line(e), e.x)
                            ELSE IF i \in e.y + 2 .. e.count THEN u.lines[i - 1]
                            ELSE u.lines[i]]
                g == [u EXCEPT !.lines = lines, !.count = e.count + 1, !.y = e.y + 1, !.x = 0]
                f == Redraw(g, e.y, e.count)
    <2>1. /\ EdInv(k) /\ Tracks(e, k) /\ IsEd(k)
          /\ k.lines = e.lines /\ k.count = e.count /\ k.x = e.x /\ k.y = e.y /\ k.sel = e.sel
          /\ k.dirty = e.dirty /\ k.ok = e.ok /\ e.events \subseteq k.events
          /\ (e.sel => k.events # {})
        BY KeepInv DEF EdInv
    <2>. HIDE DEF k
    <2>2. /\ u \in EdSet /\ u.past = <<>> /\ u.ahead = <<>> /\ u.lines = e.lines
          /\ u.count = e.count /\ u.y = e.y /\ u.x = e.x
          /\ u.sel = e.sel /\ u.dirty = e.dirty /\ u.events = k.events /\ u.ok = e.ok
        BY <2>1, SaveFields
    <2>. HIDE DEF u
    <2>3. lines \in [LineNos -> Lines]
        <3>. DEFINE s == e.lines[e.y]
        <3>1. s \in Seq(Chars) /\ Len(s) < LineLen /\ Len(s) \in Nat /\ s = Line(e)
            BY <1>0 DEF Lines, Line
        <3>2. e.x \in 0 .. Len(s)
            BY <1>0, <3>1
        <3>. HIDE DEF s
        <3>3. /\ Before(s, e.x) \in Seq(Chars) /\ Len(Before(s, e.x)) = e.x
              /\ From(s, e.x) \in Seq(Chars) /\ Len(From(s, e.x)) = Len(s) - e.x
            BY <3>1, <3>2, Halves
        <3>4. Before(Line(e), e.x) \in Lines /\ From(Line(e), e.x) \in Lines
            BY <1>0, <3>1, <3>2, <3>3, EditorAssumption DEF Lines
        <3>5. \A i \in LineNos : u.lines[i] \in Lines
            BY <1>0, <2>2
        <3>6. \A i \in e.y + 2 .. e.count : i - 1 \in LineNos
            BY <1>0, EditorAssumption DEF LineNos
        <3>. QED
            BY <3>4, <3>5, <3>6
    <2>4. \A i \in LineNos : i < e.y => lines[i] = e.lines[i]
        BY <1>0, <2>2 DEF LineNos
    <2>5. lines[e.y + 1] \in Seq(Chars) /\ Len(lines[e.y + 1]) \in Nat
        BY <1>3, <2>3 DEF Lines
    <2>6. InsertNewline(e) = f
        BY <1>0, <1>3, <2>2 DEF InsertNewline, k, u, EdSet
    <2>. HIDE DEF lines
    <2>7. /\ g \in EdSet /\ g.past = <<>> /\ g.ahead = <<>> /\ g.lines = lines
          /\ g.count = e.count + 1 /\ g.y = e.y + 1 /\ g.x = 0
          /\ g.sel = e.sel /\ g.dirty = e.dirty /\ g.events = k.events /\ g.ok = e.ok
        <3>. DEFINE n == e.count + 1
                    m == e.y + 1
                    h == [u EXCEPT !.lines = lines, !.count = n, !.y = m, !.x = 0]
        <3>1. n \in Int /\ m \in LineNos /\ 0 \in Nat
            BY <1>0, <1>3
        <3>2. g = h
            OBVIOUS
        <3>. HIDE DEF n, m, g
        <3>. QED
            BY <2>2, <2>3, <3>1, <3>2 DEF EdSet, n, m
    <2>. HIDE DEF g
    <2>8. /\ f \in EdSet /\ f.past = <<>> /\ f.ahead = <<>> /\ f.lines = lines
          /\ f.count = e.count + 1 /\ f.y = e.y + 1 /\ f.x = 0
          /\ f.dirty = e.dirty \cup ((e.y .. e.count) \cap LineNos)
          /\ f.sel = e.sel /\ f.events = k.events /\ f.ok = e.ok
        BY <1>0, <2>7, RedrawFields DEF LineNos
    <2>. HIDE DEF f
    <2>9. IsEd(f)
        BY <1>0, <1>3, <2>5, <2>8, EditorAssumption DEF IsEd
    <2>10. f.ok /\ "undo" \notin f.events => f.y < f.count
        BY <1>0, <2>1, <2>8 DEF EdInv, Numbered, LineNos
    <2>11. UndoInv(f) /\ Numbered(f)
        BY <2>8, <2>9, <2>10, AcrossRings
    <2>12. SelInv(f)
        BY <2>1, <2>8 DEF EdInv, SelInv, Stale
    <2>13. Tracks(e, f)
        <3>1. f.ok /\ "undo" \notin f.events =>
                 \A i \in 0 .. f.count - 1 :
                    i \notin e.y .. e.count => i < e.count /\ f.lines[i] = e.lines[i]
            <4>. SUFFICES ASSUME f.ok, "undo" \notin f.events,
                                 NEW i \in 0 .. f.count - 1, i \notin e.y .. e.count
                          PROVE  i < e.count /\ f.lines[i] = e.lines[i]
                OBVIOUS
            <4>1. e.y \in Int /\ i \in 0 .. e.count /\ i < e.y /\ i \in LineNos
                BY <1>0, <1>3, <2>8, EditorAssumption DEF LineNos
            <4>2. i < e.count
                BY <1>0, <2>8, <2>10, <4>1
            <4>. QED
                BY <2>4, <2>8, <4>1, <4>2
        <3>2. e.y \in Int /\ e.events \subseteq f.events /\ (f.ok => e.ok)
            BY <1>0, <2>1, <2>8 DEF LineNos
        <3>. QED
            BY ONLY <1>0, <2>8, <2>9, <3>1, <3>2, TracksRange
    <2>. QED
        BY <2>6, <2>9, <2>11, <2>12, <2>13 DEF EdInv
<1>. QED
    BY <1>1, <1>2, <1>3

\* ed_backspace at the start of a line that does not fit behind the one above:
\* the line and the cursor are saved, and nothing changes.
LEMMA SaveInv ==
    ASSUME NEW e, EdInv(e)
    PROVE  EdInv(SaveUndo(e, TRUE)) /\ Tracks(e, SaveUndo(e, TRUE))
<1>. DEFINE f == SaveUndo(e, TRUE)
<1>1. IsEd(e) /\ e.count \in Int
    BY DEF EdInv, IsEd, EdSet
<1>2. /\ f \in EdSet /\ f.undo = Push(e.undo, Slot(e)) /\ f.past = Push(e.past, Text(e))
      /\ f.redo = <<>> /\ f.ahead = <<>> /\ f.lines = e.lines /\ f.count = e.count
      /\ f.x = e.x /\ f.y = e.y /\ f.sel = e.sel /\ f.sx = e.sx /\ f.sy = e.sy
      /\ f.dirty = e.dirty /\ f.events = e.events /\ f.ok = e.ok
    BY <1>1, SaveFields
<1>. HIDE DEF f
<1>3. IsEd(f)
    BY <1>1, <1>2 DEF IsEd
<1>4. UndoInv(f) /\ Numbered(f)
    BY <1>1, <1>2, <1>3, InLineRings DEF EdInv, InLineOf
<1>5. SelInv(f)
    BY <1>2 DEF EdInv, SelInv, Stale
<1>6. Tracks(e, f)
    BY <1>1, <1>2 DEF Tracks
<1>. QED
    BY <1>3, <1>4, <1>5, <1>6 DEF EdInv, f

\* ed_backspace inside a line.
LEMMA BackspaceInLine ==
    ASSUME NEW e, EdInv(e), ~ e.sel, e.x > 0
    PROVE  EdInv(Backspace(e)) /\ Tracks(e, Backspace(e))
<1>1. /\ IsEd(e) /\ e \in EdSet /\ e.lines \in [LineNos -> Lines] /\ e.y \in LineNos
      /\ e.x \in Nat /\ e.x <= Len(e.lines[e.y])
    BY DEF EdInv, IsEd, EdSet
<1>. DEFINE u == SaveUndo(e, TRUE)
            s == e.lines[e.y]
            line == Before(s, e.x - 1) \o From(s, e.x)
            f == Backspace(e)
<1>2. s \in Seq(Chars) /\ Len(s) < LineLen /\ Len(s) \in Nat
    BY <1>1 DEF Lines
<1>3. line \in Lines /\ e.x - 1 <= Len(line)
    <2>. HIDE DEF s
    <2>1. e.x \in 0 .. Len(s) /\ e.x - 1 \in 0 .. Len(s)
        BY <1>1, <1>2 DEF s
    <2>2. /\ Before(s, e.x - 1) \in Seq(Chars) /\ Len(Before(s, e.x - 1)) = e.x - 1
          /\ From(s, e.x) \in Seq(Chars) /\ Len(From(s, e.x)) = Len(s) - e.x
        BY ONLY <1>2, <2>1, Halves
    <2>3. line \in Seq(Chars) /\ Len(line) = e.x - 1 + (Len(s) - e.x)
        BY ONLY <2>2, ConcatProperties
    <2>. QED
        BY <1>1, <1>2, <2>1, <2>3, EditorAssumption DEF Lines
<1>4. u.lines = e.lines /\ u.x = e.x /\ u \in EdSet
    BY <1>1, SaveFields
<1>5. SaveUndo(e, ~ (e.x = 0 /\ e.y > 0 /\ Len(e.lines[e.y - 1]) + Len(Line(e)) < LineLen - 1)) = u
    <2>1. (~ (e.x = 0 /\ e.y > 0 /\ Len(e.lines[e.y - 1]) + Len(Line(e)) < LineLen - 1)) = TRUE
        BY <1>1
    <2>. QED
        BY <2>1
<1>. HIDE DEF u
<1>6. f = Redraw([u EXCEPT !.lines = [e.lines EXCEPT ![e.y] = line], !.x = e.x - 1], e.y, e.y)
    BY <1>1, <1>4, <1>5 DEF Backspace, EdSet
<1>7. e.x - 1 \in Nat
    BY <1>1
<1>. HIDE DEF f, line
<1>8. /\ IsEd(f) /\ UndoInv(f) /\ Numbered(f) /\ Tracks(e, f)
      /\ f.sel = e.sel /\ f.events = e.events /\ f.ok = e.ok
    <2>. DEFINE x == e.x - 1
    <2>1. f = WithLine(e, line, x)
        BY ONLY <1>6 DEF u, WithLine
    <2>2. x \in Nat /\ x <= Len(line)
        BY <1>3, <1>7
    <2>. HIDE DEF x
    <2>. QED
        BY ONLY <1>3, <2>1, <2>2, EdInv(e), LineReplaced
<1>9. SelInv(f)
    BY <1>8 DEF EdInv, SelInv, Stale
<1>. QED
    BY <1>8, <1>9 DEF EdInv, f

\* ed_backspace at the start of a line: it is joined to the one above, and the
\* lines below move up.
LEMMA BackspaceJoins ==
    ASSUME NEW e, EdInv(e), ~ e.sel, ~ (e.x > 0)
    PROVE  EdInv(Backspace(e)) /\ Tracks(e, Backspace(e))
<1>. DEFINE joins == e.x = 0 /\ e.y > 0 /\ Len(e.lines[e.y - 1]) + Len(Line(e)) < LineLen - 1
<1>0. /\ IsEd(e) /\ e \in EdSet /\ e.lines \in [LineNos -> Lines] /\ e.y \in LineNos
      /\ e.x \in Nat /\ e.count \in Int /\ e.count <= MaxLines
    BY DEF EdInv, IsEd, EdSet
<1>1. CASE ~ joins
    <2>1. joins = FALSE
        BY <1>1
    <2>. HIDE DEF joins
    <2>2. Backspace(e) = SaveUndo(e, TRUE)
        BY <2>1 DEF Backspace, joins
    <2>. QED
        BY <2>2, SaveInv
<1>2. CASE joins
    <2>. DEFINE u == SaveUndo(e, FALSE)
                above == e.lines[e.y - 1]
                lines == [i \in LineNos |->
                            IF i = e.y - 1 THEN u.lines[i] \o Line(e)
                            ELSE IF i \in e.y .. e.count - 2 THEN u.lines[i + 1]
                            ELSE u.lines[i]]
                g == [u EXCEPT !.lines = lines, !.count = e.count - 1, !.y = e.y - 1,
                               !.x = Len(above)]
                f == Redraw(g, e.y - 1, e.count - 1)
    <2>1. joins = TRUE /\ e.y - 1 \in LineNos /\ e.x = 0
        BY <1>0, <1>2, EditorAssumption DEF LineNos
    <2>2. /\ u \in EdSet /\ u.past = <<>> /\ u.ahead = <<>> /\ u.lines = e.lines
          /\ u.count = e.count /\ u.y = e.y /\ u.x = e.x
          /\ u.sel = e.sel /\ u.dirty = e.dirty /\ u.events = e.events /\ u.ok = e.ok
        BY <1>0, SaveFields
    <2>3. above \in Seq(Chars) /\ Line(e) \in Seq(Chars) /\ Len(above) \in Nat /\ Len(Line(e)) \in Nat
        BY <1>0, <2>1 DEF Lines, Line
    <2>4. above \o Line(e) \in Lines /\ Len(above) <= Len(above \o Line(e))
        <3>1. above \o Line(e) \in Seq(Chars) /\ Len(above \o Line(e)) = Len(above) + Len(Line(e))
            BY <2>3, ConcatProperties
        <3>2. Len(above) + Len(Line(e)) < LineLen
            BY <1>2, <2>3, EditorAssumption
        <3>. HIDE DEF above
        <3>. QED
            BY <2>3, <3>1, <3>2 DEF Lines
    <2>5. Backspace(e) = f
        <3>. HIDE DEF joins
        <3>. QED
            BY <2>1, <2>2 DEF Backspace, joins, EdSet
    <2>. HIDE DEF u, joins
    <2>6. lines \in [LineNos -> Lines] /\ lines[e.y - 1] = above \o Line(e)
        <3>1. \A i \in LineNos : u.lines[i] \in Lines
            BY <1>0, <2>2
        <3>2. \A i \in e.y .. e.count - 2 : i + 1 \in LineNos
            BY <1>0, EditorAssumption DEF LineNos
        <3>3. u.lines[e.y - 1] \o Line(e) = above \o Line(e)
            BY <2>2
        <3>. QED
            BY <2>1, <2>4, <3>1, <3>2, <3>3
    <2>7. \A i \in LineNos : i < e.y - 1 => lines[i] = e.lines[i]
        BY <1>0, <2>2 DEF LineNos
    <2>. HIDE DEF lines
    <2>8. /\ g \in EdSet /\ g.past = <<>> /\ g.ahead = <<>> /\ g.lines = lines
          /\ g.count = e.count - 1 /\ g.y = e.y - 1 /\ g.x = Len(above)
          /\ g.sel = e.sel /\ g.dirty = e.dirty /\ g.events = e.events /\ g.ok = e.ok
        <3>. DEFINE n == e.count - 1
                    m == e.y - 1
                    x == Len(above)
        <3>1. n \in Int /\ m \in LineNos /\ x \in Nat
            BY <1>0, <2>1, <2>3
        <3>2. g = [u EXCEPT !.lines = lines, !.count = n, !.y = m, !.x = x]
            OBVIOUS
        <3>. HIDE DEF n, m, x, g
        <3>. QED
            BY <2>2, <2>6, <3>1, <3>2 DEF EdSet, n, m, x
    <2>. HIDE DEF g
    <2>9. e.y - 1 \in Int /\ e.count - 1 \in Int
        BY <1>0 DEF LineNos
    <2>10. /\ f \in EdSet /\ f.past = <<>> /\ f.ahead = <<>> /\ f.lines = lines
           /\ f.count = e.count - 1 /\ f.y = e.y - 1 /\ f.x = Len(above)
           /\ f.dirty = e.dirty \cup ((e.y - 1 .. e.count - 1) \cap LineNos)
           /\ f.sel = e.sel /\ f.events = e.events /\ f.ok = e.ok
        <3>1. Redrawn(g, f, e.y - 1, e.count - 1)
            BY ONLY <2>8, <2>9, RedrawMarks
        <3>. HIDE DEF f
        <3>. QED
            BY ONLY <2>8, <3>1 DEF Redrawn
    <2>. HIDE DEF f
    <2>11. IsEd(f)
        <3>1. f.count <= MaxLines
            BY <1>0, <2>10, EditorAssumption
        <3>2. f.x <= Len(f.lines[f.y])
            BY ONLY <2>4, <2>6, <2>10
        <3>. QED
            BY ONLY <2>10, <3>1, <3>2 DEF IsEd
    <2>12. f.ok /\ "undo" \notin f.events => f.y < f.count
        BY <1>0, <2>10 DEF EdInv, Numbered, LineNos
    <2>13. UndoInv(f) /\ Numbered(f)
        BY <2>10, <2>11, <2>12, AcrossRings
    <2>14. SelInv(f)
        BY <2>10 DEF EdInv, SelInv, Stale
    <2>15. Tracks(e, f)
        <3>1. f.ok /\ "undo" \notin f.events =>
                 \A i \in 0 .. f.count - 1 :
                    i \notin e.y - 1 .. e.count - 1 => i < e.count /\ f.lines[i] = e.lines[i]
            <4>. SUFFICES ASSUME NEW i \in 0 .. f.count - 1, i \notin e.y - 1 .. e.count - 1
                          PROVE  i < e.count /\ f.lines[i] = e.lines[i]
                OBVIOUS
            <4>1. i < e.count /\ i < e.y - 1 /\ i \in LineNos
                BY <1>0, <2>10, EditorAssumption DEF LineNos
            <4>. QED
                BY <2>7, <2>10, <4>1
        <3>2. e.events \subseteq f.events /\ (f.ok => e.ok)
            BY <2>10
        <3>. QED
            BY ONLY <1>0, <2>9, <2>10, <2>11, <3>1, <3>2, TracksRange
    <2>. QED
        BY <2>5, <2>11, <2>13, <2>14, <2>15 DEF EdInv
<1>. QED
    BY <1>1, <1>2

\* ed_backspace.
LEMMA BackspaceInv ==
    ASSUME NEW e, EdInv(e), ~ e.sel
    PROVE  EdInv(Backspace(e)) /\ Tracks(e, Backspace(e))
<1>. QED
    BY BackspaceInLine, BackspaceJoins

-----------------------------------------------------------------------------
\* The selection is dropped at the end of ed_delete_selection.
LEMMA Unselected ==
    ASSUME NEW e, IsEd(e), UndoInv(e), Numbered(e), e.events = {} => e.ok,
           NEW f, f = [e EXCEPT !.sel = FALSE]
    PROVE  /\ EdInv(f) /\ \A d : Tracks(d, e) => Tracks(d, f)
           /\ ~ f.sel /\ f.ok = e.ok
<1>1. e \in EdSet
    BY DEF IsEd
<1>2. /\ f \in EdSet /\ f.sel = FALSE /\ f.events = e.events /\ f.ok = e.ok
      /\ f.lines = e.lines /\ f.count = e.count /\ f.x = e.x /\ f.y = e.y /\ f.dirty = e.dirty
      /\ f.undo = e.undo /\ f.redo = e.redo /\ f.past = e.past /\ f.ahead = e.ahead
    BY <1>1 DEF EdSet
<1>3. IsEd(f)
    BY <1>2 DEF IsEd
<1>4. UndoInv(f) /\ Numbered(f)
    BY <1>2, <1>3, TextRings DEF TextOf, Numbered
<1>5. SelInv(f)
    BY <1>2 DEF SelInv, Stale
<1>6. \A d : Tracks(d, e) => Tracks(d, f)
    BY <1>2 DEF Tracks
<1>. QED
    BY <1>2, <1>3, <1>4, <1>5, <1>6 DEF EdInv

\* What ed_delete_selection makes of the one line: it fits when the cursor is
\* the first end of the selection.
LEMMA DeletedLine ==
    ASSUME NEW s \in Seq(Chars), Len(s) < LineLen, NEW x \in 0 .. Len(s), NEW sx \in 0 .. Len(s),
           NEW new, new = [i \in 1 .. Len(s) - (sx - x) |->
                             IF i <= x THEN s[i]
                             ELSE IF sx - x >= 0 THEN s[i + (sx - x)]
                             ELSE s[sx + 1 + ((i - 1 - sx) % (-(sx - x)))]]
    PROVE  new \in Seq(Chars) /\ Len(new) = Len(s) - (sx - x) /\ x <= Len(new)
<1>1. Len(s) \in Nat /\ \A i \in 1 .. Len(s) : s[i] \in Chars
    BY LenProperties, ElementOfSeq
<1>. DEFINE n == Len(s) - (sx - x)
<1>2. n \in Nat /\ x <= n
    BY <1>1
<1>3. new \in [1 .. n -> Chars]
    <2>. SUFFICES ASSUME NEW i \in 1 .. n
                  PROVE  (IF i <= x THEN s[i]
                          ELSE IF sx - x >= 0 THEN s[i + (sx - x)]
                          ELSE s[sx + 1 + ((i - 1 - sx) % (-(sx - x)))]) \in Chars
        OBVIOUS
    <2>1. CASE i <= x
        BY <1>1, <2>1
    <2>2. CASE ~ (i <= x) /\ sx - x >= 0
        <3>1. i + (sx - x) \in 1 .. Len(s)
            BY <1>1, <2>2
        <3>. QED
            BY <1>1, <2>2, <3>1
    <2>3. CASE ~ (i <= x) /\ ~ (sx - x >= 0)
        <3>. DEFINE w == -(sx - x)
                    m == (i - 1 - sx) % w
        <3>1. w \in Nat /\ w > 0 /\ i - 1 - sx \in Int /\ sx + w = x
            BY <1>1, <2>3
        <3>. HIDE DEF w
        <3>2. m \in 0 .. w - 1
            BY <3>1
        <3>. HIDE DEF m
        <3>3. sx + 1 + m \in 1 .. Len(s)
            BY <1>1, <3>1, <3>2
        <3>4. s[sx + 1 + m] \in Chars
            BY <1>1, <3>3
        <3>. QED
            BY <2>3, <3>4 DEF m, w
    <2>. QED
        BY <2>1, <2>2, <2>3
<1>. QED
    BY ONLY <1>2, <1>3, Counted

\* ed_delete_selection within a line.
LEMMA DeleteInLineInv ==
    ASSUME NEW e, EdInv(e), e.sel, ~ Stale(e), e.sy = e.y, Forward(e) => e.events # {},
           NEW f, f = [DeleteInLine(SaveUndo(e, TRUE)) EXCEPT !.sel = FALSE]
    PROVE  EdInv(f) /\ Tracks(e, f) /\ ~ f.sel
<1>. DEFINE u == SaveUndo(e, TRUE)
            s == e.lines[e.y]
            x == e.x
            sx == e.sx
            new == [i \in 1 .. Len(s) - (sx - x) |->
                             IF i <= x THEN s[i]
                             ELSE IF sx - x >= 0 THEN s[i + (sx - x)]
                             ELSE s[sx + 1 + ((i - 1 - sx) % (-(sx - x)))]]
            r == Redraw([u EXCEPT !.lines[e.y] = new], e.y, e.y)
<1>1. /\ IsEd(e) /\ e \in EdSet /\ e.lines \in [LineNos -> Lines] /\ e.y \in LineNos
      /\ x \in Nat /\ x <= Len(s) /\ sx \in Nat /\ sx <= Len(s)
    BY DEF EdInv, IsEd, EdSet, Stale, LineNos
<1>2. s \in Seq(Chars) /\ Len(s) < LineLen /\ Len(s) \in Nat
    BY <1>1 DEF Lines
<1>3. /\ u \in EdSet /\ u.lines = e.lines /\ u.x = e.x /\ u.y = e.y /\ u.sx = e.sx
      /\ u.events = e.events /\ u.ok = e.ok
    BY <1>1, SaveFields
<1>4. new \in Seq(Chars) /\ Len(new) = Len(s) - (sx - x) /\ x <= Len(new)
    <2>. HIDE DEF s, x, sx
    <2>1. x \in 0 .. Len(s) /\ sx \in 0 .. Len(s)
        BY <1>1, <1>2
    <2>. QED
        BY ONLY <1>2, <2>1, DeletedLine
<1>5. DeleteInLine(u) = IF Len(new) >= LineLen THEN Broken(u) ELSE r
    <2>. HIDE DEF u
    <2>. QED
        BY <1>3 DEF DeleteInLine, Line
<1>6. CASE Len(new) >= LineLen
    <2>1. EdInv(u) /\ Tracks(e, u)
        BY SaveInv
    <2>2. u.events # {}
        <3>1. Forward(e)
            <4>. HIDE DEF new, s
            <4>1. sx < x
                BY <1>1, <1>2, <1>4, <1>6, EditorAssumption
            <4>. QED
                BY <1>1, <4>1 DEF Forward, LineNos
        <3>. HIDE DEF u
        <3>. QED
            BY <1>3, <3>1
    <2>. HIDE DEF u, new
    <2>3. EdInv(Broken(u)) /\ Tracks(e, Broken(u))
        BY <2>1, <2>2, BrokenInv DEF EdInv
    <2>4. f = [Broken(u) EXCEPT !.sel = FALSE]
        BY <1>5, <1>6 DEF u
    <2>. QED
        BY <2>3, <2>4, Unselected DEF EdInv, SelInv
<1>7. CASE ~ (Len(new) >= LineLen)
    <2>1. new \in Lines
        <3>. HIDE DEF new, s
        <3>. QED
            BY <1>1, <1>2, <1>4, <1>7, EditorAssumption DEF Lines
    <2>2. r = Redraw([u EXCEPT !.lines = [e.lines EXCEPT ![e.y] = new], !.x = x], e.y, e.y)
        <3>. HIDE DEF u, new
        <3>. QED
            BY <1>3 DEF EdSet
    <2>3. f = [r EXCEPT !.sel = FALSE]
        <3>. HIDE DEF r, new
        <3>. QED
            BY <1>5, <1>7
    <2>. HIDE DEF r, new
    <2>4. /\ IsEd(r) /\ UndoInv(r) /\ Numbered(r) /\ Tracks(e, r)
          /\ r.sel = e.sel /\ r.events = e.events /\ r.ok = e.ok
        <3>1. x \in Nat /\ x <= Len(new)
            BY <1>1, <1>4
        <3>2. r = WithLine(e, new, x)
            BY ONLY <2>2 DEF u, WithLine
        <3>. HIDE DEF x
        <3>. QED
            BY ONLY <2>1, <3>1, <3>2, EdInv(e), LineReplaced
    <2>5. r.events = {} => r.ok
        BY <2>4 DEF EdInv, SelInv
    <2>. QED
        BY ONLY <2>3, <2>4, <2>5, Unselected
<1>. QED
    BY <1>6, <1>7

\* What ed_delete_selection makes of the lines when the ends are on different
\* ones.
RowsLeft(base, y, sy, count) ==
    [i \in LineNos |->
        IF i <= y \/ i >= count - (sy - y) THEN base[i]
        ELSE IF sy - y > 0 THEN base[i + (sy - y)]
        ELSE base[sy + 1 + ((i - sy - 1) % (-(sy - y)))]]

\* They are lines, and those above stay (ed_delete_selection).
LEMMA DeletedRows ==
    ASSUME NEW base \in [LineNos -> Lines], NEW y \in LineNos, NEW sy \in LineNos, y # sy,
           NEW count \in Int, count <= MaxLines, sy < count,
           NEW moved, moved = RowsLeft(base, y, sy, count)
    PROVE  moved \in [LineNos -> Lines] /\ \A i \in LineNos : i <= y => moved[i] = base[i]
<1>0. y \in Int /\ sy \in Int /\ y >= 0 /\ sy >= 0 /\ MaxLines \in Nat /\ y < MaxLines
    BY EditorAssumption DEF LineNos
<1>1. \A i \in LineNos : base[i] \in Lines
    OBVIOUS
<1>2. ASSUME NEW i \in LineNos
      PROVE  (IF i <= y \/ i >= count - (sy - y) THEN base[i]
                    ELSE IF sy - y > 0 THEN base[i + (sy - y)]
                    ELSE base[sy + 1 + ((i - sy - 1) % (-(sy - y)))]) \in Lines
    <2>0. i \in Int /\ i >= 0
        BY DEF LineNos
    <2>1. CASE i <= y \/ i >= count - (sy - y)
        BY <1>1, <2>1
    <2>2. CASE ~ (i <= y \/ i >= count - (sy - y)) /\ sy - y > 0
        <3>1. i + (sy - y) \in LineNos
            BY <1>0, <2>0, <2>2 DEF LineNos
        <3>. QED
            BY <1>1, <2>2, <3>1
    <2>3. CASE ~ (i <= y \/ i >= count - (sy - y)) /\ ~ (sy - y > 0)
        <3>. DEFINE w == -(sy - y)
                    m == (i - sy - 1) % w
        <3>1. w \in Nat /\ w > 0 /\ i - sy - 1 \in Int /\ sy + w = y
            BY <1>0, <2>0, <2>3
        <3>. HIDE DEF w
        <3>2. m \in 0 .. w - 1
            BY <3>1
        <3>. HIDE DEF m
        <3>3. sy + 1 + m \in LineNos
            BY <1>0, <3>1, <3>2 DEF LineNos
        <3>4. base[sy + 1 + m] \in Lines
            BY <1>1, <3>3
        <3>. QED
            BY <2>3, <3>4 DEF m, w
    <2>. QED
        BY <2>1, <2>2, <2>3
<1>3. moved \in [LineNos -> Lines]
    BY ONLY <1>2, moved = RowsLeft(base, y, sy, count) DEF RowsLeft
<1>. QED
    BY <1>3 DEF RowsLeft

\* ed_delete_selection over several lines.
LEMMA DeleteRowsInv ==
    ASSUME NEW e, EdInv(e), e.sel, ~ Stale(e), e.sy # e.y, Forward(e) => e.events # {},
           NEW f, f = [DeleteRows(SaveUndo(e, FALSE)) EXCEPT !.sel = FALSE]
    PROVE  EdInv(f) /\ Tracks(e, f) /\ ~ f.sel
<1>. DEFINE u == SaveUndo(e, FALSE)
            y == u.y
            sy == u.sy
            count == u.count
            tail == From(u.lines[sy], u.sx)
            joined == Before(u.lines[y], u.x) \o (IF u.x + Len(tail) < LineLen - 1 THEN tail ELSE <<>>)
            base == [u.lines EXCEPT ![y] = joined]
            moved == [i \in LineNos |->
                    IF i <= y \/ i >= count - (sy - y) THEN base[i]
                    ELSE IF sy - y > 0 THEN base[i + (sy - y)]
                    ELSE base[sy + 1 + ((i - sy - 1) % (-(sy - y)))]]
            g == [u EXCEPT !.lines = moved, !.count = count - (sy - y)]
            r == Redraw(g, y, count - (sy - y))
<1>0. /\ IsEd(e) /\ e \in EdSet /\ e.lines \in [LineNos -> Lines]
      /\ e.y \in LineNos /\ e.sy \in LineNos
      /\ e.y # e.sy /\ e.count \in Int /\ e.count <= MaxLines /\ e.sy < e.count
      /\ e.x \in Nat /\ e.x <= Len(e.lines[e.y]) /\ e.sx \in Nat /\ e.sx <= Len(e.lines[e.sy])
    <2>1. IsEd(e) /\ e \in EdSet /\ e.count <= MaxLines /\ e.x <= Len(e.lines[e.y])
        BY ONLY EdInv(e) DEF EdInv, IsEd
    <2>2. /\ e.lines \in [LineNos -> Lines] /\ e.y \in LineNos /\ e.sy \in LineNos
          /\ e.count \in Int /\ e.x \in Nat /\ e.sx \in Nat
        BY ONLY <2>1 DEF EdSet
    <2>3. Len(e.lines[e.sy]) \in Nat
        BY ONLY <2>2 DEF Lines
    <2>4. e.sy \in Int
        BY <2>2 DEF LineNos
    <2>5. ~ (e.sy >= e.count) /\ ~ (e.sx > Len(e.lines[e.sy]))
        BY ONLY e.sel, ~ Stale(e) DEF Stale
    <2>. QED
        BY ONLY <2>1, <2>2, <2>3, <2>4, <2>5, e.sy # e.y
<1>2. /\ u \in EdSet /\ u.past = <<>> /\ u.ahead = <<>> /\ u.lines = e.lines
      /\ u.count = e.count /\ u.y = e.y /\ u.x = e.x /\ u.sy = e.sy /\ u.sx = e.sx
      /\ u.sel = e.sel /\ u.dirty = e.dirty /\ u.events = e.events /\ u.ok = e.ok
    BY <1>0, SaveFields
<1>7. DeleteRows(u) = IF count - (sy - y) > MaxLines THEN Broken(u) ELSE r
    <2>. HIDE DEF u
    <2>. QED
        BY DEF DeleteRows, Line
<1>. HIDE DEF u
<1>1. /\ IsEd(e) /\ e \in EdSet /\ e.lines \in [LineNos -> Lines] /\ y \in LineNos /\ sy \in LineNos
      /\ y # sy /\ count \in Int /\ count <= MaxLines /\ sy < count
      /\ e.x \in Nat /\ e.x <= Len(e.lines[y]) /\ e.sx \in Nat /\ e.sx <= Len(e.lines[sy])
      /\ y = e.y /\ sy = e.sy /\ count = e.count
    BY <1>0, <1>2
<1>. HIDE DEF y, sy, count
<1>3. joined \in Lines /\ e.x <= Len(joined)
    <2>. DEFINE s == e.lines[y]
                t == e.lines[sy]
                rest == IF e.x + Len(tail) < LineLen - 1 THEN tail ELSE <<>>
    <2>1. /\ s \in Seq(Chars) /\ Len(s) < LineLen /\ Len(s) \in Nat
          /\ t \in Seq(Chars) /\ Len(t) < LineLen /\ Len(t) \in Nat
        BY <1>1 DEF Lines
    <2>. HIDE DEF s, t
    <2>2. e.x \in 0 .. Len(s) /\ e.sx \in 0 .. Len(t)
        BY <1>1, <2>1 DEF s, t
    <2>3. /\ Before(s, e.x) \in Seq(Chars) /\ Len(Before(s, e.x)) = e.x
        BY ONLY <2>1, <2>2, Halves
    <2>4. From(t, e.sx) \in Seq(Chars) /\ Len(From(t, e.sx)) = Len(t) - e.sx
        BY ONLY <2>1, <2>2, Halves
    <2>5. tail \in Seq(Chars) /\ Len(tail) \in Nat
        BY <1>1, <1>2, <2>1, <2>2, <2>4 DEF t
    <2>. HIDE DEF tail
    <2>6. rest \in Seq(Chars) /\ Len(rest) \in Nat /\ e.x + Len(rest) < LineLen
        <3>1. Len(<<>>) = 0 /\ <<>> \in Seq(Chars)
            OBVIOUS
        <3>. QED
            BY ONLY <1>1, <2>1, <2>2, <2>5, <3>1, EditorAssumption
    <2>. HIDE DEF rest
    <2>7. Before(s, e.x) \o rest \in Seq(Chars) /\ Len(Before(s, e.x) \o rest) = e.x + Len(rest)
        <3>1. PICK h \in Seq(Chars), k \in Seq(Chars) : h = Before(s, e.x) /\ k = rest
            BY <2>3, <2>6
        <3>2. h \o k \in Seq(Chars) /\ Len(h \o k) = Len(h) + Len(k)
            BY ONLY ConcatProperties
        <3>. QED
            BY ONLY <2>3, <3>1, <3>2
    <2>8. joined = Before(s, e.x) \o rest
        BY <1>2 DEF rest, s
    <2>. HIDE DEF joined
    <2>. QED
        <3>1. e.x \in Nat
            BY <1>1
        <3>2. Len(joined) < LineLen /\ e.x <= Len(joined) /\ joined \in Seq(Chars)
            BY ONLY <2>6, <2>7, <2>8, <3>1
        <3>. QED
            BY ONLY <3>2 DEF Lines
<1>. HIDE DEF joined, tail
<1>4. /\ base \in [LineNos -> Lines] /\ base[y] = joined
      /\ \A i \in LineNos : i # y => base[i] = e.lines[i]
    <2>1. base = [e.lines EXCEPT ![y] = joined]
        BY <1>2
    <2>. HIDE DEF base
    <2>2. e.lines \in [LineNos -> Lines] /\ y \in LineNos /\ joined \in Lines
        BY <1>1, <1>3
    <2>. QED
        BY ONLY <2>1, <2>2
<1>. HIDE DEF base
<1>5. moved \in [LineNos -> Lines] /\ \A i \in LineNos : i <= y => moved[i] = base[i]
    <2>1. moved = [i \in LineNos |->
                    IF i <= y \/ i >= count - (sy - y) THEN base[i]
                    ELSE IF sy - y > 0 THEN base[i + (sy - y)]
                    ELSE base[sy + 1 + ((i - sy - 1) % (-(sy - y)))]]
        OBVIOUS
    <2>. HIDE DEF moved
    <2>2. /\ base \in [LineNos -> Lines] /\ y \in LineNos /\ sy \in LineNos /\ y # sy
          /\ count \in Int /\ count <= MaxLines /\ sy < count
        BY <1>1, <1>4
    <2>3. moved = RowsLeft(base, y, sy, count)
        BY ONLY <2>1 DEF RowsLeft
    <2>. QED
        BY ONLY <2>2, <2>3, DeletedRows
<1>6. moved[y] = joined /\ \A i \in LineNos : i < y => moved[i] = e.lines[i]
    BY <1>1, <1>4, <1>5 DEF LineNos
<1>. HIDE DEF moved
<1>8. CASE count - (sy - y) > MaxLines
    <2>1. u.events # {}
        <3>1. /\ y \in Int /\ sy \in Int /\ count \in Int /\ count <= MaxLines /\ MaxLines \in Nat
              /\ count - (sy - y) > MaxLines
            BY <1>1, <1>8, EditorAssumption DEF LineNos
        <3>2. sy < y
            BY ONLY <3>1
        <3>3. Forward(e)
            BY <1>1, <3>2 DEF Forward
        <3>. HIDE DEF u
        <3>. QED
            BY <1>2, <3>3
    <2>. HIDE DEF u
    <2>2. IsEd(u)
        BY <1>1, <1>2 DEF IsEd
    <2>3. UndoInv(u)
        BY <1>2, LeadsNowhere DEF UndoInv, EdSet
    <2>4. EdInv(Broken(u)) /\ Tracks(e, Broken(u))
        BY <2>1, <2>2, <2>3, BrokenInv
    <2>5. f = [Broken(u) EXCEPT !.sel = FALSE]
        BY <1>7, <1>8 DEF u
    <2>. QED
        BY <2>4, <2>5, Unselected DEF EdInv, SelInv
<1>9. CASE ~ (count - (sy - y) > MaxLines)
    <2>. HIDE DEF u
    <2>1. /\ g \in EdSet /\ g.past = <<>> /\ g.ahead = <<>> /\ g.lines = moved
          /\ g.count = count - (sy - y) /\ g.y = y /\ g.x = e.x
          /\ g.dirty = e.dirty /\ g.events = e.events /\ g.ok = e.ok
        <3>. DEFINE n == count - (sy - y)
        <3>1. n \in Int
            BY <1>1 DEF LineNos
        <3>2. g = [u EXCEPT !.lines = moved, !.count = n]
            OBVIOUS
        <3>. HIDE DEF n, g
        <3>. QED
            BY <1>1, <1>2, <1>5, <3>1, <3>2 DEF EdSet, n
    <2>. HIDE DEF g
    <2>2. y \in Int /\ count - (sy - y) \in Int
        BY <1>1 DEF LineNos
    <2>3. /\ r \in EdSet /\ r.past = <<>> /\ r.ahead = <<>> /\ r.lines = moved
          /\ r.count = count - (sy - y) /\ r.y = y /\ r.x = e.x
          /\ r.dirty = e.dirty \cup ((y .. count - (sy - y)) \cap LineNos)
          /\ r.events = e.events /\ r.ok = e.ok
        <3>1. Redrawn(g, r, y, count - (sy - y))
            BY ONLY <2>1, <2>2, RedrawMarks
        <3>. HIDE DEF r
        <3>. QED
            BY ONLY <2>1, <3>1 DEF Redrawn
    <2>4. f = [r EXCEPT !.sel = FALSE]
        <3>. HIDE DEF r
        <3>. QED
            BY <1>7, <1>9 DEF u
    <2>. HIDE DEF r
    <2>5. IsEd(r)
        <3>1. r.count <= MaxLines
            BY ONLY <1>9, <2>2, <2>3, EditorAssumption
        <3>2. r.x <= Len(r.lines[r.y])
            BY ONLY <1>3, <1>6, <2>3
        <3>. QED
            BY ONLY <2>3, <3>1, <3>2 DEF IsEd
    <2>6. r.y < r.count
        BY <1>1, <2>3 DEF LineNos
    <2>7. UndoInv(r) /\ Numbered(r)
        BY <2>3, <2>5, <2>6, AcrossRings
    <2>8. r.events = {} => r.ok
        BY <2>3 DEF EdInv, SelInv
    <2>9. Tracks(e, r)
        <3>1. r.ok /\ "undo" \notin r.events =>
                 \A i \in 0 .. r.count - 1 :
                    i \notin y .. count - (sy - y) => i < e.count /\ r.lines[i] = e.lines[i]
            <4>. SUFFICES ASSUME r.ok, "undo" \notin r.events,
                                 NEW i \in 0 .. r.count - 1, i \notin y .. count - (sy - y)
                          PROVE  i < e.count /\ r.lines[i] = e.lines[i]
                OBVIOUS
            <4>1. y < count
                BY <1>1, <2>3 DEF EdInv, Numbered
            <4>2. i \in Int /\ i >= 0 /\ i < y
                BY <2>2, <2>3
            <4>3. i < e.count /\ i \in LineNos
                <5>1. count \in Int /\ count <= MaxLines /\ count = e.count /\ MaxLines \in Nat /\ y \in Int
                    BY <1>1, <2>2, EditorAssumption
                <5>. QED
                    BY ONLY <4>1, <4>2, <5>1 DEF LineNos
            <4>. QED
                BY ONLY <1>6, <2>3, <4>2, <4>3
        <3>2. e.events \subseteq r.events /\ (r.ok => e.ok)
            BY <2>3
        <3>. QED
            BY ONLY <1>1, <2>2, <2>3, <2>5, <3>1, <3>2, TracksRange
    <2>. QED
        BY ONLY <2>4, <2>5, <2>7, <2>8, <2>9, Unselected
<1>. QED
    BY <1>8, <1>9

\* ed_delete_selection.
LEMMA DeleteSelectionInv ==
    ASSUME NEW e, EdInv(e)
    PROVE  EdInv(DeleteSelection(e)) /\ Tracks(e, DeleteSelection(e))
<1>0. IsEd(e)
    BY DEF EdInv
<1>1. CASE ~ e.sel
    BY <1>0, <1>1, TracksSame DEF DeleteSelection
<1>2. CASE e.sel /\ Stale(e)
    <2>1. e.events # {}
        BY <1>2 DEF EdInv, SelInv
    <2>. QED
        BY <1>2, <2>1, BrokenInv DEF DeleteSelection, EdInv
<1>3. CASE e.sel /\ ~ Stale(e)
    <2>. DEFINE d == IF Forward(e) THEN Note(e, "forward") ELSE e
                f == DeleteSelection(e)
    <2>1. /\ EdInv(d) /\ Tracks(e, d) /\ d.sel = e.sel /\ d.sy = e.sy /\ d.y = e.y
          /\ ~ Stale(d) /\ (Forward(d) => d.events # {})
        <3>1. CASE Forward(e)
            <4>1. "forward" \in Events
                BY DEF Events
            <4>2. /\ EdInv(Note(e, "forward")) /\ Tracks(e, Note(e, "forward"))
                  /\ Note(e, "forward").events = e.events \cup {"forward"}
                  /\ Note(e, "forward").lines = e.lines /\ Note(e, "forward").count = e.count
                  /\ Note(e, "forward").x = e.x /\ Note(e, "forward").y = e.y
                  /\ Note(e, "forward").sel = e.sel
                  /\ Note(e, "forward").sx = e.sx /\ Note(e, "forward").sy = e.sy
                BY <4>1, NoteInv
            <4>3. d = Note(e, "forward")
                BY <3>1
            <4>. QED
                BY <1>3, <4>2, <4>3 DEF Stale
        <3>2. CASE ~ Forward(e)
            <4>1. d = e
                BY <3>2
            <4>. QED
                BY <1>0, <1>3, <3>2, <4>1, TracksSame
        <3>. QED
            BY <3>1, <3>2
    <2>2. f = [(IF d.sy = d.y THEN DeleteInLine(SaveUndo(d, e.sy = e.y))
                ELSE DeleteRows(SaveUndo(d, e.sy = e.y))) EXCEPT !.sel = FALSE]
        <3>1. e.sy = d.sy /\ e.y = d.y
            BY <2>1
        <3>2. SaveUndo(d, e.sy = e.y).sy = d.sy /\ SaveUndo(d, e.sy = e.y).y = d.y
            BY <2>1, SaveFields DEF EdInv
        <3>. QED
            BY <1>3, <3>1, <3>2 DEF DeleteSelection
    <2>. HIDE DEF d, f
    <2>3. EdInv(f) /\ Tracks(d, f)
        <3>1. CASE d.sy = d.y
            <4>1. (e.sy = e.y) = TRUE
                BY <2>1, <3>1
            <4>2. f = [DeleteInLine(SaveUndo(d, TRUE)) EXCEPT !.sel = FALSE]
                BY <2>2, <3>1, <4>1
            <4>3. d.sel
                BY <1>3, <2>1
            <4>. QED
                BY ONLY <2>1, <3>1, <4>2, <4>3, DeleteInLineInv
        <3>2. CASE d.sy # d.y
            <4>1. (e.sy = e.y) = FALSE
                BY <2>1, <3>2
            <4>2. f = [DeleteRows(SaveUndo(d, FALSE)) EXCEPT !.sel = FALSE]
                BY <2>2, <3>2, <4>1
            <4>3. d.sel
                BY <1>3, <2>1
            <4>. QED
                BY ONLY <2>1, <3>2, <4>2, <4>3, DeleteRowsInv
        <3>. QED
            BY <3>1, <3>2
    <2>. QED
        BY <2>1, <2>3, TracksOn DEF EdInv, f
<1>. QED
    BY <1>1, <1>2, <1>3

-----------------------------------------------------------------------------
\* A handler that leaves the text alone: the cursor or the selection moves
\* (ed_move_up, ed_start_sel).
LEMMA TextKept ==
    ASSUME NEW e, EdInv(e), NEW f \in EdSet, TextOf(e, f), f.events = e.events, f.ok = e.ok,
           e.dirty \subseteq f.dirty, f.x <= Len(f.lines[f.y]),
           f.ok /\ "undo" \notin f.events => f.y < f.count,
           f.events = {} => ~ Stale(f)
    PROVE  EdInv(f) /\ Tracks(e, f)
<1>1. IsEd(e) /\ e.count \in Int /\ e.count <= MaxLines
    BY DEF EdInv, IsEd, EdSet
<1>2. IsEd(f)
    BY <1>1 DEF IsEd, TextOf
<1>3. UndoInv(f) /\ Numbered(f)
    BY <1>1, <1>2, TextRings DEF EdInv
<1>4. SelInv(f)
    BY DEF EdInv, SelInv
<1>5. Tracks(e, f)
    BY <1>1 DEF Tracks, TextOf
<1>. QED
    BY <1>2, <1>3, <1>4, <1>5 DEF EdInv

\* The cursor is put into another place of the text.
LEMMA CursorMoved ==
    ASSUME NEW e, EdInv(e), NEW y \in LineNos, NEW x \in Nat, x <= Len(e.lines[y]),
           e.ok /\ "undo" \notin e.events => y < e.count,
           NEW f, f = [e EXCEPT !.y = y, !.x = x]
    PROVE  EdInv(f) /\ Tracks(e, f)
<1>1. e \in EdSet /\ (e.events = {} => ~ Stale(e))
    BY DEF EdInv, IsEd, SelInv
<1>2. /\ f \in EdSet /\ f.undo = e.undo /\ f.past = e.past /\ f.redo = e.redo /\ f.ahead = e.ahead
      /\ f.lines = e.lines /\ f.count = e.count /\ f.events = e.events /\ f.ok = e.ok
      /\ f.x = x /\ f.y = y /\ f.dirty = e.dirty /\ f.sel = e.sel /\ f.sx = e.sx /\ f.sy = e.sy
    BY <1>1 DEF EdSet
<1>3. TextOf(e, f)
    BY <1>2 DEF TextOf
<1>4. f.events = {} => ~ Stale(f)
    BY <1>1, <1>2 DEF Stale
<1>. QED
    BY <1>2, <1>3, <1>4, TextKept

\* ed_move_up, ed_move_down, ed_move_left, ed_move_right: the cursor stays in
\* the text.
LEMMA MovedInv ==
    ASSUME NEW e, EdInv(e), NEW f \in Moved(e)
    PROVE  EdInv(f) /\ Tracks(e, f)
<1>1. /\ IsEd(e) /\ e \in EdSet /\ e.lines \in [LineNos -> Lines] /\ e.y \in LineNos
      /\ e.x \in Nat /\ e.x <= Len(e.lines[e.y]) /\ e.count \in Int /\ e.count <= MaxLines
      /\ (e.ok /\ "undo" \notin e.events => e.y < e.count)
      /\ \A i \in LineNos : Len(e.lines[i]) \in Nat
    BY DEF EdInv, IsEd, EdSet, Numbered, Lines
<1>2. EdInv(e) /\ Tracks(e, e)
    BY <1>1, TracksSame
<1>3. ASSUME NEW y \in LineNos, e.ok /\ "undo" \notin e.events => y < e.count
      PROVE  EdInv(ToLine(e, y)) /\ Tracks(e, ToLine(e, y))
    <2>. DEFINE x == IF e.x > Len(e.lines[y]) THEN Len(e.lines[y]) ELSE e.x
                g == ToLine(e, y)
    <2>1. x \in Nat /\ x <= Len(e.lines[y])
        BY <1>1
    <2>2. g = [e EXCEPT !.y = y, !.x = x]
        BY <1>1 DEF ToLine, EdSet
    <2>. HIDE DEF x, g
    <2>3. EdInv(g) /\ Tracks(e, g)
        BY ONLY <1>2, <1>3, <2>1, <2>2, CursorMoved
    <2>. QED
        BY <2>3 DEF g
<1>4. EdInv(Up(e)) /\ Tracks(e, Up(e))
    <2>1. CASE e.y > 0
        <3>1. e.y - 1 \in LineNos /\ (e.ok /\ "undo" \notin e.events => e.y - 1 < e.count)
            BY <1>1, <2>1, EditorAssumption DEF LineNos
        <3>. QED
            BY <1>3, <2>1, <3>1 DEF Up
    <2>. QED
        BY <1>2, <2>1 DEF Up
<1>5. EdInv(Down(e)) /\ Tracks(e, Down(e))
    <2>1. CASE e.y < e.count - 1
        <3>1. e.y + 1 \in LineNos /\ (e.ok /\ "undo" \notin e.events => e.y + 1 < e.count)
            BY <1>1, <2>1, EditorAssumption DEF LineNos
        <3>. QED
            BY <1>3, <2>1, <3>1 DEF Down
    <2>. QED
        BY <1>2, <2>1 DEF Down
<1>6. EdInv(Left(e)) /\ Tracks(e, Left(e))
    <2>. DEFINE g == Left(e)
    <2>1. CASE e.x > 0
        <3>. DEFINE x == e.x - 1
                    y == e.y
        <3>1. x \in Nat /\ x <= Len(e.lines[y]) /\ y \in LineNos
              /\ (e.ok /\ "undo" \notin e.events => y < e.count)
            BY <1>1, <2>1
        <3>2. g = [e EXCEPT !.y = y, !.x = x]
            BY <1>1, <2>1 DEF Left, EdSet
        <3>. HIDE DEF x, y, g
        <3>3. EdInv(g) /\ Tracks(e, g)
            BY ONLY <1>2, <3>1, <3>2, CursorMoved
        <3>. QED
            BY <3>3 DEF g
    <2>2. CASE ~ (e.x > 0) /\ e.y > 0
        <3>. DEFINE x == Len(e.lines[e.y - 1])
                    y == e.y - 1
        <3>1. x \in Nat /\ x <= Len(e.lines[y]) /\ y \in LineNos
              /\ (e.ok /\ "undo" \notin e.events => y < e.count)
            <4>1. y \in LineNos /\ (e.ok /\ "undo" \notin e.events => y < e.count)
                BY <1>1, <2>2, EditorAssumption DEF LineNos
            <4>. QED
                BY <1>1, <4>1
        <3>2. g = [e EXCEPT !.y = y, !.x = x]
            BY <1>1, <2>2 DEF Left, EdSet
        <3>. HIDE DEF x, y, g
        <3>3. EdInv(g) /\ Tracks(e, g)
            BY ONLY <1>2, <3>1, <3>2, CursorMoved
        <3>. QED
            BY <3>3 DEF g
    <2>. QED
        BY <1>2, <2>1, <2>2 DEF Left
<1>7. EdInv(Right(e)) /\ Tracks(e, Right(e))
    <2>. DEFINE g == Right(e)
    <2>1. CASE e.x < Len(Line(e))
        <3>. DEFINE x == e.x + 1
                    y == e.y
        <3>1. x \in Nat /\ x <= Len(e.lines[y]) /\ y \in LineNos
              /\ (e.ok /\ "undo" \notin e.events => y < e.count)
            BY <1>1, <2>1 DEF Line
        <3>2. g = [e EXCEPT !.y = y, !.x = x]
            BY <1>1, <2>1 DEF Right, EdSet
        <3>. HIDE DEF x, y, g
        <3>3. EdInv(g) /\ Tracks(e, g)
            BY ONLY <1>2, <3>1, <3>2, CursorMoved
        <3>. QED
            BY <3>3 DEF g
    <2>2. CASE ~ (e.x < Len(Line(e))) /\ e.y < e.count - 1
        <3>. DEFINE x == 0
                    y == e.y + 1
        <3>1. x \in Nat /\ x <= Len(e.lines[y]) /\ y \in LineNos
              /\ (e.ok /\ "undo" \notin e.events => y < e.count)
            <4>1. y \in LineNos /\ (e.ok /\ "undo" \notin e.events => y < e.count)
                BY <1>1, <2>2, EditorAssumption DEF LineNos
            <4>. QED
                BY <1>1, <4>1
        <3>2. g = [e EXCEPT !.y = y, !.x = x]
            BY <1>1, <2>2 DEF Right, EdSet
        <3>. HIDE DEF x, y, g
        <3>3. EdInv(g) /\ Tracks(e, g)
            BY ONLY <1>2, <3>1, <3>2, CursorMoved
        <3>. QED
            BY <3>3 DEF g
    <2>. QED
        BY <1>2, <2>1, <2>2 DEF Right
<1>. QED
    BY <1>4, <1>5, <1>6, <1>7 DEF Moved

\* ed_start_sel: a selection starts at the cursor.
LEMMA MarkedInv ==
    ASSUME NEW e, EdInv(e)
    PROVE  EdInv(Marked(e)) /\ Tracks(e, Marked(e))
<1>1. /\ IsEd(e) /\ e \in EdSet /\ e.y \in LineNos /\ e.x \in Nat /\ e.x <= Len(e.lines[e.y])
      /\ (e.ok /\ "undo" \notin e.events => e.y < e.count) /\ e.count \in Int
      /\ e.lines \in [LineNos -> Lines]
    BY DEF EdInv, IsEd, EdSet, Numbered
<1>2. CASE e.sel
    BY <1>1, <1>2, TracksSame DEF Marked
<1>3. CASE ~ e.sel
    <2>. DEFINE x == e.x
                y == e.y
                f == Marked(e)
    <2>1. f = [e EXCEPT !.sel = TRUE, !.sx = x, !.sy = y]
        BY <1>3 DEF Marked
    <2>. HIDE DEF x, y, f
    <2>2. /\ f \in EdSet /\ f.undo = e.undo /\ f.past = e.past /\ f.redo = e.redo
          /\ f.ahead = e.ahead /\ f.lines = e.lines /\ f.count = e.count
          /\ f.events = e.events /\ f.ok = e.ok /\ f.x = e.x /\ f.y = e.y
          /\ f.dirty = e.dirty /\ f.sx = x /\ f.sy = y
        BY <1>1, <2>1 DEF EdSet, x, y
    <2>3. TextOf(e, f)
        BY <2>2 DEF TextOf
    <2>4. f.events = {} => ~ Stale(f)
        <3>1. Len(e.lines[e.y]) \in Nat
            BY <1>1 DEF Lines
        <3>2. e.events = {} => e.y < e.count
            BY <1>1 DEF EdInv, SelInv
        <3>3. ~ (e.sx > e.sx) /\ (e.y < e.count => ~ (e.y >= e.count)) /\ ~ (e.x > Len(e.lines[e.y]))
            BY <1>1, <3>1 DEF LineNos, EdSet
        <3>. QED
            BY <2>2, <3>2, <3>3 DEF Stale, x, y
    <2>5. f.x <= Len(f.lines[f.y]) /\ (f.ok /\ "undo" \notin f.events => f.y < f.count)
        BY <1>1, <2>2
    <2>6. EdInv(f) /\ Tracks(e, f)
        <3>1. f.events = e.events /\ f.ok = e.ok /\ e.dirty \subseteq f.dirty /\ f \in EdSet
            BY <2>2
        <3>. QED
            BY ONLY <3>1, <2>3, <2>4, <2>5, EdInv(e), TextKept
    <2>. QED
        BY <2>6 DEF f
<1>. QED
    BY <1>2, <1>3

\* The rows of the selection are drawn again.
LEMMA SelectionRowsInv ==
    ASSUME NEW e, EdInv(e)
    PROVE  EdInv(SelectionRows(e)) /\ Tracks(e, SelectionRows(e))
<1>. DEFINE a == IF e.sy < e.y THEN e.sy ELSE e.y
            b == IF e.sy < e.y THEN e.y ELSE e.sy
            f == Redraw(e, a, b)
<1>1. /\ IsEd(e) /\ e \in EdSet /\ e.x <= Len(e.lines[e.y]) /\ a \in Int /\ b \in Int
      /\ (e.ok /\ "undo" \notin e.events => e.y < e.count)
      /\ (e.events = {} => ~ Stale(e))
    BY DEF EdInv, IsEd, EdSet, LineNos, Numbered, SelInv
<1>2. SelectionRows(e) = f
    BY DEF SelectionRows
<1>. HIDE DEF a, b
<1>3. /\ f \in EdSet /\ f.dirty = e.dirty \cup ((a .. b) \cap LineNos)
      /\ f.lines = e.lines /\ f.count = e.count /\ f.x = e.x /\ f.y = e.y
      /\ f.sel = e.sel /\ f.sx = e.sx /\ f.sy = e.sy /\ f.undo = e.undo /\ f.redo = e.redo
      /\ f.past = e.past /\ f.ahead = e.ahead /\ f.events = e.events /\ f.ok = e.ok
    <2>1. e \in EdSet /\ a \in Int /\ b \in Int
        BY <1>1
    <2>2. Redrawn(e, f, a, b)
        BY ONLY <2>1, RedrawMarks
    <2>. HIDE DEF f
    <2>. QED
        BY ONLY <2>2 DEF Redrawn
<1>. HIDE DEF f
<1>4. TextOf(e, f)
    BY <1>3 DEF TextOf
<1>5. f.events = {} => ~ Stale(f)
    BY <1>1, <1>3 DEF Stale
<1>6. EdInv(f) /\ Tracks(e, f)
    BY <1>1, <1>3, <1>4, <1>5, TextKept
<1>. QED
    BY <1>2, <1>6

-----------------------------------------------------------------------------
\* What putting back a slot leaves behind (ed_do_undo, ed_do_redo); the program's
\* state is the same whether the texts to come back to are known or not.
LEMMA RestoreFields ==
    ASSUME NEW e, EdInv(e), NEW slot \in Slots, NEW known \in BOOLEAN,
           NEW n, n = IF ~ known THEN Note(Restore(e, slot), "undo") ELSE Restore(e, slot)
    PROVE  /\ n \in EdSet /\ n.count = e.count /\ n.x = slot.x /\ n.y = slot.y
           /\ n.lines[slot.y] = slot.line
           /\ \A i \in LineNos : i # slot.y => n.lines[i] = e.lines[i]
           /\ n.dirty = e.dirty \cup ((slot.y .. slot.y) \cap LineNos)
           /\ n.undo = e.undo /\ n.redo = e.redo /\ n.past = e.past /\ n.ahead = e.ahead
           /\ n.sel = e.sel /\ n.ok = e.ok /\ e.events \subseteq n.events
           /\ (e.sel => n.events # {}) /\ (~ known => "undo" \in n.events)
<1>. DEFINE k == Keep(e)
            x == slot.x
            y == slot.y
            line == slot.line
            m == [k EXCEPT !.lines[slot.y] = line, !.x = x, !.y = y]
            r == Restore(e, slot)
<1>1. /\ k \in EdSet /\ k.lines = e.lines /\ k.count = e.count /\ k.dirty = e.dirty
      /\ k.undo = e.undo /\ k.redo = e.redo /\ k.past = e.past /\ k.ahead = e.ahead
      /\ k.sel = e.sel /\ k.ok = e.ok /\ e.events \subseteq k.events
      /\ (e.sel => k.events # {})
    BY KeepInv DEF EdInv, IsEd
<1>2. x \in Nat /\ y \in LineNos /\ line \in Lines /\ y \in Int
    BY DEF Slots, LineNos
<1>3. r = Redraw(m, y, y)
    BY DEF Restore
<1>. DEFINE L == [e.lines EXCEPT ![y] = line]
<1>4. /\ L \in [LineNos -> Lines] /\ L[y] = line
      /\ \A i \in LineNos : i # y => L[i] = e.lines[i]
    BY <1>1, <1>2 DEF EdSet
<1>5. m = [k EXCEPT !.lines = L, !.x = x, !.y = y]
    <2>. HIDE DEF k, x, line
    <2>. QED
        BY <1>1 DEF EdSet
<1>. HIDE DEF k, L, m, x, y, line, r
<1>6. /\ m \in EdSet /\ m.count = k.count /\ m.x = x /\ m.y = y /\ m.lines = L
      /\ m.dirty = k.dirty /\ m.undo = k.undo /\ m.redo = k.redo /\ m.past = k.past
      /\ m.ahead = k.ahead /\ m.sel = k.sel /\ m.ok = k.ok /\ m.events = k.events
    BY <1>1, <1>2, <1>4, <1>5 DEF EdSet
<1>7. /\ r \in EdSet /\ r.count = e.count /\ r.x = x /\ r.y = y /\ r.lines = L
      /\ r.dirty = e.dirty \cup ((y .. y) \cap LineNos)
      /\ r.undo = e.undo /\ r.redo = e.redo /\ r.past = e.past
      /\ r.ahead = e.ahead /\ r.sel = e.sel /\ r.ok = e.ok /\ r.events = k.events
    <2>1. /\ Redraw(m, y, y) \in EdSet
          /\ Redraw(m, y, y).dirty = m.dirty \cup ((y .. y) \cap LineNos)
          /\ Redraw(m, y, y).lines = m.lines /\ Redraw(m, y, y).count = m.count
          /\ Redraw(m, y, y).x = m.x /\ Redraw(m, y, y).y = m.y
          /\ Redraw(m, y, y).sel = m.sel /\ Redraw(m, y, y).undo = m.undo
          /\ Redraw(m, y, y).redo = m.redo /\ Redraw(m, y, y).past = m.past
          /\ Redraw(m, y, y).ahead = m.ahead /\ Redraw(m, y, y).events = m.events
          /\ Redraw(m, y, y).ok = m.ok
        BY ONLY <1>2, <1>6, RedrawFields
    <2>. QED
        BY ONLY <1>1, <1>3, <1>6, <2>1
<1>8. /\ n \in EdSet /\ n.count = r.count /\ n.x = r.x /\ n.y = r.y /\ n.lines = r.lines
      /\ n.dirty = r.dirty /\ n.undo = r.undo /\ n.redo = r.redo /\ n.past = r.past
      /\ n.ahead = r.ahead /\ n.sel = r.sel /\ n.ok = r.ok /\ r.events \subseteq n.events
      /\ (~ known => "undo" \in n.events)
    <2>1. CASE known
        BY <1>7, <2>1 DEF r
    <2>2. CASE ~ known
        <3>1. n = [r EXCEPT !.events = @ \cup {"undo"}] /\ "undo" \in Events
            BY <2>2 DEF Note, r, Events
        <3>. QED
            BY <1>7, <3>1 DEF EdSet
    <2>. QED
        BY <2>1, <2>2
<1>. QED
    BY <1>1, <1>4, <1>7, <1>8 DEF x, y, line

\* The text after a slot is put back is the one that the slot leads to.
LEMMA RestoredText ==
    ASSUME NEW e, IsEd(e), NEW f, IsEd(f), NEW slot \in Slots, NEW t \in Texts,
           Restores(slot, Text(e), t),
           f.count = e.count, f.x = slot.x, f.y = slot.y, f.lines[slot.y] = slot.line,
           \A i \in LineNos : i # slot.y => f.lines[i] = e.lines[i]
    PROVE  Text(f) = t
<1>1. \A i \in 0 .. e.count - 1 : i \in LineNos
    <2>1. e.count \in Int /\ e.count <= MaxLines
        BY DEF IsEd, EdSet
    <2>. QED
        BY <2>1, EditorAssumption DEF LineNos
<1>. DEFINE T(n) == {<<n, g, x, y>> : g \in [0 .. n - 1 -> Lines], x \in Nat, y \in LineNos}
<1>2. PICK n \in Int : t \in T(n)
    <2>1. t \in UNION {T(n) : n \in Int}
        BY DEF Texts
    <2>. HIDE DEF T
    <2>. QED
        BY <2>1
<1>3. PICK g \in [0 .. n - 1 -> Lines], x \in Nat, y \in LineNos : t = <<n, g, x, y>>
    BY <1>2
<1>4. t[1] = n /\ t[2] = g /\ t[3] = x /\ t[4] = y
    BY <1>3
<1>5. Text(e)[1] = e.count /\ \A i \in 0 .. e.count - 1 : Text(e)[2][i] = e.lines[i]
    BY SlotText
<1>6. /\ n = e.count /\ x = slot.x /\ y = slot.y
      /\ \A i \in 0 .. n - 1 : g[i] = IF i = slot.y THEN slot.line ELSE e.lines[i]
    BY <1>4, <1>5 DEF Restores
<1>7. \A i \in 0 .. n - 1 : g[i] = f.lines[i]
    BY <1>1, <1>6
<1>8. g = [i \in 0 .. f.count - 1 |-> f.lines[i]]
    BY <1>6, <1>7
<1>. QED
    BY <1>3, <1>6, <1>8 DEF Text

\* The rings and marks after an undo of a known change: the older slots lead on,
\* and redo leads forward again when the cursor was on the changed line.
LEMMA UndoneRings ==
    ASSUME NEW e, EdInv(e), NEW f, IsEd(f), NEW slot, e.past # <<>>, slot = Last(e.undo),
           Text(f) = Last(e.past), f.count = e.count, f.y = slot.y,
           \A i \in LineNos : i # slot.y => f.lines[i] = e.lines[i],
           f.undo = Front(e.undo), f.past = Front(e.past), f.redo = Push(e.redo, Slot(e)),
           f.ahead = IF slot.y = e.y THEN Push(e.ahead, Text(e)) ELSE <<>>,
           e.events \subseteq f.events, f.ok => e.ok
    PROVE  UndoInv(f) /\ Numbered(f)
<1>0. /\ IsEd(e) /\ e.undo \in Seq(Slots) /\ e.redo \in Seq(Slots) /\ e.past \in Seq(Texts)
      /\ e.ahead \in Seq(Texts) /\ e.count \in Int /\ e.count <= MaxLines /\ e.y \in LineNos
      /\ Slot(e) \in Slots /\ Text(e) \in Texts /\ Slot(e).y = e.y /\ f.redo \in Seq(Slots)
      /\ Leads(e.undo, e.past, Text(e)) /\ Leads(e.redo, e.ahead, Text(e))
    BY SlotText DEF EdInv, IsEd, EdSet, UndoInv
<1>1. /\ e.undo # <<>> /\ Restores(slot, Text(e), Last(e.past))
      /\ Leads(Front(e.undo), Front(e.past), Last(e.past))
    BY ONLY <1>0, e.past # <<>>, slot = Last(e.undo), LeadsBack
<1>2. /\ Last(e.undo) \in Slots /\ Last(e.undo) = Nth(e.undo, 0)
      /\ \A k \in 0 .. Len(Front(e.undo)) - 1 : Nth(Front(e.undo), k) = Nth(e.undo, k + 1)
      /\ Len(Front(e.undo)) = Len(e.undo) - 1
    BY ONLY <1>0, <1>1, PopRing
<1>3. Len(Front(e.past)) = Len(e.past) - 1 /\ Len(e.past) \in Nat \ {0}
    BY ONLY <1>0, e.past # <<>>, PopRing
<1>4. Leads(f.undo, f.past, Text(f))
    BY <1>1
<1>5. CASE slot.y = e.y
    <2>1. Restores(Slot(e), Text(f), Text(e))
        <3>1. /\ Slot(e).line = e.lines[e.y] /\ Slot(e).x = e.x
              /\ Text(e)[1] = e.count /\ Text(e)[3] = e.x /\ Text(e)[4] = e.y
              /\ \A i \in 0 .. e.count - 1 : Text(e)[2][i] = e.lines[i]
            BY <1>0, SlotText
        <3>2. Text(f)[1] = f.count /\ \A i \in 0 .. f.count - 1 : Text(f)[2][i] = f.lines[i]
            BY SlotText
        <3>3. \A i \in 0 .. e.count - 1 : i \in LineNos
            BY <1>0, EditorAssumption DEF LineNos
        <3>. QED
            BY <1>0, <1>5, <3>1, <3>2, <3>3 DEF Restores
    <2>2. Leads(Push(e.redo, Slot(e)), Push(e.ahead, Text(e)), Text(f))
        BY ONLY <1>0, <2>1, LeadsOn
    <2>3. f.ahead = Push(e.ahead, Text(e))
        BY <1>5
    <2>4. ASSUME f.ok, "undo" \notin f.events
          PROVE  \A k \in 0 .. Len(f.ahead) - 1 : Nth(f.redo, k).y < f.count
        <3>1. e.y < e.count /\ \A k \in 0 .. Len(e.ahead) - 1 : Nth(e.redo, k).y < e.count
            BY <2>4 DEF EdInv, Numbered
        <3>2. Slot(e).y < e.count /\ Len(e.ahead) <= Len(e.redo)
            BY <1>0, <3>1 DEF Leads
        <3>3. \A k \in 0 .. Len(Push(e.ahead, Text(e))) - 1 : Nth(Push(e.redo, Slot(e)), k).y < e.count
            BY ONLY <1>0, <3>1, <3>2, PushBelow
        <3>. QED
            BY <2>3, <3>3
    <2>5. UndoInv(f)
        BY <1>4, <2>2, <2>3 DEF UndoInv
    <2>6. ASSUME f.ok, "undo" \notin f.events
          PROVE  f.y < f.count /\ \A k \in 0 .. Len(f.past) - 1 : Nth(f.undo, k).y < f.count
        <3>1. \A k \in 0 .. Len(e.past) - 1 : Nth(e.undo, k).y < e.count
            BY <2>6 DEF EdInv, Numbered
        <3>2. 0 \in 0 .. Len(e.past) - 1 /\ \A k \in 0 .. Len(f.past) - 1 : k + 1 \in 0 .. Len(e.past) - 1
            BY <1>3
        <3>3. slot.y < e.count
            BY <1>2, <3>1, <3>2
        <3>4. Len(e.past) <= Len(e.undo) /\ Len(e.undo) \in Nat
            BY <1>0 DEF Leads
        <3>5. \A k \in 0 .. Len(f.past) - 1 : k \in 0 .. Len(Front(e.undo)) - 1
            BY <1>2, <1>3, <3>4
        <3>. QED
            BY <1>2, <3>1, <3>2, <3>3, <3>5
    <2>. QED
        BY <2>4, <2>5, <2>6 DEF Numbered
<1>6. CASE slot.y # e.y
    <2>1. f.ahead = <<>>
        BY <1>6
    <2>2. UndoInv(f)
        BY <1>0, <1>4, <2>1, LeadsNowhere DEF UndoInv
    <2>3. ASSUME f.ok, "undo" \notin f.events
          PROVE  f.y < f.count /\ \A k \in 0 .. Len(f.past) - 1 : Nth(f.undo, k).y < f.count
        <3>1. \A k \in 0 .. Len(e.past) - 1 : Nth(e.undo, k).y < e.count
            BY <2>3 DEF EdInv, Numbered
        <3>2. 0 \in 0 .. Len(e.past) - 1 /\ \A k \in 0 .. Len(f.past) - 1 : k + 1 \in 0 .. Len(e.past) - 1
            BY <1>3
        <3>3. slot.y < e.count
            BY <1>2, <3>1, <3>2
        <3>4. Len(e.past) <= Len(e.undo) /\ Len(e.undo) \in Nat
            BY <1>0 DEF Leads
        <3>5. \A k \in 0 .. Len(f.past) - 1 : k \in 0 .. Len(Front(e.undo)) - 1
            BY <1>2, <1>3, <3>4
        <3>. QED
            BY <1>2, <3>1, <3>2, <3>3, <3>5
    <2>4. Len(f.ahead) = 0
        BY <2>1
    <2>. QED
        BY <2>2, <2>3, <2>4 DEF Numbered
<1>. QED
    BY <1>5, <1>6

\* ed_do_undo: the invariant, and that the text comes back that was there before
\* the change.
LEMMA UndoKeeps ==
    ASSUME NEW e, EdInv(e)
    PROVE  /\ EdInv(Undo(e)) /\ Tracks(e, Undo(e))
           /\ e.past # <<>> => Text(Undo(e)) = Last(e.past)
<1>0. /\ IsEd(e) /\ e \in EdSet /\ e.undo \in Seq(Slots) /\ e.redo \in Seq(Slots)
      /\ e.past \in Seq(Texts) /\ e.ahead \in Seq(Texts) /\ e.count \in Int /\ e.count <= MaxLines
      /\ Slot(e) \in Slots /\ Text(e) \in Texts
      /\ Leads(e.undo, e.past, Text(e)) /\ Leads(e.redo, e.ahead, Text(e))
    BY SlotText DEF EdInv, IsEd, EdSet, UndoInv
<1>1. CASE e.undo = <<>>
    <2>1. e.past = <<>>
        BY <1>0, <1>1, EmptySeq DEF Leads
    <2>. QED
        BY <1>0, <1>1, <2>1, TracksSame DEF Undo
<1>2. CASE e.undo # <<>>
    <2>. DEFINE slot == Last(e.undo)
                known == e.past # <<>>
                n == IF ~ known THEN Note(Restore(e, slot), "undo") ELSE Restore(e, slot)
                redo == Push(e.redo, Slot(e))
                undo == Front(e.undo)
                past == IF e.past = <<>> THEN e.past ELSE Front(e.past)
                ahead == IF e.past # <<>> /\ slot.y = e.y THEN Push(e.ahead, Text(e)) ELSE <<>>
                f == Undo(e)
    <2>1. slot \in Slots /\ undo \in Seq(Slots)
        BY ONLY <1>0, <1>2, PopRing
    <2>2. /\ slot.y \in LineNos /\ slot.line \in Lines /\ slot.x \in Nat
          /\ slot.x <= Len(slot.line)
        BY <2>1 DEF Slots
    <2>. HIDE DEF slot, n, undo
    <2>3. /\ n \in EdSet /\ n.count = e.count /\ n.x = slot.x /\ n.y = slot.y
          /\ n.lines[slot.y] = slot.line
          /\ \A i \in LineNos : i # slot.y => n.lines[i] = e.lines[i]
          /\ n.dirty = e.dirty \cup ((slot.y .. slot.y) \cap LineNos)
          /\ n.undo = e.undo /\ n.redo = e.redo /\ n.past = e.past /\ n.ahead = e.ahead
          /\ n.sel = e.sel /\ n.ok = e.ok /\ e.events \subseteq n.events
          /\ (e.sel => n.events # {}) /\ (~ known => "undo" \in n.events)
        <3>1. n = IF ~ known THEN Note(Restore(e, slot), "undo") ELSE Restore(e, slot)
            BY DEF n
        <3>2. known \in BOOLEAN
            OBVIOUS
        <3>. HIDE DEF known
        <3>. QED
            BY ONLY <2>1, <3>1, <3>2, EdInv(e), RestoreFields
    <2>4. f = [n EXCEPT !.redo = redo, !.undo = undo, !.past = past, !.ahead = ahead]
        <3>1. n = IF e.past = <<>> THEN Note(Restore(e, slot), "undo") ELSE Restore(e, slot)
            BY DEF n
        <3>2. f = [n EXCEPT !.redo = Push(@, Slot(e)), !.undo = Front(@),
                !.past = IF @ = <<>> THEN @ ELSE Front(@),
                !.ahead = IF e.past # <<>> /\ slot.y = e.y THEN Push(@, Text(e)) ELSE <<>>]
            BY <1>2, <3>1 DEF Undo, slot
        <3>. HIDE DEF f
        <3>. QED
            BY <2>3, <3>2 DEF EdSet, undo
    <2>5. redo \in Seq(Slots) /\ past \in Seq(Texts) /\ ahead \in Seq(Texts)
        <3>1. redo \in Seq(Slots)
            BY ONLY <1>0, PushRing
        <3>2. Push(e.ahead, Text(e)) \in Seq(Texts)
            BY ONLY <1>0, PushRing
        <3>3. e.past # <<>> => Front(e.past) \in Seq(Texts)
            BY ONLY <1>0, PopRing
        <3>4. <<>> \in Seq(Texts)
            OBVIOUS
        <3>. QED
            BY <1>0, <3>1, <3>2, <3>3, <3>4
    <2>. HIDE DEF f, redo, past, ahead
    <2>6. /\ f \in EdSet /\ f.count = e.count /\ f.x = slot.x /\ f.y = slot.y
          /\ f.lines = n.lines /\ f.dirty = n.dirty
          /\ f.undo = undo /\ f.redo = redo /\ f.past = past /\ f.ahead = ahead
          /\ f.sel = e.sel /\ f.ok = e.ok /\ f.events = n.events
        BY <2>1, <2>3, <2>4, <2>5 DEF EdSet
    <2>7. /\ f.lines[slot.y] = slot.line
          /\ \A i \in LineNos : i # slot.y => f.lines[i] = e.lines[i]
        BY <2>3, <2>6
    <2>8. IsEd(f)
        BY <1>0, <2>2, <2>6, <2>7 DEF IsEd
    <2>9. known => Text(f) = Last(e.past)
        <3>. SUFFICES ASSUME e.past # <<>> PROVE Text(f) = Last(e.past)
            OBVIOUS
        <3>1. Restores(Last(e.undo), Text(e), Last(e.past))
            BY ONLY <1>0, e.past # <<>>, LeadsBack
        <3>2. Last(e.past) \in Texts
            BY ONLY <1>0, e.past # <<>>, PopRing
        <3>3. Restores(slot, Text(e), Last(e.past))
            BY <3>1 DEF slot
        <3>4. PICK t : t = Last(e.past)
            OBVIOUS
        <3>5. /\ IsEd(e) /\ slot \in Slots /\ f.count = e.count /\ f.x = slot.x /\ f.y = slot.y
              /\ t \in Texts /\ Restores(slot, Text(e), t)
            BY ONLY <1>0, <2>1, <2>6, <3>2, <3>3, <3>4
        <3>6. Text(f) = t
            BY ONLY <2>7, <2>8, <3>5, RestoredText
        <3>. QED
            BY ONLY <3>4, <3>6
    <2>10. UndoInv(f) /\ Numbered(f)
        <3>1. CASE known
            <4>1. f.past = Front(e.past) /\ f.undo = Front(e.undo) /\ f.redo = Push(e.redo, Slot(e))
                BY <2>6, <3>1 DEF past, undo, redo
            <4>2. f.ahead = IF slot.y = e.y THEN Push(e.ahead, Text(e)) ELSE <<>>
                BY <2>6, <3>1 DEF ahead
            <4>3. slot = Last(e.undo) /\ Text(f) = Last(e.past) /\ e.past # <<>>
                  /\ e.events \subseteq f.events /\ (f.ok => e.ok)
                BY <2>3, <2>6, <2>9, <3>1 DEF slot
            <4>. QED
                BY ONLY EdInv(e), <2>6, <2>7, <2>8, <4>1, <4>2, <4>3, UndoneRings
        <3>2. CASE ~ known
            <4>1. f.past = <<>> /\ f.ahead = <<>> /\ "undo" \in f.events
                BY <2>3, <2>6, <3>2 DEF past, ahead
            <4>. QED
                BY ONLY <2>8, <4>1, AcrossRings
        <3>. QED
            BY <3>1, <3>2
    <2>11. SelInv(f)
        BY <2>3, <2>6 DEF EdInv, SelInv, Stale
    <2>12. Tracks(e, f)
        <3>1. f.ok /\ "undo" \notin f.events =>
                 \A i \in 0 .. f.count - 1 :
                    i \notin slot.y .. slot.y => i < e.count /\ f.lines[i] = e.lines[i]
            <4>. SUFFICES ASSUME NEW i \in 0 .. f.count - 1, i \notin slot.y .. slot.y
                          PROVE  i < e.count /\ f.lines[i] = e.lines[i]
                OBVIOUS
            <4>1. i < e.count /\ i \in LineNos /\ i # slot.y
                BY <1>0, <2>2, <2>6, EditorAssumption DEF LineNos
            <4>. QED
                BY <2>7, <4>1
        <3>2. /\ slot.y \in Int /\ e.events \subseteq f.events /\ (f.ok => e.ok)
              /\ f.dirty = e.dirty \cup ((slot.y .. slot.y) \cap LineNos)
            BY <2>2, <2>3, <2>6 DEF LineNos
        <3>. QED
            BY ONLY <1>0, <2>8, <3>1, <3>2, TracksRange
    <2>. QED
        BY <2>8, <2>9, <2>10, <2>11, <2>12 DEF EdInv, f
<1>. QED
    BY <1>1, <1>2

\* ed_do_redo.
LEMMA RedoKeeps ==
    ASSUME NEW e, EdInv(e)
    PROVE  /\ EdInv(Redo(e)) /\ Tracks(e, Redo(e))
           /\ e.ahead # <<>> => Text(Redo(e)) = Last(e.ahead)
<1>0. /\ IsEd(e) /\ e \in EdSet /\ e.undo \in Seq(Slots) /\ e.redo \in Seq(Slots)
      /\ e.past \in Seq(Texts) /\ e.ahead \in Seq(Texts) /\ e.count \in Int /\ e.count <= MaxLines
      /\ Leads(e.redo, e.ahead, Text(e))
    BY DEF EdInv, IsEd, EdSet, UndoInv
<1>1. CASE e.redo = <<>>
    <2>1. e.ahead = <<>>
        BY <1>0, <1>1, EmptySeq DEF Leads
    <2>. QED
        BY <1>0, <1>1, <2>1, TracksSame DEF Redo
<1>2. CASE e.redo # <<>>
    <2>. DEFINE slot == Last(e.redo)
                known == e.ahead # <<>>
                n == IF ~ known THEN Note(Restore(e, slot), "undo") ELSE Restore(e, slot)
                redo == Front(e.redo)
                ahead == IF e.ahead = <<>> THEN e.ahead ELSE Front(e.ahead)
                f == Redo(e)
    <2>1. slot \in Slots /\ redo \in Seq(Slots)
        BY ONLY <1>0, <1>2, PopRing
    <2>2. /\ slot.y \in LineNos /\ slot.line \in Lines /\ slot.x \in Nat
          /\ slot.x <= Len(slot.line)
        BY <2>1 DEF Slots
    <2>. HIDE DEF slot, n, redo
    <2>3. /\ n \in EdSet /\ n.count = e.count /\ n.x = slot.x /\ n.y = slot.y
          /\ n.lines[slot.y] = slot.line
          /\ \A i \in LineNos : i # slot.y => n.lines[i] = e.lines[i]
          /\ n.dirty = e.dirty \cup ((slot.y .. slot.y) \cap LineNos)
          /\ n.undo = e.undo /\ n.redo = e.redo /\ n.past = e.past /\ n.ahead = e.ahead
          /\ n.sel = e.sel /\ n.ok = e.ok /\ e.events \subseteq n.events
          /\ (e.sel => n.events # {}) /\ (~ known => "undo" \in n.events)
        <3>1. n = IF ~ known THEN Note(Restore(e, slot), "undo") ELSE Restore(e, slot)
            BY DEF n
        <3>2. known \in BOOLEAN
            OBVIOUS
        <3>. HIDE DEF known
        <3>. QED
            BY ONLY <2>1, <3>1, <3>2, EdInv(e), RestoreFields
    <2>4. f = [n EXCEPT !.redo = redo, !.past = <<>>, !.ahead = ahead]
        <3>1. n = IF e.ahead = <<>> THEN Note(Restore(e, slot), "undo") ELSE Restore(e, slot)
            BY DEF n
        <3>2. f = [n EXCEPT !.redo = Front(@), !.past = <<>>,
                !.ahead = IF @ = <<>> THEN @ ELSE Front(@)]
            BY <1>2, <3>1 DEF Redo, slot
        <3>. HIDE DEF f
        <3>. QED
            BY <2>3, <3>2 DEF EdSet, redo
    <2>5. ahead \in Seq(Texts) /\ <<>> \in Seq(Texts)
        <3>1. e.ahead # <<>> => Front(e.ahead) \in Seq(Texts)
            BY ONLY <1>0, PopRing
        <3>. QED
            BY <1>0, <3>1
    <2>. HIDE DEF f, ahead
    <2>6. /\ f \in EdSet /\ f.count = e.count /\ f.x = slot.x /\ f.y = slot.y
          /\ f.lines = n.lines /\ f.dirty = n.dirty
          /\ f.undo = e.undo /\ f.redo = redo /\ f.past = <<>> /\ f.ahead = ahead
          /\ f.sel = e.sel /\ f.ok = e.ok /\ f.events = n.events
        BY <2>1, <2>3, <2>4, <2>5 DEF EdSet
    <2>7. /\ f.lines[slot.y] = slot.line
          /\ \A i \in LineNos : i # slot.y => f.lines[i] = e.lines[i]
        BY <2>3, <2>6
    <2>8. IsEd(f)
        BY <1>0, <2>2, <2>6, <2>7 DEF IsEd
    <2>9. known => Text(f) = Last(e.ahead)
        <3>. SUFFICES ASSUME e.ahead # <<>> PROVE Text(f) = Last(e.ahead)
            OBVIOUS
        <3>0. IsEd(e) /\ Text(e) \in Texts
            BY <1>0, SlotText
        <3>1. Restores(Last(e.redo), Text(e), Last(e.ahead))
            BY ONLY <1>0, e.ahead # <<>>, LeadsBack
        <3>2. Last(e.ahead) \in Texts
            BY ONLY <1>0, e.ahead # <<>>, PopRing
        <3>3. Restores(slot, Text(e), Last(e.ahead))
            BY <3>1 DEF slot
        <3>. QED
            BY ONLY <3>0, <2>1, <2>6, <2>7, <2>8, <3>2, <3>3, RestoredText
    <2>10. UndoInv(f) /\ Numbered(f)
        <3>1. CASE known
            <4>1. Leads(Front(e.redo), Front(e.ahead), Last(e.ahead))
                BY ONLY <1>0, <3>1, LeadsBack
            <4>2. f.ahead = Front(e.ahead) /\ f.redo = Front(e.redo) /\ Text(f) = Last(e.ahead)
                BY <2>6, <2>9, <3>1 DEF ahead, redo
            <4>3. UndoInv(f)
                <5>1. f.undo \in Seq(Slots) /\ f.past = <<>>
                    BY <1>0, <2>6
                <5>. QED
                    BY <4>1, <4>2, <5>1, LeadsNowhere DEF UndoInv
            <4>4. /\ Last(e.redo) = Nth(e.redo, 0) /\ Len(Front(e.redo)) = Len(e.redo) - 1
                  /\ \A k \in 0 .. Len(Front(e.redo)) - 1 : Nth(Front(e.redo), k) = Nth(e.redo, k + 1)
                BY ONLY <1>0, <1>2, PopRing
            <4>5. Len(Front(e.ahead)) = Len(e.ahead) - 1 /\ Len(e.ahead) \in Nat \ {0}
                BY ONLY <1>0, <3>1, PopRing
            <4>6. Len(e.ahead) <= Len(e.redo) /\ Len(e.redo) \in Nat
                BY <1>0 DEF Leads
            <4>7. ASSUME f.ok, "undo" \notin f.events
                  PROVE  f.y < f.count /\ \A k \in 0 .. Len(f.ahead) - 1 : Nth(f.redo, k).y < f.count
                <5>1. \A k \in 0 .. Len(e.ahead) - 1 : Nth(e.redo, k).y < e.count
                    BY <2>3, <2>6, <4>7 DEF EdInv, Numbered
                <5>2. /\ 0 \in 0 .. Len(e.ahead) - 1
                      /\ \A k \in 0 .. Len(f.ahead) - 1 :
                            k + 1 \in 0 .. Len(e.ahead) - 1 /\ k \in 0 .. Len(Front(e.redo)) - 1
                    BY <4>2, <4>4, <4>5, <4>6
                <5>3. slot.y < e.count
                    BY <4>4, <5>1, <5>2 DEF slot
                <5>. QED
                    BY <2>6, <4>2, <4>4, <5>1, <5>2, <5>3
            <4>8. Len(f.past) = 0
                BY <2>6
            <4>. QED
                BY <4>3, <4>7, <4>8 DEF Numbered
        <3>2. CASE ~ known
            <4>1. f.past = <<>> /\ f.ahead = <<>> /\ "undo" \in f.events
                BY <2>3, <2>6, <3>2 DEF ahead
            <4>. QED
                BY ONLY <2>8, <4>1, AcrossRings
        <3>. QED
            BY <3>1, <3>2
    <2>11. SelInv(f)
        BY <2>3, <2>6 DEF EdInv, SelInv, Stale
    <2>12. Tracks(e, f)
        <3>1. f.ok /\ "undo" \notin f.events =>
                 \A i \in 0 .. f.count - 1 :
                    i \notin slot.y .. slot.y => i < e.count /\ f.lines[i] = e.lines[i]
            <4>. SUFFICES ASSUME NEW i \in 0 .. f.count - 1, i \notin slot.y .. slot.y
                          PROVE  i < e.count /\ f.lines[i] = e.lines[i]
                OBVIOUS
            <4>1. i < e.count /\ i \in LineNos /\ i # slot.y
                BY <1>0, <2>2, <2>6, EditorAssumption DEF LineNos
            <4>. QED
                BY <2>7, <4>1
        <3>2. /\ slot.y \in Int /\ e.events \subseteq f.events /\ (f.ok => e.ok)
              /\ f.dirty = e.dirty \cup ((slot.y .. slot.y) \cap LineNos)
            BY <2>2, <2>3, <2>6 DEF LineNos
        <3>. QED
            BY ONLY <1>0, <2>8, <3>1, <3>2, TracksRange
    <2>. QED
        BY <2>8, <2>9, <2>10, <2>11, <2>12 DEF EdInv, f
<1>. QED
    BY <1>1, <1>2

-----------------------------------------------------------------------------
(* Loops: what they do after every pass, by the first pass that does not.   *)

\* The loops count up: there is a first pass.
LEMMA LeastElement ==
    ASSUME NEW S \in SUBSET Nat, S # {}
    PROVE  \E x \in S : \A y \in S : x <= y
<1>1. IsWellFoundedOn(OpToRel(<, Nat), Nat)
    BY NatLessThanWellFounded
<1>2. PICK x \in S : \A y \in S : <<y, x>> \notin OpToRel(<, Nat)
    BY <1>1, WFMin
<1>3. \A y \in S : ~ (y < x)
    BY <1>2 DEF OpToRel
<1>. QED
    BY <1>3

\* What holds before the first pass and is kept by each holds after all.
LEMMA Climbs ==
    ASSUME NEW S, NEW m \in Int, NEW n \in Int, NEW q, q[m] \in S,
           \A i \in m + 1 .. n : q[i - 1] \in S => q[i] \in S
    PROVE  \A i \in m .. n : q[i] \in S
<1>. SUFFICES ASSUME NEW j \in m .. n, q[j] \notin S PROVE FALSE
    OBVIOUS
<1>. DEFINE T == {k \in Nat : m + k \in m .. n /\ q[m + k] \notin S}
<1>1. j - m \in T
    <2>1. j - m \in Nat /\ m + (j - m) = j
        OBVIOUS
    <2>. QED
        BY <2>1
<1>2. PICK k \in T : \A i \in T : k <= i
    BY <1>1, LeastElement
<1>3. k # 0
    <2>1. m + 0 = m
        OBVIOUS
    <2>. QED
        BY <2>1
<1>4. /\ k - 1 \in Nat /\ m + (k - 1) \in m .. n /\ m + k \in m + 1 .. n
      /\ m + k - 1 = m + (k - 1) /\ ~ (k <= k - 1)
    BY <1>3
<1>5. q[m + (k - 1)] \in S
    BY <1>2, <1>4
<1>6. q[m + k] \in S
    BY <1>4, <1>5
<1>. QED
    BY <1>6

\* A function given by its first value and a step that knows the pass.
Goes(r, m, n, b, G) == r[m] = b /\ \A i \in m + 1 .. n : r[i] = G[i][r[i - 1]]

\* There is one: the loops of editor.c have a result.
LEMMA Recursion ==
    ASSUME NEW S, NEW b \in S, NEW G \in [Int -> [S -> S]], NEW m \in Int, NEW n \in Int, m <= n
    PROVE  \E r \in [m .. n -> S] : Goes(r, m, n, b, G)
<1>. DEFINE Upto(k) == \E r \in [m .. m + k -> S] : Goes(r, m, m + k, b, G)
<1>1. Upto(0)
    <2>. DEFINE q == [i \in m .. m + 0 |-> b]
    <2>1. q \in [m .. m + 0 -> S] /\ q[m] = b /\ \A i \in m + 1 .. m + 0 : FALSE
        OBVIOUS
    <2>2. Goes(q, m, m + 0, b, G)
        BY <2>1 DEF Goes
    <2>. QED
        BY <2>1, <2>2
<1>2. ASSUME NEW k \in Nat, Upto(k) PROVE Upto(k + 1)
    <2>1. PICK r \in [m .. m + k -> S] : Goes(r, m, m + k, b, G)
        BY <1>2
    <2>. DEFINE z == m + k + 1
                q == [i \in m .. z |-> IF i = z THEN G[z][r[m + k]] ELSE r[i]]
    <2>0. /\ z \in Int /\ z = m + (k + 1) /\ z - 1 = m + k /\ m + k \in m .. m + k
          /\ z \in m .. z /\ m \in m .. z /\ m # z /\ m + k # z /\ m + k \in m .. z
          /\ \A i \in m .. z : i # z => i \in m .. m + k
        OBVIOUS
    <2>. HIDE DEF z
    <2>2. q \in [m .. z -> S]
        BY <2>0
    <2>3. q[m] = b /\ q[z] = G[z][q[z - 1]]
        BY <2>0, <2>1 DEF Goes
    <2>4. ASSUME NEW i \in m + 1 .. z, i # z PROVE q[i] = G[i][q[i - 1]]
        <3>1. /\ i \in m + 1 .. m + k /\ i \in m .. z /\ i - 1 \in m .. z /\ i - 1 # z
            BY <2>0, <2>4 DEF z
        <3>2. q[i] = r[i] /\ q[i - 1] = r[i - 1]
            BY <2>4, <3>1
        <3>. QED
            BY <2>1, <3>1, <3>2 DEF Goes
    <2>. HIDE DEF q
    <2>5. \A i \in m + 1 .. z : q[i] = G[i][q[i - 1]]
        BY <2>3, <2>4
    <2>. QED
        BY <2>0, <2>2, <2>3, <2>5 DEF Goes
<1>3. Upto(n - m)
    <2>. DEFINE T == {k \in Nat : ~ Upto(k)}
    <2>. SUFFICES ASSUME ~ Upto(n - m) PROVE FALSE
        OBVIOUS
    <2>. HIDE DEF Upto
    <2>1. PICK k \in T : \A j \in T : k <= j
        <3>1. n - m \in T
            OBVIOUS
        <3>. QED
            BY <3>1, LeastElement
    <2>2. k # 0 /\ k - 1 \in Nat /\ k - 1 + 1 = k /\ ~ (k <= k - 1)
        BY <1>1
    <2>3. Upto(k - 1)
        BY <2>1, <2>2
    <2>4. Upto(k - 1 + 1)
        BY <1>2, <2>2, <2>3
    <2>. QED
        BY <2>2, <2>4
<1>4. m + (n - m) = n
    OBVIOUS
<1>. QED
    BY <1>3, <1>4

-----------------------------------------------------------------------------
\* One character of the clipboard (ed_paste).
LEMMA PasteCharInv ==
    ASSUME NEW e, EdInv(e), NEW c \in Chars \cup {Newline}
    PROVE  EdInv(PasteChar(e, c)) /\ Tracks(e, PasteChar(e, c))
<1>1. EdInv(e) /\ Tracks(e, e)
    BY TracksSame DEF EdInv
<1>2. CASE ~ e.ok
    BY <1>1, <1>2 DEF PasteChar
<1>3. CASE e.ok /\ c = Newline
    BY <1>3, InsertNewlineInv DEF PasteChar
<1>4. CASE e.ok /\ c # Newline
    <2>1. c \in Chars
        BY <1>4
    <2>. QED
        BY <1>4, <2>1, InsertCharInv DEF PasteChar
<1>. QED
    BY <1>2, <1>3, <1>4

\* ed_paste: the characters of the clipboard, one after the other.
LEMMA PasteInv ==
    ASSUME NEW e, EdInv(e)
    PROVE  EdInv(Paste(e)) /\ Tracks(e, Paste(e))
<1>. DEFINE N == Len(e.clip)
            S == {s \in EdSet : EdInv(s) /\ Tracks(e, s)}
            G == [i \in Int |-> [s \in S |-> IF i \in 1 .. N THEN PasteChar(s, e.clip[i]) ELSE s]]
            Eq(q) == q = [n \in 0 .. N |-> IF n = 0 THEN e ELSE PasteChar(q[n - 1], e.clip[n])]
<1>1. N \in Nat /\ \A i \in 1 .. N : e.clip[i] \in Chars \cup {Newline}
    BY DEF EdInv, IsEd, EdSet
<1>. HIDE DEF N
<1>2. e \in S
    BY TracksSame DEF EdInv, IsEd
<1>3. ASSUME NEW s \in S, NEW i \in 1 .. N PROVE PasteChar(s, e.clip[i]) \in S
    <2>1. PICK c \in Chars \cup {Newline} : c = e.clip[i]
        BY <1>1
    <2>2. EdInv(PasteChar(s, c)) /\ Tracks(s, PasteChar(s, c))
        BY PasteCharInv
    <2>3. Tracks(e, PasteChar(s, c))
        BY <2>2, TracksOn DEF EdInv
    <2>. QED
        BY <2>1, <2>2, <2>3 DEF EdInv, IsEd
<1>. HIDE DEF S
<1>4. G \in [Int -> [S -> S]]
    BY <1>3
<1>5. PICK r \in [0 .. N -> S] : r[0] = e /\ \A i \in 1 .. N : r[i] = PasteChar(r[i - 1], e.clip[i])
    <2>1. PICK g \in [Int -> [S -> S]] : g = G
        BY <1>4, Zenon
    <2>2. 0 \in Int /\ N \in Int /\ 0 <= N
        BY <1>1
    <2>3. PICK r \in [0 .. N -> S] : Goes(r, 0, N, e, g)
        BY ONLY <1>2, <2>2, Recursion
    <2>4. \A i \in 1 .. N : i \in Int /\ i \in 0 + 1 .. N /\ r[i - 1] \in S
        BY <1>1
    <2>. QED
        BY <2>1, <2>3, <2>4 DEF Goes
<1>6. Eq(r)
    BY <1>1, <1>5
<1>7. PICK q : Eq(q) /\ Paste(e) = q[N]
    BY <1>6, Zenon DEF Paste, N
<1>8. q[0] \in S /\ \A i \in 0 + 1 .. N : q[i - 1] \in S => q[i] \in S
    <2>1. q[0] = e
        BY <1>1, <1>7
    <2>2. \A i \in 0 + 1 .. N : q[i] = PasteChar(q[i - 1], e.clip[i]) /\ i \in 1 .. N
        BY <1>1, <1>7
    <2>. HIDE DEF Eq
    <2>. QED
        BY <1>2, <1>3, <2>1, <2>2
<1>9. q[N] \in S
    <2>1. 0 \in Int /\ N \in Int /\ N \in 0 .. N
        BY <1>1
    <2>. QED
        BY ONLY <1>8, <2>1, Climbs
<1>. QED
    BY <1>7, <1>9 DEF S

\* ed_copy: the clipboard gets characters and newlines; nothing else changes.
LEMMA CopyInv ==
    ASSUME NEW e, EdInv(e)
    PROVE  EdInv(Copy(e)) /\ Tracks(e, Copy(e))
<1>0. /\ IsEd(e) /\ e \in EdSet /\ e.lines \in [LineNos -> Lines] /\ e.y \in LineNos
      /\ e.x \in Nat /\ e.x <= Len(e.lines[e.y]) /\ e.sx \in Nat /\ e.sy \in LineNos
    BY DEF EdInv, IsEd, EdSet
<1>1. CASE ~ e.sel
    BY <1>0, <1>1, TracksSame DEF Copy
<1>2. CASE e.sel /\ Stale(e)
    <2>1. e.events # {}
        BY <1>2 DEF EdInv, SelInv
    <2>. QED
        BY <1>0, <1>2, <2>1, BrokenInv DEF Copy, EdInv
<1>3. CASE e.sel /\ ~ Stale(e)
    <2>. DEFINE a == IF Forward(e) THEN <<e.sx, e.sy>> ELSE <<e.x, e.y>>
                b == IF Forward(e) THEN <<e.x, e.y>> ELSE <<e.sx, e.sy>>
                part(i) == LET line == IF i = b[2] THEN Before(e.lines[i], b[1]) ELSE e.lines[i]
                           IN  IF i = a[2] THEN From(line, a[1]) ELSE line
                S == Seq(Chars \cup {Newline})
                G == [i \in Int |-> [s \in S |-> IF i \in a[2] .. b[2]
                                                 THEN s \o <<Newline>> \o part(i) ELSE s]]
                Eq(q) == q = [i \in a[2] .. b[2] |->
                                IF i = a[2] THEN part(i) ELSE q[i - 1] \o <<Newline>> \o part(i)]
    <2>1. /\ a[1] \in Nat /\ a[2] \in LineNos /\ b[1] \in Nat /\ b[2] \in LineNos
          /\ a[2] <= b[2] /\ (a[2] = b[2] => a[1] <= b[1])
          /\ a[1] <= Len(e.lines[a[2]]) /\ b[1] <= Len(e.lines[b[2]])
        <3>1. /\ e.sx <= Len(e.lines[e.sy]) /\ e.x \in Int /\ e.y \in Int /\ e.sy \in Int
              /\ Len(e.lines[e.sy]) \in Int
            BY <1>0, <1>3 DEF Stale, LineNos, Lines
        <3>2. CASE Forward(e)
            <4>1. a = <<e.sx, e.sy>> /\ b = <<e.x, e.y>>
                BY <3>2
            <4>2. e.sy < e.y \/ (e.sy = e.y /\ e.sx < e.x)
                BY <3>2 DEF Forward
            <4>. QED
                BY <1>0, <3>1, <4>1, <4>2
        <3>3. CASE ~ Forward(e)
            <4>1. b = <<e.sx, e.sy>> /\ a = <<e.x, e.y>>
                BY <3>3
            <4>2. ~ (e.sy < e.y) /\ ~ (e.sy = e.y /\ e.sx < e.x)
                BY <3>3 DEF Forward
            <4>. QED
                BY <1>0, <3>1, <4>1, <4>2
        <3>. QED
            BY <3>2, <3>3
    <2>. HIDE DEF a, b
    <2>2. ASSUME NEW i \in a[2] .. b[2] PROVE part(i) \in S
        <3>. DEFINE s == e.lines[i]
                    line == IF i = b[2] THEN Before(s, b[1]) ELSE s
        <3>1. i \in LineNos
            BY <2>1, EditorAssumption DEF LineNos
        <3>2. s \in Seq(Chars) /\ Len(s) \in Nat
            BY <1>0, <3>1 DEF Lines
        <3>3. i = b[2] => b[1] \in 0 .. Len(s)
            BY <2>1, <3>2
        <3>4. i = a[2] => a[1] \in 0 .. Len(s)
            BY <2>1, <3>2
        <3>. HIDE DEF s
        <3>5. /\ line \in Seq(Chars)
              /\ i = a[2] => a[1] \in 0 .. Len(line)
            <4>1. CASE i = b[2]
                <5>1. b[1] \in 0 .. Len(s)
                    BY <3>3, <4>1
                <5>2. Before(s, b[1]) \in Seq(Chars) /\ Len(Before(s, b[1])) = b[1]
                    BY ONLY <3>2, <5>1, Halves
                <5>. QED
                    BY <2>1, <4>1, <5>2
            <4>2. CASE i # b[2]
                BY <3>2, <3>4, <4>2
            <4>. QED
                BY <4>1, <4>2
        <3>6. part(i) = IF i = a[2] THEN From(line, a[1]) ELSE line
            BY DEF s
        <3>. HIDE DEF line, part
        <3>7. i = a[2] => From(line, a[1]) \in Seq(Chars)
            BY ONLY <3>5, Halves
        <3>8. part(i) \in Seq(Chars)
            BY <3>5, <3>6, <3>7
        <3>. QED
            BY <3>8
    <2>. HIDE DEF part
    <2>3. ASSUME NEW s \in S, NEW i \in a[2] .. b[2] PROVE s \o <<Newline>> \o part(i) \in S
        <3>1. s \in S /\ <<Newline>> \in S /\ part(i) \in S
            BY <2>2
        <3>. HIDE DEF part
        <3>. QED
            BY ONLY <3>1, Spliced
    <2>4. G \in [Int -> [S -> S]]
        <3>. HIDE DEF S
        <3>. QED
            BY <2>3
    <2>5. a[2] \in Int /\ b[2] \in Int /\ a[2] \in a[2] .. b[2] /\ b[2] \in a[2] .. b[2]
        BY <2>1 DEF LineNos
    <2>. HIDE DEF S, G
    <2>6. PICK r \in [a[2] .. b[2] -> S] :
              r[a[2]] = part(a[2])
              /\ \A i \in a[2] + 1 .. b[2] : r[i] = r[i - 1] \o <<Newline>> \o part(i)
        <3>1. PICK g \in [Int -> [S -> S]] : g = G
            BY <2>4, Zenon
        <3>2. PICK m \in Int, n \in Int, p \in S : m = a[2] /\ n = b[2] /\ m <= n /\ p = part(a[2])
            BY <2>1, <2>2, <2>5
        <3>3. PICK r \in [m .. n -> S] : Goes(r, m, n, p, g)
            BY ONLY <3>2, Recursion
        <3>4. \A i \in m + 1 .. n : i \in Int /\ i \in m .. n /\ r[i - 1] \in S
            OBVIOUS
        <3>5. \A i \in m + 1 .. n : G[i][r[i - 1]] = r[i - 1] \o <<Newline>> \o part(i)
            BY <3>2, <3>4 DEF G
        <3>6. \A i \in m + 1 .. n : r[i] = r[i - 1] \o <<Newline>> \o part(i)
            BY ONLY <3>1, <3>3, <3>5 DEF Goes
        <3>7. r[m] = p
            BY ONLY <3>3 DEF Goes
        <3>. HIDE DEF a, b, part
        <3>8. /\ r \in [a[2] .. b[2] -> S] /\ r[a[2]] = part(a[2])
              /\ \A i \in a[2] + 1 .. b[2] : r[i] = r[i - 1] \o <<Newline>> \o part(i)
            BY ONLY <3>2, <3>6, <3>7
        <3>. QED
            BY ONLY <3>8
    <2>7. Eq(r)
        <3>1. \A i \in a[2] .. b[2] : i # a[2] => i \in a[2] + 1 .. b[2]
            BY <2>5
        <3>. QED
            BY <2>6, <3>1
    <2>8. PICK q : Eq(q) /\ Copy(e) = [e EXCEPT !.clip = q[b[2]]]
        BY <1>3, <2>7, Zenon DEF Copy, a, b, part
    <2>9. q[b[2]] \in S
        <3>1. q[a[2]] \in S
            BY <2>2, <2>5, <2>8 DEF S
        <3>2. ASSUME NEW i \in a[2] + 1 .. b[2], q[i - 1] \in S PROVE q[i] \in S
            <4>1. i \in a[2] .. b[2] /\ i # a[2]
                BY <2>5
            <4>2. q[i] = q[i - 1] \o <<Newline>> \o part(i)
                BY <2>8, <4>1
            <4>. QED
                BY <2>3, <3>2, <4>1, <4>2 DEF S
        <3>3. \A i \in a[2] + 1 .. b[2] : q[i - 1] \in S => q[i] \in S
            BY <3>2
        <3>. QED
            BY ONLY <2>5, <3>1, <3>3, Climbs
    <2>. DEFINE c == q[b[2]]
                f == Copy(e)
    <2>10. c \in Seq(Chars \cup {Newline}) /\ f = [e EXCEPT !.clip = c]
        BY <2>8, <2>9 DEF S
    <2>. HIDE DEF c, f
    <2>11. /\ f \in EdSet /\ f.undo = e.undo /\ f.past = e.past /\ f.redo = e.redo
           /\ f.ahead = e.ahead /\ f.lines = e.lines /\ f.count = e.count
           /\ f.events = e.events /\ f.ok = e.ok /\ f.x = e.x /\ f.y = e.y
           /\ f.dirty = e.dirty /\ f.sel = e.sel /\ f.sx = e.sx /\ f.sy = e.sy
        BY <1>0, <2>10 DEF EdSet
    <2>12. EdInv(f) /\ Tracks(e, f)
        <3>1. TextOf(e, f)
            BY <2>11 DEF TextOf
        <3>2. f.events = {} => ~ Stale(f)
            BY <1>3, <2>11 DEF Stale
        <3>3. e.dirty \subseteq f.dirty /\ f.x <= Len(f.lines[f.y])
              /\ (f.ok /\ "undo" \notin f.events => f.y < f.count)
            BY <1>0, <2>11 DEF EdInv, Numbered
        <3>. QED
            BY ONLY EdInv(e), <2>11, <3>1, <3>2, <3>3, TextKept
    <2>. QED
        BY <2>12 DEF f
<1>. QED
    BY <1>1, <1>2, <1>3

-----------------------------------------------------------------------------
(* The file.                                                               *)

Contents == Seq(Chars \cup {Newline})

\* The buffer after so many lines (ed_lines_to_buf).
Buffers(e, q) ==
    /\ q[0] = <<>> /\ \A n \in 0 .. MaxLines : q[n] \in Contents
    /\ \A n \in 1 .. MaxLines : q[n] = (q[n - 1] \o e.lines[n - 1]) \o <<Newline>>

\* ed_lines_to_buf writes the lines, each with its newline.
LEMMA BuffersThere ==
    ASSUME NEW e, e.lines \in [LineNos -> Lines]
    PROVE  \E q : Buffers(e, q) /\ ToBuffer(e) = IF e.count < 0 THEN <<>> ELSE q[e.count]
<1>. DEFINE N == MaxLines
            G == [n \in Int |-> [s \in Contents |-> IF n \in 1 .. N
                                    THEN (s \o e.lines[n - 1]) \o <<Newline>> ELSE s]]
            Eq(q) == q = [n \in 0 .. N |->
                            IF n = 0 THEN <<>> ELSE (q[n - 1] \o e.lines[n - 1]) \o <<Newline>>]
<1>0. N \in Nat /\ 0 \in Int /\ N \in Int /\ 0 <= N
    BY EditorAssumption
<1>1. ASSUME NEW s \in Contents, NEW n \in 1 .. N
      PROVE  (s \o e.lines[n - 1]) \o <<Newline>> \in Contents
    <2>. DEFINE S == Chars \cup {Newline}
                t == e.lines[n - 1]
    <2>1. n - 1 \in LineNos
        BY <1>0 DEF LineNos
    <2>2. t \in Seq(Chars)
        BY <2>1 DEF Lines
    <2>3. s \in Seq(S) /\ t \in Seq(S) /\ <<Newline>> \in Seq(S)
        <3>. HIDE DEF t
        <3>. QED
            BY <2>2 DEF Contents
    <2>. HIDE DEF t, S
    <2>4. (s \o t) \o <<Newline>> \in Seq(S)
        BY ONLY <2>3, Spliced
    <2>. QED
        BY <2>4 DEF t, S, Contents
<1>2. G \in [Int -> [Contents -> Contents]]
    <2>. HIDE DEF N
    <2>. QED
        BY <1>1, Zenon DEF Contents
<1>3. <<>> \in Contents
    BY DEF Contents
<1>. HIDE DEF N, G
<1>4. PICK r \in [0 .. N -> Contents] :
          r[0] = <<>> /\ \A n \in 1 .. N : r[n] = (r[n - 1] \o e.lines[n - 1]) \o <<Newline>>
    <2>1. PICK g \in [Int -> [Contents -> Contents]], b \in Contents : g = G /\ b = <<>>
        BY <1>2, <1>3, Zenon
    <2>2. PICK r \in [0 .. N -> Contents] : Goes(r, 0, N, b, g)
        BY ONLY <1>0, <2>1, Recursion
    <2>3. \A n \in 1 .. N : n \in Int /\ n \in 0 + 1 .. N /\ r[n - 1] \in Contents
        BY <1>0
    <2>4. \A n \in 1 .. N : G[n][r[n - 1]] = (r[n - 1] \o e.lines[n - 1]) \o <<Newline>>
        BY <2>3 DEF G
    <2>. QED
        BY <2>1, <2>2, <2>3, <2>4 DEF Goes
<1>. DEFINE first == <<>>
            step(s, n) == (s \o e.lines[n - 1]) \o <<Newline>>
            Fun(q) == q = [n \in 0 .. N |-> IF n = 0 THEN first ELSE step(q[n - 1], n)]
<1>5. Eq(r)
    <2>1. r \in [0 .. N -> Contents] /\ r[0] = first /\ \A n \in 1 .. N : r[n] = step(r[n - 1], n)
        BY <1>4
    <2>. HIDE DEF first, step
    <2>2. Fun(r)
        BY <1>0, <2>1
    <2>. QED
        BY <2>2, Zenon DEF first, step
<1>6. PICK q : Eq(q) /\ ToBuffer(e) = IF e.count < 0 THEN <<>> ELSE q[e.count]
    BY ONLY <1>5, ZenonT(30) DEF ToBuffer, N
<1>7. q[0] = <<>> /\ \A n \in 1 .. N : q[n] = (q[n - 1] \o e.lines[n - 1]) \o <<Newline>>
    <2>1. Fun(q)
        BY <1>6
    <2>. HIDE DEF first, step
    <2>2. q[0] = first /\ \A n \in 1 .. N : q[n] = step(q[n - 1], n)
        BY <1>0, <2>1
    <2>. QED
        BY <2>2, Zenon DEF first, step
<1>8. \A n \in 0 .. N : q[n] \in Contents
    <2>1. q[0] \in Contents
        BY <1>3, <1>7
    <2>2. ASSUME NEW n \in 0 + 1 .. N, q[n - 1] \in Contents PROVE q[n] \in Contents
        <3>1. n \in 1 .. N
            OBVIOUS
        <3>. HIDE DEF Eq
        <3>2. q[n] = (q[n - 1] \o e.lines[n - 1]) \o <<Newline>>
            BY <1>7, <3>1
        <3>3. (q[n - 1] \o e.lines[n - 1]) \o <<Newline>> \in Contents
            BY <1>1, <2>2, <3>1
        <3>. QED
            BY ONLY <3>2, <3>3
    <2>3. \A n \in 0 + 1 .. N : q[n - 1] \in Contents => q[n] \in Contents
        BY <2>2
    <2>. QED
        BY ONLY <1>0, <2>1, <2>3, Climbs
<1>. QED
    BY <1>6, <1>7, <1>8, Zenon DEF Buffers, N

\* What is saved is a file that can be opened.
LEMMA ToBufferType ==
    ASSUME NEW e, IsEd(e)
    PROVE  ToBuffer(e) \in Contents
<1>1. e.lines \in [LineNos -> Lines] /\ e.count \in Int /\ e.count <= MaxLines
    BY DEF IsEd, EdSet
<1>2. PICK q : Buffers(e, q) /\ ToBuffer(e) = IF e.count < 0 THEN <<>> ELSE q[e.count]
    BY <1>1, BuffersThere
<1>3. <<>> \in Contents
    BY DEF Contents
<1>4. ~ (e.count < 0) => e.count \in 0 .. MaxLines
    BY <1>1, EditorAssumption
<1>. QED
    BY <1>2, <1>3, <1>4 DEF Buffers

\* The lines of a buffer that is read: there is always one that grows.
Growing == {ls \in Seq(Lines) : Len(ls) >= 1}

\* One character of the file (ed_buf_to_lines).
LEMMA LineAddedType ==
    ASSUME NEW ls \in Growing, NEW c \in Chars \cup {Newline}
    PROVE  LineAdded(ls, c) \in Growing
<1>1. ls \in Seq(Lines) /\ Len(ls) \in Nat /\ Len(ls) >= 1 /\ Len(ls) \in 1 .. Len(ls)
    BY DEF Growing
<1>2. CASE c = Newline
    <2>1. <<>> \in Lines
        BY EditorAssumption DEF Lines
    <2>2. Append(ls, <<>>) \in Seq(Lines) /\ Len(Append(ls, <<>>)) = Len(ls) + 1
        BY <1>1, <2>1, AppendProperties
    <2>. QED
        BY <1>1, <1>2, <2>2 DEF LineAdded, Growing
<1>3. CASE c # Newline /\ Len(ls[Len(ls)]) >= LineLen - 1
    BY <1>3 DEF LineAdded
<1>4. CASE c # Newline /\ ~ (Len(ls[Len(ls)]) >= LineLen - 1)
    <2>. DEFINE n == Len(ls)
                s == ls[n]
                t == Append(s, c)
    <2>1. s \in Seq(Chars) /\ Len(s) \in Nat /\ Len(s) < LineLen - 1
        BY <1>1, <1>4, EditorAssumption, ElementOfSeq DEF Lines
    <2>2. t \in Lines
        <3>. HIDE DEF s
        <3>1. c \in Chars
            BY <1>4
        <3>2. t \in Seq(Chars) /\ Len(t) = Len(s) + 1
            BY <2>1, <3>1, AppendProperties
        <3>. QED
            BY <2>1, <3>2, EditorAssumption DEF Lines
    <2>3. LineAdded(ls, c) = [ls EXCEPT ![n] = t]
        BY <1>4 DEF LineAdded
    <2>. HIDE DEF t, s
    <2>4. [ls EXCEPT ![n] = t] \in Seq(Lines) /\ Len([ls EXCEPT ![n] = t]) = Len(ls)
        BY <1>1, <2>2, ExceptSeq
    <2>. QED
        BY <1>1, <2>3, <2>4 DEF Growing
<1>. QED
    BY <1>2, <1>3, <1>4

\* The lines after so many characters (ed_buf_to_lines).
Read(buf, q) ==
    /\ q[0] = <<<<>>>> /\ \A n \in 0 .. Len(buf) : q[n] \in Growing
    /\ \A n \in 1 .. Len(buf) : q[n] = LineAdded(q[n - 1], buf[n])

\* ed_buf_to_lines reads a file of any length.
LEMMA ReadThere ==
    ASSUME NEW buf \in Contents
    PROVE  \E q : /\ Read(buf, q)
                  /\ ToLines(buf) = IF Len(q[Len(buf)]) > MaxLines
                                    THEN Before(q[Len(buf)], MaxLines) ELSE q[Len(buf)]
<1>. DEFINE N == Len(buf)
            G == [n \in Int |-> [s \in Growing |-> IF n \in 1 .. N THEN LineAdded(s, buf[n]) ELSE s]]
            Eq(q) == q = [n \in 0 .. N |-> IF n = 0 THEN <<<<>>>> ELSE LineAdded(q[n - 1], buf[n])]
<1>0. /\ N \in Nat /\ 0 \in Int /\ N \in Int /\ 0 <= N
      /\ \A n \in 1 .. N : buf[n] \in Chars \cup {Newline}
    BY DEF Contents
<1>. HIDE DEF N
<1>1. ASSUME NEW s \in Growing, NEW n \in 1 .. N PROVE LineAdded(s, buf[n]) \in Growing
    BY <1>0, LineAddedType
<1>2. G \in [Int -> [Growing -> Growing]]
    BY <1>1
<1>3. <<<<>>>> \in Growing
    <2>1. <<>> \in Lines
        BY EditorAssumption DEF Lines
    <2>. QED
        BY <2>1 DEF Growing
<1>. HIDE DEF G
<1>4. PICK r \in [0 .. N -> Growing] :
          r[0] = <<<<>>>> /\ \A n \in 1 .. N : r[n] = LineAdded(r[n - 1], buf[n])
    <2>1. PICK g \in [Int -> [Growing -> Growing]], b \in Growing : g = G /\ b = <<<<>>>>
        BY <1>2, <1>3, Zenon
    <2>2. PICK r \in [0 .. N -> Growing] : Goes(r, 0, N, b, g)
        BY ONLY <1>0, <2>1, Recursion
    <2>3. \A n \in 1 .. N : n \in Int /\ n \in 0 + 1 .. N /\ r[n - 1] \in Growing
        BY <1>0
    <2>4. \A n \in 1 .. N : G[n][r[n - 1]] = LineAdded(r[n - 1], buf[n])
        BY <2>3 DEF G
    <2>. QED
        BY <2>1, <2>2, <2>3, <2>4 DEF Goes
<1>. DEFINE first == <<<<>>>>
            Fun(q) == q = [n \in 0 .. N |-> IF n = 0 THEN first ELSE LineAdded(q[n - 1], buf[n])]
<1>5. Eq(r)
    <2>1. /\ r \in [0 .. N -> Growing] /\ r[0] = first
          /\ \A n \in 1 .. N : r[n] = LineAdded(r[n - 1], buf[n])
        BY <1>4
    <2>. HIDE DEF first
    <2>2. Fun(r)
        BY <1>0, <2>1
    <2>. QED
        BY <2>2, Zenon DEF first
<1>6. PICK q : /\ Eq(q)
               /\ ToLines(buf) = IF Len(q[N]) > MaxLines THEN Before(q[N], MaxLines) ELSE q[N]
    BY <1>5, Zenon DEF ToLines, N
<1>7. q[0] = <<<<>>>> /\ \A n \in 1 .. N : q[n] = LineAdded(q[n - 1], buf[n])
    <2>1. Fun(q)
        BY <1>6
    <2>. HIDE DEF first
    <2>2. q[0] = first /\ \A n \in 1 .. N : q[n] = LineAdded(q[n - 1], buf[n])
        BY <1>0, <2>1
    <2>. QED
        BY <2>2, Zenon DEF first
<1>8. \A n \in 0 .. N : q[n] \in Growing
    <2>1. q[0] \in Growing
        BY <1>3, <1>7
    <2>2. ASSUME NEW n \in 0 + 1 .. N, q[n - 1] \in Growing PROVE q[n] \in Growing
        <3>1. n \in 1 .. N
            OBVIOUS
        <3>. HIDE DEF Eq
        <3>. QED
            BY <1>1, <1>7, <2>2, <3>1
    <2>3. \A n \in 0 + 1 .. N : q[n - 1] \in Growing => q[n] \in Growing
        BY <2>2
    <2>. QED
        BY ONLY <1>0, <2>1, <2>3, Climbs
<1>. QED
    BY <1>6, <1>7, <1>8, Zenon DEF Read, N

\* A file that is opened has at least a line, and at most as many as there is room
\* for.
LEMMA ToLinesType ==
    ASSUME NEW buf \in Contents
    PROVE  /\ ToLines(buf) \in Seq(Lines)
           /\ Len(ToLines(buf)) \in 1 .. MaxLines
<1>1. PICK q : /\ Read(buf, q)
               /\ ToLines(buf) = IF Len(q[Len(buf)]) > MaxLines
                                 THEN Before(q[Len(buf)], MaxLines) ELSE q[Len(buf)]
    BY ReadThere
<1>. DEFINE ls == q[Len(buf)]
<1>2. ls \in Seq(Lines) /\ Len(ls) \in Nat /\ Len(ls) >= 1
    <2>1. Len(buf) \in 0 .. Len(buf)
        BY DEF Contents
    <2>2. ls \in Growing
        BY <1>1, <2>1 DEF Read
    <2>. HIDE DEF ls
    <2>. QED
        BY <2>2 DEF Growing
<1>3. ToLines(buf) = IF Len(ls) > MaxLines THEN Before(ls, MaxLines) ELSE ls
    BY <1>1
<1>. HIDE DEF ls
<1>4. CASE Len(ls) > MaxLines
    <2>1. MaxLines \in 0 .. Len(ls) /\ MaxLines \in 1 .. MaxLines
        BY <1>2, <1>4, EditorAssumption
    <2>2. Before(ls, MaxLines) \in Seq(Lines) /\ Len(Before(ls, MaxLines)) = MaxLines
        BY ONLY <1>2, <2>1, Halves
    <2>. QED
        BY <1>3, <1>4, <2>1, <2>2
<1>5. CASE ~ (Len(ls) > MaxLines)
    BY <1>2, <1>3, <1>5, EditorAssumption
<1>. QED
    BY <1>4, <1>5

\* What fat_edit_file starts with is in order, whatever the session before left.
LEMMA OpenedInv ==
    ASSUME NEW buf \in Contents, NEW old \in [LineNos -> Lines], NEW clip \in Contents
    PROVE  /\ EdInv(Opened(buf, old, clip))
           /\ Opened(buf, old, clip).y = 0
<1>. DEFINE ls == ToLines(buf)
            n == Len(ls)
            lines == [i \in LineNos |-> IF i < n THEN ls[i + 1] ELSE old[i]]
            f == Opened(buf, old, clip)
<1>1. ls \in Seq(Lines) /\ n \in 1 .. MaxLines
    BY ToLinesType
<1>2. lines \in [LineNos -> Lines]
    <2>1. \A i \in 1 .. n : ls[i] \in Lines
        BY <1>1, ElementOfSeq
    <2>2. \A i \in LineNos : i < n => i + 1 \in 1 .. n
        BY <1>1, EditorAssumption DEF LineNos
    <2>. HIDE DEF n, ls
    <2>. QED
        BY <2>1, <2>2
<1>3. f = [lines |-> lines, count |-> n, x |-> 0, y |-> 0, sel |-> FALSE, sx |-> 0, sy |-> 0,
           clip |-> clip, undo |-> <<>>, redo |-> <<>>, dirty |-> LineNos \ Rows,
           past |-> <<>>, ahead |-> <<>>, events |-> {}, ok |-> TRUE]
    BY DEF Opened
<1>. HIDE DEF f, lines, n, ls
<1>4. 0 \in LineNos /\ n \in Int /\ n <= MaxLines /\ 0 < n /\ 0 \in Nat
    BY <1>1, EditorAssumption DEF LineNos
<1>5. /\ f.lines = lines /\ f.count = n /\ f.x = 0 /\ f.y = 0 /\ f.sel = FALSE
      /\ f.undo = <<>> /\ f.redo = <<>> /\ f.past = <<>> /\ f.ahead = <<>>
      /\ f.events = {} /\ f.ok = TRUE
    BY <1>3
<1>6. f \in EdSet
    <2>1. <<>> \in Seq(Slots) /\ <<>> \in Seq(Texts)
        OBVIOUS
    <2>. QED
        BY <1>2, <1>3, <1>4, <2>1 DEF EdSet, Contents
<1>7. IsEd(f)
    <2>1. lines[0] \in Lines
        BY <1>2, <1>4
    <2>2. 0 <= Len(lines[0])
        BY <2>1 DEF Lines
    <2>. QED
        BY <1>4, <1>5, <1>6, <2>2 DEF IsEd
<1>8. UndoInv(f) /\ Numbered(f)
    BY <1>4, <1>5, <1>7, AcrossRings
<1>9. SelInv(f)
    BY <1>5 DEF SelInv, Stale
<1>. QED
    BY <1>5, <1>7, <1>8, <1>9 DEF EdInv, f

-----------------------------------------------------------------------------
(* The screen.                                                             *)

\* ed_scroll_to_cursor: afterwards the cursor's line is in the view.
LEMMA ScrolledTopShows ==
    ASSUME top \in Nat, NEW e, e.y \in LineNos
    PROVE  ScrolledTop(e) \in Nat /\ e.y \in ScrolledTop(e) .. ScrolledTop(e) + ViewHeight - 1
<1>1. e.y \in Nat /\ ViewHeight \in Nat /\ ViewHeight >= 1
    BY EditorAssumption DEF LineNos
<1>2. PICK y : y = e.y
    OBVIOUS
<1>3. CASE y < top
    BY <1>1, <1>2, <1>3 DEF ScrolledTop
<1>4. CASE ~ (y < top) /\ y >= top + ViewHeight
    BY <1>1, <1>2, <1>4 DEF ScrolledTop
<1>5. CASE ~ (y < top) /\ ~ (y >= top + ViewHeight)
    BY <1>1, <1>2, <1>5 DEF ScrolledTop
<1>. QED
    BY <1>3, <1>4, <1>5

\* ed_render: when the marks cover what changed, the rows drawn before and the
\* rows drawn now show the text, and only the marks change.
LEMMA RenderInv ==
    ASSUME top \in Nat, ShownInv, NEW e, EdInv(e), Tracks(ed, e), NEW rows,
           \A r \in Rows : rows[r] = shown[r] \/ (r = 1 /\ rows[r] = Times),
           Render(e, rows)
    PROVE  /\ EdInv(ed)' /\ top' \in Nat /\ ed'.y \in top' .. top' + ViewHeight - 1
           /\ ShownInv' /\ Text(ed') = Text(e)
<1>. DEFINE t == ScrolledTop(e)
            dirty == IF t # top THEN LineNos ELSE e.dirty
            all == IF e.sel THEN SelectionRows(e).dirty \cup dirty ELSE dirty
            drawn == {r \in Rows : t + r \in all}
            left == dirty \ {t + r : r \in drawn}
<1>0. /\ e \in EdSet /\ IsEd(e) /\ e.y \in LineNos /\ e.count \in Int /\ e.count <= MaxLines
      /\ e.dirty \subseteq LineNos
    BY DEF EdInv, IsEd, EdSet
<1>1. /\ top' = t
      /\ shown' = [r \in Rows |-> IF r \notin drawn THEN rows[r]
                                  ELSE IF t + r < e.count THEN e.lines[t + r] ELSE <<>>]
      /\ ed' = [e EXCEPT !.dirty = left]
    BY DEF Render
<1>2. t \in Nat /\ e.y \in t .. t + ViewHeight - 1
    BY <1>0, ScrolledTopShows
<1>3. dirty \subseteq all /\ dirty \subseteq LineNos /\ left \subseteq LineNos
    BY <1>0
<1>. HIDE DEF t, all, left
<1>4. PICK f : f = [e EXCEPT !.dirty = left] /\ f = ed'
    BY <1>1
<1>5. /\ f \in EdSet /\ f.undo = e.undo /\ f.past = e.past /\ f.redo = e.redo
      /\ f.ahead = e.ahead /\ f.lines = e.lines /\ f.count = e.count
      /\ f.events = e.events /\ f.ok = e.ok /\ f.x = e.x /\ f.y = e.y
      /\ f.sel = e.sel /\ f.sx = e.sx /\ f.sy = e.sy
    <2>1. e \in EdSet /\ left \in SUBSET LineNos /\ f = [e EXCEPT !.dirty = left]
        BY <1>0, <1>3, <1>4
    <2>. QED
        BY ONLY <2>1 DEF EdSet
<1>6. EdInv(f)
    <2>1. IsEd(f)
        BY <1>0, <1>5 DEF IsEd
    <2>2. UndoInv(f) /\ Numbered(f)
        BY <1>0, <1>5, <2>1, TextRings DEF EdInv, TextOf, Numbered
    <2>3. SelInv(f)
        BY <1>5 DEF EdInv, SelInv, Stale
    <2>. QED
        BY <2>1, <2>2, <2>3 DEF EdInv
<1>7. ASSUME f.ok, "undo" \notin f.events, NEW r \in Rows, t + r < f.count
      PROVE  shown'[r] = f.lines[t + r] \/ (r = 1 /\ shown'[r] = Times)
    <2>1. CASE r \in drawn
        BY <1>1, <1>5, <1>7, <2>1
    <2>2. CASE r \notin drawn
        <3>1. shown'[r] = rows[r] /\ t + r \notin all
            BY <1>1, <2>2
        <3>2. t + r \in 0 .. e.count - 1 /\ t + r \in LineNos
            BY <1>0, <1>2, <1>5, <1>7, EditorAssumption DEF Rows, LineNos
        <3>3. t = top /\ t + r \notin e.dirty
            BY <1>3, <3>1, <3>2
        <3>4. /\ ed.ok /\ "undo" \notin ed.events
              /\ t + r < ed.count /\ e.lines[t + r] = ed.lines[t + r]
            BY <1>5, <1>7, <3>2, <3>3 DEF Tracks
        <3>5. shown[r] = ed.lines[top + r] \/ (r = 1 /\ shown[r] = Times)
            BY <3>3, <3>4 DEF ShownInv
        <3>. QED
            BY <1>5, <3>1, <3>3, <3>4, <3>5
    <2>. QED
        BY <2>1, <2>2
<1>8. ShownInv'
    BY <1>1, <1>4, <1>7 DEF ShownInv
<1>9. EdInv(ed')
    BY <1>4, <1>6
<1>10. Text(ed') = Text(e)
    BY <1>4, <1>5 DEF Text
<1>11. ed'.y \in top' .. top' + ViewHeight - 1 /\ top' \in Nat
    BY <1>1, <1>2, <1>4, <1>5
<1>. QED
    BY <1>8, <1>9, <1>10, <1>11

-----------------------------------------------------------------------------
\* A key whose handler keeps the invariant and marks what it changes.
LEMMA KeyInv ==
    ASSUME IInv, NEW e, EdInv(e), Tracks(ed, e), Key(e)
    PROVE  IInv' /\ Text(ed') = Text(e)
<1>1. \A r \in Rows : shown[r] = shown[r] \/ (r = 1 /\ shown[r] = Times)
    OBVIOUS
<1>2. top \in Nat /\ ShownInv /\ file \in Seq(Chars \cup {Newline})
    BY DEF IInv
<1>3. Render(e, shown) /\ file' = file
    BY DEF Key
<1>4. /\ EdInv(ed)' /\ top' \in Nat /\ ed'.y \in top' .. top' + ViewHeight - 1
      /\ ShownInv' /\ Text(ed') = Text(e)
    BY <1>1, <1>2, <1>3, RenderInv
<1>. QED
    BY <1>2, <1>3, <1>4 DEF IInv

\* fat_edit_file draws the whole view at the start.
LEMMA StartInv ==
    ASSUME NEW e, EdInv(e), e.y = 0, file \in Contents, ed = e, top = 0,
           shown = [r \in Rows |-> IF r < ed.count THEN ed.lines[r] ELSE <<>>]
    PROVE  IInv
<1>1. top \in Nat /\ ed.y \in top .. top + ViewHeight - 1
    BY EditorAssumption
<1>2. ShownInv
    <2>1. ASSUME NEW r \in Rows, top + r < ed.count PROVE shown[r] = ed.lines[top + r]
        <3>1. top + r = r
            BY DEF Rows
        <3>. QED
            BY <2>1, <3>1
    <2>. QED
        BY <2>1 DEF ShownInv
<1>. QED
    BY <1>1, <1>2 DEF IInv, Contents

\* What opening a file establishes.
LEMMA InitIInv == Init => IInv
<1>. SUFFICES ASSUME Init PROVE IInv
    OBVIOUS
<1>1. file \in Contents
    BY EditorAssumption DEF Init, Contents
<1>2. [i \in LineNos |-> <<>>] \in [LineNos -> Lines]
    <2>1. <<>> \in Lines
        BY EditorAssumption DEF Lines
    <2>. QED
        BY <2>1
<1>3. EdInv(ed) /\ ed.y = 0 /\ \E old \in [LineNos -> Lines], clip \in Contents : ed = Opened(file, old, clip)
    <2>1. PICK old \in [LineNos -> Lines] : old = [i \in LineNos |-> <<>>]
        BY <1>2
    <2>2. Clips \subseteq Contents
        BY EditorAssumption DEF Contents
    <2>3. PICK clip \in Clips : ed = Opened(file, old, clip)
        BY <2>1 DEF Init
    <2>4. EdInv(Opened(file, old, clip)) /\ Opened(file, old, clip).y = 0
        BY <1>1, <2>2, <2>3, OpenedInv
    <2>. QED
        BY <2>2, <2>3, <2>4
<1>. QED
    BY <1>1, <1>3, StartInv DEF Init

\* Every key keeps the invariant; undo and redo lead back to the remembered texts.
LEMMA NextIInv == IInv /\ [Next]_vars => IInv'
<1>. SUFFICES ASSUME IInv, [Next]_vars PROVE IInv'
    OBVIOUS
<1>0. EdInv(ed) /\ IsEd(ed) /\ ed.lines \in [LineNos -> Lines] /\ ed.clip \in Contents
    BY DEF IInv, EdInv, IsEd, EdSet, Contents
<1>1. CASE Type
    <2>. DEFINE d == DeleteSelection(ed)
    <2>1. PICK c \in Chars : Key(IF d.ok THEN InsertChar(d, c) ELSE d)
        BY <1>1 DEF Type
    <2>2. EdInv(d) /\ Tracks(ed, d)
        BY <1>0, DeleteSelectionInv
    <2>. HIDE DEF d
    <2>3. CASE d.ok
        <3>1. EdInv(InsertChar(d, c)) /\ Tracks(d, InsertChar(d, c))
            BY <2>2, InsertCharInv
        <3>2. Tracks(ed, InsertChar(d, c))
            BY <2>2, <3>1, TracksOn DEF EdInv
        <3>. QED
            BY <2>1, <2>3, <3>1, <3>2, KeyInv
    <2>4. CASE ~ d.ok
        BY <2>1, <2>2, <2>4, KeyInv
    <2>. QED
        BY <2>3, <2>4
<1>2. CASE Enter
    <2>. DEFINE d == DeleteSelection(ed)
    <2>1. Key(IF d.ok THEN InsertNewline(d) ELSE d)
        BY <1>2 DEF Enter
    <2>2. EdInv(d) /\ Tracks(ed, d)
        BY <1>0, DeleteSelectionInv
    <2>. HIDE DEF d
    <2>3. CASE d.ok
        <3>1. EdInv(InsertNewline(d)) /\ Tracks(d, InsertNewline(d))
            BY <2>2, InsertNewlineInv
        <3>2. Tracks(ed, InsertNewline(d))
            BY <2>2, <3>1, TracksOn DEF EdInv
        <3>. QED
            BY <2>1, <2>3, <3>1, <3>2, KeyInv
    <2>4. CASE ~ d.ok
        BY <2>1, <2>2, <2>4, KeyInv
    <2>. QED
        BY <2>3, <2>4
<1>3. CASE Erase
    <2>1. CASE ed.sel
        <3>1. Key(DeleteSelection(ed))
            BY <1>3, <2>1 DEF Erase
        <3>. QED
            BY <1>0, <3>1, DeleteSelectionInv, KeyInv
    <2>2. CASE ~ ed.sel
        <3>1. Key(Backspace(ed))
            BY <1>3, <2>2 DEF Erase
        <3>. QED
            BY <1>0, <2>2, <3>1, BackspaceInv, KeyInv
    <2>. QED
        BY <2>1, <2>2
<1>4. CASE CtrlC
    BY <1>0, <1>4, CopyInv, KeyInv DEF CtrlC
<1>5. CASE CtrlV
    BY <1>0, <1>5, PasteInv, KeyInv DEF CtrlV
<1>6. CASE CtrlZ
    BY <1>0, <1>6, UndoKeeps, KeyInv DEF CtrlZ
<1>7. CASE CtrlY
    BY <1>0, <1>7, RedoKeeps, KeyInv DEF CtrlY
<1>8. CASE Arrow
    <2>. DEFINE d == ClearSelection(ed)
    <2>1. PICK e \in Moved(d) : Key(e)
        BY <1>8 DEF Arrow
    <2>2. EdInv(d) /\ Tracks(ed, d)
        BY <1>0, ClearSelectionInv
    <2>. HIDE DEF d
    <2>3. EdInv(e) /\ Tracks(d, e)
        BY <2>2, MovedInv
    <2>4. Tracks(ed, e)
        BY <2>2, <2>3, TracksOn DEF EdInv
    <2>. QED
        BY <2>1, <2>3, <2>4, KeyInv
<1>9. CASE ShiftArrow
    <2>. DEFINE d == Marked(ed)
    <2>1. PICK e \in Moved(d) : Key(SelectionRows(e))
        BY <1>9 DEF ShiftArrow
    <2>2. EdInv(d) /\ Tracks(ed, d)
        BY <1>0, MarkedInv
    <2>. HIDE DEF d
    <2>3. EdInv(e) /\ Tracks(d, e)
        BY <2>2, MovedInv
    <2>4. EdInv(SelectionRows(e)) /\ Tracks(e, SelectionRows(e))
        BY <2>3, SelectionRowsInv
    <2>5. Tracks(ed, e)
        BY <2>2, <2>3, TracksOn DEF EdInv
    <2>6. Tracks(ed, SelectionRows(e))
        BY <2>3, <2>4, <2>5, TracksOn DEF EdInv
    <2>. QED
        BY <2>1, <2>4, <2>6, KeyInv
<1>10. CASE CtrlS
    <2>. DEFINE rows == [r \in Rows |-> IF r = 1 THEN Times ELSE shown[r]]
    <2>1. Render(ed, rows) /\ file' = ToBuffer(ed)
        BY <1>10 DEF CtrlS
    <2>2. \A r \in Rows : rows[r] = shown[r] \/ (r = 1 /\ rows[r] = Times)
        OBVIOUS
    <2>3. Tracks(ed, ed) /\ top \in Nat /\ ShownInv
        BY <1>0, TracksSame DEF IInv
    <2>. HIDE DEF rows
    <2>4. /\ EdInv(ed)' /\ top' \in Nat /\ ed'.y \in top' .. top' + ViewHeight - 1 /\ ShownInv'
        BY <1>0, <2>1, <2>2, <2>3, RenderInv
    <2>5. file' \in Contents
        BY <1>0, <2>1, ToBufferType
    <2>. QED
        BY <2>4, <2>5 DEF IInv, Contents
<1>11. CASE Reopen
    <2>1. file \in Contents /\ file' = file
        BY <1>11 DEF IInv, Reopen, Contents
    <2>2. EdInv(Opened(file, ed.lines, ed.clip)) /\ Opened(file, ed.lines, ed.clip).y = 0
        BY <1>0, <2>1, OpenedInv
    <2>3. EdInv(ed') /\ ed'.y = 0
        BY <1>11, <2>2 DEF Reopen
    <2>4. top' = 0 /\ shown' = [r \in Rows |-> IF r < ed'.count THEN ed'.lines[r] ELSE <<>>]
        BY <1>11 DEF Reopen
    <2>5. top' \in Nat /\ ed'.y \in top' .. top' + ViewHeight - 1
        BY <2>3, <2>4, EditorAssumption
    <2>6. ShownInv'
        <3>1. ASSUME NEW r \in Rows, top' + r < ed'.count PROVE shown'[r] = ed'.lines[top' + r]
            <4>1. top' + r = r
                BY <2>4 DEF Rows
            <4>. QED
                BY <2>4, <3>1, <4>1
        <3>. QED
            BY <3>1 DEF ShownInv
    <2>. QED
        BY <2>1, <2>3, <2>5, <2>6 DEF IInv, Contents
<1>12. CASE UNCHANGED vars
    BY <1>12 DEF IInv, ShownInv, EdInv, IsEd, Numbered, UndoInv, SelInv, Stale, Text, vars
<1>. QED
    BY <1>1, <1>2, <1>3, <1>4, <1>5, <1>6, <1>7, <1>8, <1>9, <1>10, <1>11, <1>12 DEF Next

\* The editor keeps its text, its selection, its undo ring and its screen in
\* order, key after key.
THEOREM IInvInvariant == Spec => []IInv
<1>. QED
    BY InitIInv, NextIInv, PTL DEF Spec

\* ed_insert_char, ed_insert_newline, ed_backspace, ed_delete_selection: lines stay
\* shorter than their arrays, cursor and selection in the text, as long as no
\* forward selection was deleted, no change of the number of lines undone and no
\* text changed under a selection.
THEOREM TextStaysInside == Spec => []StaysInText
<1>1. IInv => StaysInText
    <2>. SUFFICES ASSUME IInv, ed.events = {} PROVE
              /\ ed.ok
              /\ ed.count \in 1 .. MaxLines /\ ed.y < ed.count /\ ed.x \in 0 .. Len(Line(ed))
              /\ \A i \in 0 .. ed.count - 1 : Len(ed.lines[i]) < LineLen
              /\ ~ Stale(ed)
        BY DEF StaysInText
    <2>1. /\ ed.lines \in [LineNos -> Lines] /\ ed.count \in Int /\ ed.count <= MaxLines
          /\ ed.x \in Nat /\ ed.x <= Len(ed.lines[ed.y]) /\ ed.y \in LineNos
        BY DEF IInv, EdInv, IsEd, EdSet
    <2>2. ed.ok /\ ~ Stale(ed)
        BY DEF IInv, EdInv, SelInv
    <2>3. ed.y < ed.count
        BY <2>2 DEF IInv, EdInv, Numbered
    <2>4. \A i \in 0 .. ed.count - 1 : i \in LineNos
        BY <2>1, EditorAssumption DEF LineNos
    <2>5. \A i \in 0 .. ed.count - 1 : Len(ed.lines[i]) < LineLen
        BY <2>1, <2>4 DEF Lines
    <2>6. ed.count \in 1 .. MaxLines
        BY <2>1, <2>3, EditorAssumption DEF LineNos
    <2>7. Len(ed.lines[ed.y]) \in Nat
        BY <2>1 DEF Lines
    <2>. QED
        BY <2>1, <2>2, <2>3, <2>5, <2>6, <2>7 DEF Line
<1>. QED
    BY <1>1, IInvInvariant, PTL

\* ed_render: redrawing the dirty rows only leaves every row with its line, but for
\* the times that saving writes into row 1.
THEOREM ScreenIsCurrent == Spec => []ScreenShowsText
<1>1. IInv => ScreenShowsText
    BY DEF IInv, ShownInv, ScreenShowsText
<1>. QED
    BY <1>1, IInvInvariant, PTL

\* ed_do_undo, ed_do_redo: as long as changes stay within lines, undo leads back
\* through them to the text and the cursor before each, and redo forward again.
THEOREM UndoLeadsBack == Spec => UndoIsExact
<1>1. IInv /\ [Next]_vars =>
          [/\ CtrlZ /\ ed.past # <<>> => Text(ed') = Last(ed.past)
           /\ CtrlY /\ ed.ahead # <<>> => Text(ed') = Last(ed.ahead)]_vars
    <2>. SUFFICES ASSUME IInv
                  PROVE  /\ CtrlZ /\ ed.past # <<>> => Text(ed') = Last(ed.past)
                         /\ CtrlY /\ ed.ahead # <<>> => Text(ed') = Last(ed.ahead)
        OBVIOUS
    <2>0. EdInv(ed)
        BY DEF IInv
    <2>1. CtrlZ => Text(ed') = Text(Undo(ed))
        BY <2>0, UndoKeeps, KeyInv DEF CtrlZ
    <2>2. CtrlY => Text(ed') = Text(Redo(ed))
        BY <2>0, RedoKeeps, KeyInv DEF CtrlY
    <2>. QED
        BY <2>0, <2>1, <2>2, UndoKeeps, RedoKeeps
<1>. QED
    BY <1>1, IInvInvariant, PTL DEF Spec, UndoIsExact

-----------------------------------------------------------------------------
(* Saving and opening again.                                               *)

\* Line s and a newline are written behind p, which makes r.
Adds(p, r, s) ==
    /\ s \in Seq(Chars) /\ Len(s) \in Nat /\ Len(s) < LineLen
    /\ Len(p) \in Nat /\ Len(r) = Len(p) + Len(s) + 1
    /\ \A i \in 1 .. Len(p) : r[i] = p[i]
    /\ \A j \in 1 .. Len(s) : r[Len(p) + j] = s[j]
    /\ r[Len(r)] = Newline

\* What ed_lines_to_buf adds with one line.
LEMMA BufferStep ==
    ASSUME NEW e, e.lines \in [LineNos -> Lines], NEW q, Buffers(e, q), NEW n \in 1 .. MaxLines
    PROVE  Adds(q[n - 1], q[n], e.lines[n - 1])
<1>. DEFINE S == Chars \cup {Newline}
            t == <<Newline>>
            p == q[n - 1]
            s == e.lines[n - 1]
<1>1. n - 1 \in LineNos /\ n - 1 \in 0 .. MaxLines
    BY EditorAssumption DEF LineNos
<1>2. s \in Seq(Chars) /\ Len(s) \in Nat /\ Len(s) < LineLen
    BY <1>1 DEF Lines
<1>3. p \in Seq(S) /\ s \in Seq(S) /\ t \in Seq(S) /\ Len(t) = 1 /\ t[1] = Newline
    BY <1>1, <1>2 DEF Buffers, Contents
<1>4. q[n] = (p \o s) \o t
    BY DEF Buffers
<1>. HIDE DEF t, p, s, S
<1>5. /\ p \o s \in Seq(S) /\ Len(p \o s) = Len(p) + Len(s)
      /\ \A i \in 1 .. Len(p) + Len(s) : (p \o s)[i] = IF i <= Len(p) THEN p[i] ELSE s[i - Len(p)]
    BY <1>3, ConcatProperties
<1>. DEFINE v == p \o s
<1>. HIDE DEF v
<1>6. /\ v \o t \in Seq(S) /\ Len(v \o t) = Len(v) + Len(t)
      /\ \A i \in 1 .. Len(v) + Len(t) : (v \o t)[i] = IF i <= Len(v) THEN v[i] ELSE t[i - Len(v)]
    <2>1. v \in Seq(S)
        BY <1>5 DEF v
    <2>. QED
        BY ONLY <1>3, <2>1, ConcatProperties
<1>7. Len(p) \in Nat /\ Len(v) = Len(p) + Len(s) /\ q[n] = v \o t
    BY <1>3, <1>4, <1>5, LenProperties DEF v
<1>8. Len(q[n]) = Len(p) + Len(s) + 1
    BY <1>3, <1>6, <1>7
<1>9. ASSUME NEW i \in 1 .. Len(p) PROVE q[n][i] = p[i]
    <2>1. i \in 1 .. Len(v) + Len(t) /\ i <= Len(v) /\ i \in 1 .. Len(p) + Len(s) /\ i <= Len(p)
        BY <1>2, <1>3, <1>7
    <2>. QED
        BY <1>5, <1>6, <1>7, <2>1 DEF v
<1>10. ASSUME NEW j \in 1 .. Len(s) PROVE q[n][Len(p) + j] = s[j]
    <2>. DEFINE i == Len(p) + j
    <2>1. /\ i \in 1 .. Len(v) + Len(t) /\ i <= Len(v) /\ i \in 1 .. Len(p) + Len(s) /\ ~ (i <= Len(p))
          /\ i - Len(p) = j
        BY <1>2, <1>3, <1>7
    <2>. HIDE DEF i
    <2>2. q[n][i] = s[j]
        BY <1>5, <1>6, <1>7, <2>1 DEF v
    <2>. QED
        BY <2>2 DEF i
<1>11. q[n][Len(q[n])] = Newline
    <2>. DEFINE i == Len(v) + 1
    <2>1. i \in 1 .. Len(v) + Len(t) /\ ~ (i <= Len(v)) /\ i - Len(v) = 1 /\ Len(q[n]) = i
        BY <1>2, <1>3, <1>7, <1>8
    <2>. HIDE DEF i
    <2>. QED
        BY <1>3, <1>6, <1>7, <2>1
<1>. QED
    BY <1>2, <1>7, <1>8, <1>9, <1>10, <1>11 DEF Adds, p, s

\* What holds of the first number and is kept holds of all.
LEMMA Counting ==
    ASSUME NEW S, NEW m \in Int, NEW n \in Int, m \in S,
           \A i \in m + 1 .. n : i - 1 \in S => i \in S
    PROVE  \A i \in m .. n : i \in S
<1>. DEFINE q == [i \in Int |-> i]
<1>1. \A i \in m .. n : i \in Int /\ q[i] = i
    OBVIOUS
<1>2. \A i \in m + 1 .. n : i \in Int /\ i - 1 \in Int /\ q[i] = i /\ q[i - 1] = i - 1
    OBVIOUS
<1>3. q[m] = m
    OBVIOUS
<1>. HIDE DEF q
<1>4. q[m] \in S /\ \A i \in m + 1 .. n : q[i - 1] \in S => q[i] \in S
    BY <1>2, <1>3
<1>5. \A i \in m .. n : q[i] \in S
    BY ONLY <1>4, m \in Int, n \in Int, Climbs
<1>. QED
    BY <1>1, <1>5

\* What ed_lines_to_buf has written stays as the buffer grows.
LEMMA BufferPrefix ==
    ASSUME NEW e, e.lines \in [LineNos -> Lines], NEW q, Buffers(e, q),
           NEW c \in 0 .. MaxLines, NEW n \in 0 .. c
    PROVE  Len(q[n]) \in Nat /\ Len(q[n]) <= Len(q[c]) /\ \A i \in 1 .. Len(q[n]) : q[c][i] = q[n][i]
<1>0. MaxLines \in Nat /\ c \in Int /\ n \in Int /\ c \in n .. c
    BY EditorAssumption
<1>1. \A k \in 0 .. MaxLines : Len(q[k]) \in Nat
    BY LenProperties DEF Buffers, Contents
<1>. DEFINE P(k) == Len(q[n]) <= Len(q[k]) /\ \A i \in 1 .. Len(q[n]) : q[k][i] = q[n][i]
            S == {k \in n .. c : P(k)}
<1>2. n \in S
    BY <1>0, <1>1
<1>3. ASSUME NEW k \in n + 1 .. c, k - 1 \in S PROVE k \in S
    <2>1. k \in 1 .. MaxLines /\ k \in n .. c /\ k - 1 \in 0 .. MaxLines /\ k \in 0 .. MaxLines
        BY <1>0
    <2>2. Adds(q[k - 1], q[k], e.lines[k - 1])
        BY ONLY <2>1, e.lines \in [LineNos -> Lines], Buffers(e, q), BufferStep
    <2>3. /\ Len(q[k - 1]) \in Nat /\ Len(q[k]) \in Nat /\ Len(q[k - 1]) <= Len(q[k])
          /\ \A i \in 1 .. Len(q[k - 1]) : q[k][i] = q[k - 1][i]
        <3>1. PICK s : Adds(q[k - 1], q[k], s)
            BY <2>2
        <3>. QED
            BY ONLY <3>1 DEF Adds
    <2>4. Len(q[n]) \in Nat
        BY <1>0, <1>1
    <2>5. P(k - 1)
        BY <1>3
    <2>6. Len(q[n]) <= Len(q[k])
        BY <2>3, <2>4, <2>5
    <2>7. \A i \in 1 .. Len(q[n]) : i \in 1 .. Len(q[k - 1])
        BY <2>3, <2>4, <2>5
    <2>8. \A i \in 1 .. Len(q[n]) : q[k][i] = q[n][i]
        BY <2>3, <2>5, <2>7
    <2>. QED
        BY <2>1, <2>6, <2>8
<1>4. \A k \in n + 1 .. c : k - 1 \in S => k \in S
    BY <1>3
<1>. HIDE DEF S
<1>5. \A k \in n .. c : k \in S
    BY ONLY <1>0, <1>2, <1>4, Counting
<1>6. c \in S /\ n \in 0 .. MaxLines
    BY <1>0, <1>5
<1>. QED
    BY <1>1, <1>6 DEF S

\* The lines read when j characters of line n have been.
Partly(e, n, j) == [i \in 1 .. n |-> IF i < n THEN e.lines[i - 1] ELSE Before(e.lines[n - 1], j)]

\* Their number and the last of them.
IsPartly(f, e, n, s, j) ==
    /\ f \in Seq(Lines) /\ Len(f) = n /\ f[n] = Before(s, j) /\ Len(Before(s, j)) = j
    /\ \A i \in 1 .. n : i < n => f[i] = e.lines[i - 1]

\* They are lines that fit their arrays.
LEMMA PartlyType ==
    ASSUME NEW e, e.lines \in [LineNos -> Lines], NEW n \in 1 .. MaxLines,
           NEW s, s = e.lines[n - 1], NEW j \in 0 .. Len(s)
    PROVE  IsPartly(Partly(e, n, j), e, n, s, j)
<1>0. n \in Nat /\ n \in 1 .. n /\ MaxLines \in Nat /\ LineLen \in Nat
    BY EditorAssumption
<1>1. \A i \in 1 .. n : i - 1 \in LineNos /\ e.lines[i - 1] \in Lines
    <2>1. \A i \in 1 .. n : i - 1 \in LineNos
        BY <1>0 DEF LineNos
    <2>. QED
        BY <2>1
<1>2. s \in Lines
    BY <1>0, <1>1
<1>3. s \in Seq(Chars) /\ Len(s) \in Nat /\ Len(s) < LineLen
    BY <1>2 DEF Lines
<1>4. Before(s, j) \in Seq(Chars) /\ Len(Before(s, j)) = j
    BY ONLY <1>3, j \in 0 .. Len(s), Halves
<1>5. Before(s, j) \in Lines
    BY <1>0, <1>3, <1>4 DEF Lines
<1>. DEFINE f == Partly(e, n, j)
<1>6. f \in [1 .. n -> Lines]
    BY <1>1, <1>5 DEF Partly
<1>7. f[n] = Before(s, j) /\ \A i \in 1 .. n : i < n => f[i] = e.lines[i - 1]
    BY <1>0 DEF Partly
<1>. HIDE DEF f
<1>8. f \in Seq(Lines) /\ Len(f) = n
    BY ONLY <1>0, <1>6, Counted
<1>. QED
    BY <1>4, <1>7, <1>8 DEF IsPartly, f

\* A character that is not a newline makes the line one longer, for it is shorter
\* than its array (ed_buf_to_lines).
LEMMA LineGrows ==
    ASSUME NEW e, e.lines \in [LineNos -> Lines], NEW n \in 1 .. MaxLines,
           NEW s, s = e.lines[n - 1], NEW j \in 1 .. Len(s)
    PROVE  LineAdded(Partly(e, n, j - 1), s[j]) = Partly(e, n, j)
<1>0. /\ s \in Seq(Chars) /\ Len(s) \in Nat /\ Len(s) < LineLen
    <2>1. n - 1 \in LineNos
        BY EditorAssumption DEF LineNos
    <2>. QED
        BY <2>1 DEF Lines
<1>1. j \in 0 .. Len(s) /\ j - 1 \in 0 .. Len(s) /\ LineLen \in Nat
    BY <1>0, EditorAssumption
<1>. DEFINE f == Partly(e, n, j - 1)
            g == Partly(e, n, j)
            t == Append(Before(s, j - 1), s[j])
<1>2. /\ f \in Seq(Lines) /\ Len(f) = n /\ f[n] = Before(s, j - 1) /\ Len(Before(s, j - 1)) = j - 1
      /\ \A i \in 1 .. n : i < n => f[i] = e.lines[i - 1]
    <2>1. IsPartly(f, e, n, s, j - 1)
        BY <1>1, PartlyType
    <2>. QED
        BY ONLY <2>1 DEF IsPartly
<1>3. /\ g \in Seq(Lines) /\ Len(g) = n /\ g[n] = Before(s, j) /\ Len(Before(s, j)) = j
      /\ \A i \in 1 .. n : i < n => g[i] = e.lines[i - 1]
    <2>1. IsPartly(g, e, n, s, j)
        BY <1>1, PartlyType
    <2>. QED
        BY ONLY <2>1 DEF IsPartly
<1>4. s[j] \in Chars /\ s[j] # Newline
    <2>1. s[j] \in Chars
        BY <1>0, ElementOfSeq
    <2>. QED
        BY <2>1, EditorAssumption
<1>5. t = Before(s, j)
    <2>1. /\ Before(s, j - 1) \in Seq(Chars) /\ Before(s, j) \in Seq(Chars)
          /\ \A i \in 1 .. j - 1 : Before(s, j - 1)[i] = s[i]
          /\ \A i \in 1 .. j : Before(s, j)[i] = s[i]
        <3>1. /\ 1 \in Int /\ j \in Int /\ j - 1 \in Int /\ 1 <= 1 /\ 1 <= j + 1 /\ 1 <= j - 1 + 1
              /\ j <= Len(s) /\ j - 1 <= Len(s)
              /\ j - 1 + 1 = j /\ j - 1 - 1 + 1 = j - 1
              /\ \A i \in 1 .. j : 1 + i - 1 = i
            BY <1>0, <1>1
        <3>2. /\ SubSeq(s, 1, j) \in Seq(Chars)
              /\ \A i \in 1 .. j - 1 + 1 : SubSeq(s, 1, j)[i] = s[1 + i - 1]
            BY ONLY <1>0, <3>1, Sliced
        <3>3. /\ SubSeq(s, 1, j - 1) \in Seq(Chars)
              /\ \A i \in 1 .. j - 1 - 1 + 1 : SubSeq(s, 1, j - 1)[i] = s[1 + i - 1]
            BY ONLY <1>0, <3>1, Sliced
        <3>4. \A i \in 1 .. j - 1 : i \in 1 .. j
            BY <1>1
        <3>. QED
            BY <3>1, <3>2, <3>3, <3>4 DEF Before
    <2>2. /\ t \in Seq(Chars) /\ Len(t) = j - 1 + 1 /\ t[j - 1 + 1] = s[j]
          /\ \A i \in 1 .. j - 1 : t[i] = Before(s, j - 1)[i]
        BY <1>2, <1>4, <2>1, AppendProperties
    <2>3. j - 1 + 1 = j /\ \A i \in 1 .. j : i = j \/ i \in 1 .. j - 1
        BY <1>1
    <2>. HIDE DEF t
    <2>4. Len(t) = Len(Before(s, j))
        BY <1>3, <2>2, <2>3
    <2>5. \A i \in 1 .. Len(t) : t[i] = Before(s, j)[i]
        BY <2>1, <2>2, <2>3
    <2>. QED
        BY <2>1, <2>2, <2>4, <2>5, SeqEqual
<1>. HIDE DEF t, f, g
<1>6. LineAdded(f, s[j]) = [f EXCEPT ![n] = t]
    <2>1. ~ (Len(f[n]) >= LineLen - 1)
        BY <1>0, <1>1, <1>2
    <2>. QED
        BY <1>2, <1>4, <2>1 DEF LineAdded, t
<1>7. n \in 1 .. Len(f) /\ t \in Lines
    <2>1. n \in 1 .. n
        BY EditorAssumption
    <2>2. g[n] \in Lines
        BY <1>3, <2>1, ElementOfSeq
    <2>. QED
        BY <1>2, <1>3, <1>5, <2>1, <2>2
<1>8. /\ [f EXCEPT ![n] = t] \in Seq(Lines) /\ Len([f EXCEPT ![n] = t]) = n
      /\ \A i \in 1 .. n : [f EXCEPT ![n] = t][i] = IF i = n THEN t ELSE f[i]
    BY <1>2, <1>7, ExceptSeq
<1>. DEFINE h == [f EXCEPT ![n] = t]
<1>. HIDE DEF h
<1>9. h \in Seq(Lines) /\ Len(h) = Len(g) /\ \A i \in 1 .. Len(h) : h[i] = g[i]
    <2>1. \A i \in 1 .. n : i = n \/ i < n
        BY EditorAssumption
    <2>. QED
        BY <1>2, <1>3, <1>5, <1>8, <2>1 DEF h
<1>10. h = g
    BY <1>3, <1>9, SeqEqual
<1>. QED
    BY <1>6, <1>10 DEF f, g, h

\* Behind line s, the n-th, the lines so far and an empty one have been read.
LineIsRead(all, q, e, n, s) == all[Len(q[n])] = Append(Partly(e, n, Len(s)), <<>>)

\* ed_buf_to_lines goes through a line that was written character by character.
LEMMA LineRead ==
    ASSUME NEW e, e.lines \in [LineNos -> Lines], NEW q, Buffers(e, q),
           NEW c \in 1 .. MaxLines, NEW all, NEW buf, buf = q[c], Read(buf, all),
           NEW n \in 1 .. c, NEW s, s = e.lines[n - 1],
           all[Len(q[n - 1])] = Partly(e, n, 0)
    PROVE  LineIsRead(all, q, e, n, s)
<1>0. /\ MaxLines \in Nat /\ n \in 1 .. MaxLines /\ n - 1 \in 0 .. c /\ n \in 0 .. c
      /\ c \in 0 .. MaxLines
    BY EditorAssumption
<1>1. /\ s \in Seq(Chars) /\ Len(s) \in Nat /\ Len(s) < LineLen
      /\ Len(q[n - 1]) \in Nat /\ Len(q[n]) = Len(q[n - 1]) + Len(s) + 1
      /\ \A i \in 1 .. Len(q[n - 1]) : q[n][i] = q[n - 1][i]
      /\ \A j \in 1 .. Len(s) : q[n][Len(q[n - 1]) + j] = s[j]
      /\ q[n][Len(q[n])] = Newline
    <2>1. Adds(q[n - 1], q[n], s)
        BY ONLY <1>0, s = e.lines[n - 1], e.lines \in [LineNos -> Lines], Buffers(e, q), BufferStep
    <2>. QED
        BY ONLY <2>1 DEF Adds
<1>2. Len(q[n]) \in Nat /\ Len(q[n]) <= Len(q[c]) /\ \A i \in 1 .. Len(q[n]) : q[c][i] = q[n][i]
    BY ONLY <1>0, e.lines \in [LineNos -> Lines], Buffers(e, q), BufferPrefix
<1>3. PICK p : p = Len(q[n - 1])
    OBVIOUS
<1>4. PICK l : l = Len(s)
    OBVIOUS
<1>5. /\ p \in Nat /\ l \in Nat /\ p + l + 1 <= Len(buf) /\ Len(buf) \in Nat
      /\ \A j \in 1 .. l : buf[p + j] = s[j]
      /\ buf[p + l + 1] = Newline
    <2>1. Len(buf) \in Nat
        BY <1>0, LenProperties DEF Buffers, Contents
    <2>2. p \in Nat /\ l \in Nat /\ Len(q[n]) = p + l + 1
        BY ONLY <1>1, <1>3, <1>4
    <2>3. p + l + 1 \in 1 .. Len(q[n]) /\ \A j \in 1 .. l : p + j \in 1 .. Len(q[n])
        BY ONLY <2>2
    <2>4. \A j \in 1 .. l : q[n][p + j] = s[j]
        BY ONLY <1>1, <1>3, <1>4
    <2>5. q[n][p + l + 1] = Newline
        BY ONLY <1>1, <2>2
    <2>6. p + l + 1 <= Len(buf)
        BY ONLY <1>2, <2>2, buf = q[c]
    <2>7. \A i \in 1 .. Len(q[n]) : buf[i] = q[n][i]
        BY ONLY <1>2, buf = q[c]
    <2>. QED
        BY ONLY <2>1, <2>2, <2>3, <2>4, <2>5, <2>6, <2>7
<1>6. \A k \in 1 .. Len(buf) : all[k] = LineAdded(all[k - 1], buf[k])
    BY DEF Read
<1>. DEFINE S == {j \in 0 .. l : all[p + j] = Partly(e, n, j)}
<1>7. 0 \in S
    <2>1. p + 0 = p
        BY <1>5
    <2>. QED
        BY <1>3, <1>5, <2>1
<1>8. ASSUME NEW j \in 0 + 1 .. l, j - 1 \in S PROVE j \in S
    <2>1. /\ p + j \in 1 .. Len(buf) /\ p + j - 1 = p + (j - 1) /\ j \in 1 .. l /\ j \in 1 .. Len(s)
          /\ j \in 0 .. l
        <3>1. p \in Nat /\ l \in Nat /\ p + l + 1 <= Len(buf) /\ Len(buf) \in Nat /\ l = Len(s)
              /\ j \in 0 + 1 .. l
            BY <1>4, <1>5
        <3>. QED
            BY ONLY <3>1
    <2>2. all[p + j] = LineAdded(Partly(e, n, j - 1), s[j])
        BY <1>5, <1>6, <1>8, <2>1
    <2>3. LineAdded(Partly(e, n, j - 1), s[j]) = Partly(e, n, j)
        BY ONLY <1>0, <2>1, s = e.lines[n - 1], e.lines \in [LineNos -> Lines], LineGrows
    <2>. QED
        BY <2>1, <2>2, <2>3
<1>9. l \in S
    <2>1. \A j \in 0 + 1 .. l : j - 1 \in S => j \in S
        BY <1>8
    <2>2. 0 \in Int /\ l \in Int /\ l \in 0 .. l
        BY <1>5
    <2>. HIDE DEF S
    <2>3. \A j \in 0 .. l : j \in S
        BY ONLY <1>7, <2>1, <2>2, Counting
    <2>. QED
        BY <2>2, <2>3
<1>10. p + l + 1 \in 1 .. Len(buf) /\ p + l + 1 - 1 = p + l
    BY <1>5
<1>11. all[p + l + 1] = LineAdded(Partly(e, n, l), Newline)
    BY <1>5, <1>6, <1>9, <1>10
<1>12. LineAdded(Partly(e, n, l), Newline) = Append(Partly(e, n, l), <<>>)
    BY DEF LineAdded
<1>. QED
    BY <1>1, <1>3, <1>4, <1>11, <1>12 DEF LineIsRead

\* Behind a newline the next line is empty.
LEMMA LineStarts ==
    ASSUME NEW e, e.lines \in [LineNos -> Lines], NEW n \in 1 .. MaxLines, n + 1 <= MaxLines,
           NEW s, s = e.lines[n - 1]
    PROVE  Append(Partly(e, n, Len(s)), <<>>) = Partly(e, n + 1, 0)
<1>0. /\ MaxLines \in Nat /\ n + 1 \in 1 .. MaxLines /\ n \in Nat /\ n + 1 - 1 = n /\ n - 1 \in LineNos
      /\ n \in LineNos
    BY EditorAssumption DEF LineNos
<1>1. s \in Seq(Chars) /\ Len(s) \in Nat
    BY <1>0 DEF Lines
<1>. DEFINE f == Partly(e, n, Len(s))
            m == n + 1
            g == Partly(e, m, 0)
<1>2. /\ f \in Seq(Lines) /\ Len(f) = n /\ f[n] = Before(s, Len(s))
      /\ \A i \in 1 .. n : i < n => f[i] = e.lines[i - 1]
    <2>1. PICK j : j = Len(s)
        OBVIOUS
    <2>2. j \in 0 .. Len(s)
        BY <1>1, <2>1
    <2>3. IsPartly(Partly(e, n, j), e, n, s, j)
        BY ONLY <2>2, e.lines \in [LineNos -> Lines], n \in 1 .. MaxLines, s = e.lines[n - 1], PartlyType
    <2>4. IsPartly(f, e, n, s, Len(s))
        BY <2>1, <2>3
    <2>. HIDE DEF f
    <2>. QED
        BY ONLY <2>4 DEF IsPartly
<1>3. Before(s, Len(s)) = s
    BY <1>1 DEF Before
<1>4. PICK t : t = e.lines[n]
    OBVIOUS
<1>5. t \in Seq(Chars) /\ Len(t) \in Nat
    BY <1>0, <1>4 DEF Lines
<1>6. /\ g \in Seq(Lines) /\ Len(g) = m /\ g[m] = Before(t, 0)
      /\ \A i \in 1 .. m : i < m => g[i] = e.lines[i - 1]
    <2>1. m \in 1 .. MaxLines /\ t = e.lines[m - 1] /\ 0 \in 0 .. Len(t)
        BY <1>0, <1>4, <1>5
    <2>. HIDE DEF m
    <2>2. IsPartly(g, e, m, t, 0)
        BY ONLY <2>1, e.lines \in [LineNos -> Lines], PartlyType
    <2>. HIDE DEF g
    <2>. QED
        BY ONLY <2>2 DEF IsPartly
<1>7. Before(t, 0) = <<>> /\ <<>> \in Lines
    <2>1. 0 \in 0 .. Len(t)
        BY <1>5
    <2>2. Before(t, 0) \in Seq(Chars) /\ Len(Before(t, 0)) = 0
        BY ONLY <1>5, <2>1, Halves
    <2>3. <<>> \in Lines
        BY EditorAssumption DEF Lines
    <2>. QED
        BY <2>2, <2>3, EmptySeq
<1>. HIDE DEF f, g
<1>. DEFINE h == Append(f, <<>>)
<1>8. h \in Seq(Lines) /\ Len(h) = n + 1 /\ h[n + 1] = <<>> /\ \A i \in 1 .. n : h[i] = f[i]
    BY <1>2, <1>7, AppendProperties
<1>. HIDE DEF h
<1>9. \A i \in 1 .. n : f[i] = e.lines[i - 1]
    <2>1. \A i \in 1 .. n : i < n \/ i = n
        BY <1>0
    <2>. QED
        BY <1>2, <1>3, <2>1
<1>10. \A i \in 1 .. Len(h) : h[i] = g[i]
    <2>1. \A i \in 1 .. n + 1 : i = n + 1 \/ (i \in 1 .. n /\ i < n + 1)
        BY <1>0
    <2>. QED
        BY <1>6, <1>7, <1>8, <1>9, <2>1
<1>11. h = g
    BY <1>6, <1>8, <1>10, SeqEqual
<1>. QED
    BY <1>11 DEF f, g, h

\* The first lines are written to a buffer and read from it again, the last of them
\* being s.
ReadsBack(e, q, c, all, buf, s) ==
    /\ e.lines \in [LineNos -> Lines] /\ c \in 1 .. MaxLines /\ Buffers(e, q)
    /\ buf = q[c] /\ Read(buf, all) /\ s = e.lines[c - 1]

\* All lines, each behind the one before: what is read of a file that was saved.
LEMMA AllRead ==
    ASSUME NEW e, NEW q, NEW c, NEW all, NEW buf, NEW s, ReadsBack(e, q, c, all, buf, s)
    PROVE  all[Len(buf)] = Append(Partly(e, c, Len(s)), <<>>)
<1>. /\ e.lines \in [LineNos -> Lines] /\ c \in 1 .. MaxLines /\ Buffers(e, q)
     /\ buf = q[c] /\ Read(buf, all) /\ s = e.lines[c - 1]
    BY DEF ReadsBack
<1>0. MaxLines \in Nat /\ 1 \in Int /\ c \in Int /\ c \in 1 .. c
    BY EditorAssumption
<1>. DEFINE S == {n \in 1 .. c : all[Len(q[n - 1])] = Partly(e, n, 0)}
<1>1. 1 \in S
    <2>1. q[0] = <<>> /\ all[0] = <<<<>>>> /\ 1 - 1 = 0 /\ Len(<<>>) = 0
        BY DEF Buffers, Read
    <2>2. PICK n : n = 1
        OBVIOUS
    <2>3. PICK t : t = e.lines[n - 1]
        OBVIOUS
    <2>4. t \in Seq(Chars) /\ Len(t) \in Nat
        <3>1. n - 1 \in LineNos
            BY <2>2, EditorAssumption DEF LineNos
        <3>. QED
            BY <2>3, <3>1 DEF Lines
    <2>5. n \in 1 .. MaxLines /\ 0 \in 0 .. Len(t)
        BY <1>0, <2>2, <2>4
    <2>6. Partly(e, n, 0) \in Seq(Lines) /\ Len(Partly(e, n, 0)) = n /\ Partly(e, n, 0)[n] = Before(t, 0)
          /\ Len(Before(t, 0)) = 0
        <3>1. IsPartly(Partly(e, n, 0), e, n, t, 0)
            BY ONLY <2>3, <2>5, e.lines \in [LineNos -> Lines], PartlyType
        <3>. QED
            BY ONLY <3>1 DEF IsPartly
    <2>7. Before(t, 0) = <<>>
        <3>1. Before(t, 0) \in Seq(Chars)
            BY ONLY <2>4, <2>5, Halves
        <3>. QED
            BY <2>6, <3>1, EmptySeq
    <2>. DEFINE f == Partly(e, n, 0)
    <2>8. f \in Seq(Lines) /\ Len(f) = 1 /\ f[1] = <<>>
        BY <2>2, <2>6, <2>7
    <2>. HIDE DEF f
    <2>9. f = <<<<>>>>
        <3>1. <<>> \in Lines
            BY EditorAssumption DEF Lines
        <3>2. <<<<>>>> \in Seq(Lines) /\ Len(<<<<>>>>) = 1 /\ <<<<>>>>[1] = <<>>
            BY <3>1
        <3>3. \A i \in 1 .. Len(f) : f[i] = <<<<>>>>[i]
            BY <2>8, <3>2
        <3>4. Len(f) = Len(<<<<>>>>)
            BY <2>8, <3>2
        <3>. QED
            BY ONLY <2>8, <3>2, <3>3, <3>4, SeqEqual
    <2>10. Partly(e, 1, 0) = <<<<>>>>
        BY ONLY <2>2, <2>9 DEF f
    <2>. QED
        BY <1>0, <2>1, <2>10
<1>2. ASSUME NEW n \in 1 + 1 .. c, n - 1 \in S PROVE n \in S
    <2>1. PICK m : m = n - 1
        OBVIOUS
    <2>2. m \in 1 .. c /\ m \in 1 .. MaxLines /\ m + 1 = n /\ m + 1 <= MaxLines /\ n \in 1 .. c
        BY <1>0, <2>1
    <2>3. PICK t : t = e.lines[m - 1]
        OBVIOUS
    <2>4. all[Len(q[m - 1])] = Partly(e, m, 0)
        BY <1>2, <2>1
    <2>5. LineIsRead(all, q, e, m, t)
        BY ONLY <2>2, <2>3, <2>4, e.lines \in [LineNos -> Lines], Buffers(e, q), c \in 1 .. MaxLines,
                buf = q[c], Read(buf, all), LineRead
    <2>6. Append(Partly(e, m, Len(t)), <<>>) = Partly(e, m + 1, 0)
        BY ONLY <2>2, <2>3, e.lines \in [LineNos -> Lines], LineStarts
    <2>. QED
        BY <2>1, <2>2, <2>5, <2>6 DEF LineIsRead
<1>3. c \in S
    <2>1. \A n \in 1 + 1 .. c : n - 1 \in S => n \in S
        BY <1>2
    <2>. HIDE DEF S
    <2>2. \A n \in 1 .. c : n \in S
        BY ONLY <1>0, <1>1, <2>1, Counting
    <2>. QED
        BY <1>0, <2>2
<1>4. all[Len(q[c - 1])] = Partly(e, c, 0)
    BY <1>3
<1>5. LineIsRead(all, q, e, c, s)
    BY ONLY <1>0, <1>4, e.lines \in [LineNos -> Lines], Buffers(e, q), c \in 1 .. MaxLines,
            buf = q[c], Read(buf, all), s = e.lines[c - 1], LineRead
<1>. QED
    BY <1>5 DEF LineIsRead

\* The lines of the text, as SavedIsOpened names them.
Now(e) == [i \in 1 .. e.count |-> e.lines[i - 1]]

\* A text without lines is an empty file, and that is read as one empty line.
LEMMA NothingSaved ==
    ASSUME NEW e, IsEd(e), e.count <= 0
    PROVE  ToLines(ToBuffer(e)) = Append(Now(e), <<>>)
<1>0. e.lines \in [LineNos -> Lines] /\ e.count \in Int
    BY DEF IsEd, EdSet
<1>1. PICK q : Buffers(e, q) /\ ToBuffer(e) = IF e.count < 0 THEN <<>> ELSE q[e.count]
    BY <1>0, BuffersThere
<1>2. ToBuffer(e) = <<>>
    <2>1. e.count < 0 \/ e.count = 0
        BY <1>0
    <2>2. q[0] = <<>>
        BY <1>1 DEF Buffers
    <2>. QED
        BY ONLY <1>1, <2>1, <2>2
<1>3. PICK b : b = ToBuffer(e)
    OBVIOUS
<1>4. b \in Contents /\ Len(b) = 0
    BY <1>2, <1>3 DEF Contents
<1>5. PICK all : /\ Read(b, all)
                 /\ ToLines(b) = IF Len(all[Len(b)]) > MaxLines
                                 THEN Before(all[Len(b)], MaxLines) ELSE all[Len(b)]
    BY <1>4, ReadThere
<1>6. ToLines(b) = <<<<>>>>
    <2>1. all[0] = <<<<>>>> /\ Len(<<<<>>>>) = 1
        BY <1>5 DEF Read
    <2>2. ~ (1 > MaxLines)
        BY EditorAssumption
    <2>. QED
        BY <1>4, <1>5, <2>1, <2>2
<1>7. Now(e) = <<>>
    <2>1. 1 .. e.count = 1 .. 0 /\ 1 .. e.count = {}
        BY <1>0
    <2>2. Now(e) \in [1 .. 0 -> Lines]
        BY <2>1 DEF Now
    <2>3. 0 \in Nat
        OBVIOUS
    <2>4. Now(e) \in Seq(Lines) /\ Len(Now(e)) = 0
        BY ONLY <2>2, <2>3, Counted
    <2>. QED
        BY <2>4, EmptySeq
<1>8. Append(<<>>, <<>>) = <<<<>>>>
    OBVIOUS
<1>. QED
    BY <1>3, <1>6, <1>7, <1>8

\* The lines of a text, read up to the end of the last, are the text.
LEMMA WholeText ==
    ASSUME NEW e, IsEd(e), NEW c \in 1 .. MaxLines, c = e.count, NEW s, s = e.lines[c - 1]
    PROVE  Partly(e, c, Len(s)) = Now(e) /\ Now(e) \in Seq(Lines) /\ Len(Now(e)) = c
<1>0. /\ e.lines \in [LineNos -> Lines] /\ c \in Nat
      /\ \A i \in 1 .. c : i - 1 \in LineNos /\ e.lines[i - 1] \in Lines
    <2>1. e.lines \in [LineNos -> Lines] /\ c \in Nat
        BY EditorAssumption DEF IsEd, EdSet
    <2>2. \A i \in 1 .. c : i - 1 \in LineNos
        BY EditorAssumption DEF LineNos
    <2>. QED
        BY <2>1, <2>2
<1>1. s \in Seq(Chars) /\ Len(s) \in Nat /\ Before(s, Len(s)) = s
    <2>1. s \in Lines
        BY <1>0, EditorAssumption
    <2>. QED
        BY <2>1 DEF Lines, Before
<1>2. PICK l : l = Len(s)
    OBVIOUS
<1>3. l \in 0 .. Len(s)
    BY <1>1, <1>2
<1>4. IsPartly(Partly(e, c, l), e, c, s, l)
    BY ONLY <1>0, <1>3, c \in 1 .. MaxLines, s = e.lines[c - 1], PartlyType
<1>. DEFINE f == Partly(e, c, l)
            g == Now(e)
<1>5. /\ f \in Seq(Lines) /\ Len(f) = c /\ f[c] = Before(s, l)
      /\ \A i \in 1 .. c : i < c => f[i] = e.lines[i - 1]
    <2>. HIDE DEF f
    <2>. QED
        BY ONLY <1>4 DEF IsPartly, f
<1>6. g \in [1 .. c -> Lines] /\ \A i \in 1 .. c : g[i] = e.lines[i - 1]
    BY <1>0 DEF Now
<1>. HIDE DEF f, g
<1>7. g \in Seq(Lines) /\ Len(g) = c
    BY ONLY <1>0, <1>6, Counted
<1>8. \A i \in 1 .. Len(f) : f[i] = g[i]
    <2>1. \A i \in 1 .. c : i < c \/ i = c
        BY <1>0
    <2>. QED
        BY <1>1, <1>2, <1>5, <1>6, <2>1
<1>9. f = g
    <2>1. Len(f) = Len(g)
        BY <1>5, <1>7
    <2>. QED
        BY ONLY <1>5, <1>7, <1>8, <2>1, SeqEqual
<1>. QED
    BY <1>2, <1>7, <1>9 DEF f, g

\* A text of so many lines is read as its lines and an empty one, which is cut off
\* when the lines fill the array (ed_lines_to_buf, ed_buf_to_lines).
LEMMA LinesSaved ==
    ASSUME NEW e, IsEd(e), NEW c \in 1 .. MaxLines, c = e.count
    PROVE  ToLines(ToBuffer(e)) = IF c < MaxLines THEN Append(Now(e), <<>>) ELSE Now(e)
<1>0. e.lines \in [LineNos -> Lines] /\ c \in Int /\ ~ (c < 0) /\ c \in 0 .. MaxLines /\ MaxLines \in Nat
    BY EditorAssumption DEF IsEd, EdSet
<1>1. PICK q : Buffers(e, q) /\ ToBuffer(e) = IF e.count < 0 THEN <<>> ELSE q[e.count]
    BY <1>0, BuffersThere
<1>2. PICK b : b = ToBuffer(e)
    OBVIOUS
<1>3. b = q[c] /\ b \in Contents
    BY <1>0, <1>1, <1>2 DEF Buffers
<1>4. PICK all : /\ Read(b, all)
                 /\ ToLines(b) = IF Len(all[Len(b)]) > MaxLines
                                 THEN Before(all[Len(b)], MaxLines) ELSE all[Len(b)]
    BY <1>3, ReadThere
<1>5. PICK s : s = e.lines[c - 1]
    OBVIOUS
<1>6. all[Len(b)] = Append(Partly(e, c, Len(s)), <<>>)
    <2>1. /\ e.lines \in [LineNos -> Lines] /\ c \in 1 .. MaxLines /\ Buffers(e, q)
          /\ b = q[c] /\ Read(b, all) /\ s = e.lines[c - 1]
        BY <1>0, <1>1, <1>3, <1>4, <1>5
    <2>2. ReadsBack(e, q, c, all, b, s)
        BY ONLY <2>1 DEF ReadsBack
    <2>. QED
        BY ONLY <2>2, AllRead
<1>7. Partly(e, c, Len(s)) = Now(e) /\ Now(e) \in Seq(Lines) /\ Len(Now(e)) = c
    BY <1>5, WholeText
<1>. DEFINE now == Now(e)
            h == Append(now, <<>>)
<1>. HIDE DEF now
<1>8. /\ h \in Seq(Lines) /\ Len(h) = c + 1 /\ \A i \in 1 .. c : h[i] = now[i]
      /\ now \in Seq(Lines) /\ Len(now) = c
    <2>1. <<>> \in Lines
        BY EditorAssumption DEF Lines
    <2>2. now \in Seq(Lines) /\ Len(now) = c
        BY <1>7 DEF now
    <2>. QED
        BY ONLY <2>1, <2>2, AppendProperties
<1>. HIDE DEF h
<1>9. ToLines(b) = IF c + 1 > MaxLines THEN Before(h, MaxLines) ELSE h
    <2>1. all[Len(b)] = h
        BY <1>6, <1>7 DEF h, now
    <2>. QED
        BY ONLY <1>4, <1>8, <2>1
<1>10. CASE c < MaxLines
    <2>1. ~ (c + 1 > MaxLines)
        BY <1>0, <1>10
    <2>. QED
        BY <1>2, <1>9, <1>10, <2>1 DEF h, now
<1>11. CASE ~ (c < MaxLines)
    <2>1. c = MaxLines /\ c + 1 > MaxLines
        BY <1>0, <1>11
    <2>2. /\ 1 \in Int /\ c \in Int /\ 1 <= 1 /\ c <= Len(h) /\ 1 <= c + 1 /\ c - 1 + 1 = c
          /\ \A i \in 1 .. c : 1 + i - 1 = i
        BY <1>0, <1>8
    <2>3. /\ SubSeq(h, 1, c) \in Seq(Lines) /\ Len(SubSeq(h, 1, c)) = c - 1 + 1
          /\ \A i \in 1 .. c - 1 + 1 : SubSeq(h, 1, c)[i] = h[1 + i - 1]
        BY ONLY <1>8, <2>2, Sliced
    <2>. DEFINE g == SubSeq(h, 1, c)
    <2>4. g \in Seq(Lines) /\ Len(g) = c /\ \A i \in 1 .. c : g[i] = h[i]
        BY ONLY <2>2, <2>3
    <2>. HIDE DEF g
    <2>5. Len(g) = Len(now) /\ \A i \in 1 .. Len(g) : g[i] = now[i]
        BY ONLY <1>8, <2>4
    <2>6. g = now
        BY ONLY <1>8, <2>4, <2>5, SeqEqual
    <2>7. ToLines(b) = g
        BY <1>9, <2>1 DEF Before, g
    <2>. QED
        BY <1>2, <1>11, <2>6, <2>7 DEF now
<1>. QED
    BY <1>10, <1>11

\* ed_lines_to_buf, ed_buf_to_lines: what is saved is what is opened again, with one
\* empty line more, unless the lines already fill the array.
THEOREM SavedComesBack == Spec => []SavedIsOpened
<1>1. IInv => SavedIsOpened
    <2>. SUFFICES ASSUME IInv PROVE
              ToLines(ToBuffer(ed)) = IF ed.count < MaxLines THEN Append(Now(ed), <<>>) ELSE Now(ed)
        BY DEF SavedIsOpened, Now
    <2>1. IsEd(ed)
        BY DEF IInv, EdInv
    <2>2. ed.count \in Int /\ ed.count <= MaxLines /\ MaxLines \in Nat \ {0}
        BY <2>1, EditorAssumption DEF IsEd, EdSet
    <2>3. CASE ed.count <= 0
        <3>1. ed.count < MaxLines
            BY <2>2, <2>3
        <3>. QED
            BY <2>1, <2>3, <3>1, NothingSaved
    <2>4. CASE ~ (ed.count <= 0)
        <3>1. PICK c : c = ed.count
            OBVIOUS
        <3>2. c \in 1 .. MaxLines
            BY <2>2, <2>4, <3>1
        <3>. QED
            BY <2>1, <3>1, <3>2, LinesSaved
    <2>. QED
        BY <2>3, <2>4
<1>. QED
    BY <1>1, IInvInvariant, PTL
=============================================================================
