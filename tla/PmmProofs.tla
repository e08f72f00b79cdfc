------------------------------ MODULE PmmProofs ------------------------------
(***************************************************************************)
(* Theorems about Pmm, for every page size, layout and memory map, and     *)
(* about PmmPreempted, for any number of pages, width of the bitmap's      *)
(* bytes and victim.                                                       *)
(*                                                                         *)
(* The counter is the number of 0 bits because pmm_init's second loop      *)
(* meets every page once: while it runs, the pages it has cleared are      *)
(* those of the entries before i and those of entry i below p.             *)
(***************************************************************************)
EXTENDS Pmm, PmmPreempted, FiniteSetTheorems, TLAPS

\* The pages cleared so far by the loop over the free entries.
Cleared ==
    {n \in 0 .. max_pages - 1 :
        \/ \E j \in 1 .. Len(e820) : j < i /\ n \in EntryPages(e820[j])
        \/ pc = "clear" /\ n \in EntryPages(e820[i]) /\ n < p}

RamPages == UNION {EntryPages(e820[j]) : j \in 1 .. Len(e820)}

MapInv == e820 \in Maps /\ e820 \in Seq(Entry)

LoopInv ==
    /\ pc = "scan" => used = {} /\ max_pages = 0 /\ free_pages = 0
    /\ pc \in {"entries", "clear"} => FreePages = Cleared
    /\ pc = "clear" => /\ i \in 1 .. Len(e820) /\ e820[i].free
                       /\ EntryStart(e820[i]) <= p
    /\ pc # "ready" => held = {}

CountInv == DisjointMap => free_pages = Cardinality(FreePages)

RamInv == FreePages \cup held \subseteq RamPages

ReserveInv ==
    /\ \A k \in 1 .. 5 :
           (pc = "ready" \/ (pc = "reserve" /\ k < r)) =>
               \A n \in ReservedStart(k) .. ReservedStop(k) - 1 :
                   n \notin FreePages \cup held
    /\ pc = "reserve" => /\ ReservedStart(r) <= p
                         /\ \A n \in ReservedStart(r) .. p - 1 : n \notin FreePages

IInv ==
    /\ TypeOK /\ MapInv /\ LoopInv /\ CountInv /\ RamInv /\ ReserveInv
    /\ HeldIsUsed

-----------------------------------------------------------------------------
(***************************************************************************)
(* Rounding to pages                                                       *)
(***************************************************************************)
\* What a division by PAGE_SIZE gives (pmm.c:46-47, 110, 142-145).
LEMMA Division ==
    ASSUME NEW a \in Nat, NEW s \in Nat \ {0}
    PROVE  a \div s \in Nat /\ (a \div s) * s <= a /\ a < (a \div s) * s + s
    OBVIOUS

\* Rounding down to a page keeps the order of addresses (pmm.c:142-145).
LEMMA Monotone ==
    ASSUME NEW m \in Int, NEW n \in Int, NEW s \in Nat, m <= n
    PROVE  m * s <= n * s
    OBVIOUS

\* A page from PageUp(a) on starts at a or behind it.
LEMMA PageUpStartsBehind ==
    ASSUME NEW a \in Nat, NEW n \in Nat, PageUp(a) <= n
    PROVE  a <= n * PageSize
<1>. USE LayoutAssumption
<1>. DEFINE q == (a + PageSize - 1) \div PageSize
<1>1. a + PageSize - 1 \in Nat /\ q \in Nat /\ a + PageSize - 1 < q * PageSize + PageSize
    BY Division
<1>2. q * PageSize <= n * PageSize
    BY <1>1, Monotone DEF PageUp
<1>3. q * PageSize \in Int /\ n * PageSize \in Int
    BY <1>1
<1>. QED
    BY <1>1, <1>2, <1>3

\* A page below PageDown(a) ends at a or before it.
LEMMA PageDownEndsBefore ==
    ASSUME NEW a \in Nat, NEW n \in Nat, n < PageDown(a)
    PROVE  (n + 1) * PageSize <= a
<1>. USE LayoutAssumption
<1>. DEFINE q == a \div PageSize
<1>1. q \in Nat /\ q * PageSize <= a /\ n + 1 <= q
    BY Division DEF PageDown
<1>2. (n + 1) * PageSize <= q * PageSize
    BY <1>1, Monotone
<1>3. q * PageSize \in Int /\ (n + 1) * PageSize \in Int
    BY <1>1
<1>. QED
    BY <1>1, <1>2, <1>3

\* Rounding up to a page gives a page number and an address (pmm.c:108, 112-127).
LEMMA PageUpNat == \A a \in Nat : PageUp(a) \in Nat /\ RoundUp(a) \in Nat
<1>. SUFFICES ASSUME NEW a \in Nat PROVE PageUp(a) \in Nat /\ RoundUp(a) \in Nat
    OBVIOUS
<1>1. a + PageSize - 1 \in Nat
    BY LayoutAssumption
<1>2. (a + PageSize - 1) \div PageSize \in Nat
    BY <1>1, LayoutAssumption, Division
<1>. QED
    BY <1>2, LayoutAssumption DEF PageUp, RoundUp

\* The five reserved ranges start and stop at page numbers (pmm.c:45-55, 163-181).
LEMMA ReservedNat ==
    ASSUME max_pages \in Nat, NEW k \in 1 .. 5
    PROVE  ReservedStart(k) \in Nat /\ ReservedStop(k) \in Int
<1>. USE LayoutAssumption
<1>1. BitmapAddr \in Nat
    BY PageUpNat DEF BitmapAddr
<1>2. (max_pages + 7) \div 8 \in Nat
    BY Division
<1>3. BitmapEnd \in Nat
    BY <1>1, <1>2, PageUpNat DEF BitmapEnd
<1>4. ReservedAddr(k) \in Nat
    BY <1>1, <1>3 DEF ReservedAddr
<1>5. ReservedLength(k) \in Int
    BY <1>1, <1>3, PageUpNat DEF ReservedLength
<1>6. \A a \in Int : a \div PageSize \in Int
    OBVIOUS
<1>. QED
    BY <1>4, <1>5, <1>6, Division DEF ReservedStart, ReservedStop, PageDown, PageUp

\* A map entry starts at a page number, and stops at or below max_pages
\* (pmm.c:142-149).
LEMMA EntryType ==
    ASSUME MapInv, max_pages \in Nat, NEW j \in 1 .. Len(e820)
    PROVE  /\ e820[j].base \in Nat /\ e820[j].length \in Nat
           /\ e820[j].base + e820[j].length \in Nat
           /\ EntryStart(e820[j]) \in Nat /\ EntryStop(e820[j]) \in Nat
           /\ EntryStop(e820[j]) <= max_pages
           /\ EntryStop(e820[j]) <= PageDown(e820[j].base + e820[j].length)
           /\ EntryPages(e820[j]) \subseteq 0 .. max_pages - 1
<1>1. e820[j] \in Entry
    BY DEF MapInv
<1>2. e820[j].base \in Nat /\ e820[j].length \in Nat
    BY <1>1 DEF Entry
<1>3. EntryStart(e820[j]) \in Nat
    BY <1>2, PageUpNat DEF EntryStart
<1>4. e820[j].base + e820[j].length \in Nat
    BY <1>2
<1>5. PageDown(e820[j].base + e820[j].length) \in Nat
    BY <1>4, LayoutAssumption, Division DEF PageDown
<1>6. /\ EntryStop(e820[j]) \in Nat /\ EntryStop(e820[j]) <= max_pages
      /\ EntryStop(e820[j]) <= PageDown(e820[j].base + e820[j].length)
    BY <1>5 DEF EntryStop
<1>. QED
    BY <1>2, <1>3, <1>4, <1>6 DEF EntryPages

-----------------------------------------------------------------------------
\* Before pmm_init nothing is counted, cleared or reserved.
LEMMA InitInv == Init => IInv
<1>. SUFFICES ASSUME Init PROVE IInv
    OBVIOUS
<1>1. FreePages = {} /\ held = {} /\ free_pages = 0 /\ max_pages = 0 /\ used = {}
    BY DEF Init, FreePages
<1>2. MapInv
    BY MapsAssumption DEF Init, MapInv
<1>3. TypeOK
    BY DEF Init, TypeOK
<1>4. CountInv
    BY <1>1, FS_EmptySet DEF CountInv
<1>5. LoopInv /\ RamInv /\ ReserveInv /\ HeldIsUsed
    BY <1>1 DEF Init, LoopInv, RamInv, ReserveInv, HeldIsUsed
<1>. QED
    BY <1>2, <1>3, <1>4, <1>5 DEF IInv

\* The definitions that do not change while the map and the sizes do not.
LEMMA SameMap ==
    ASSUME e820' = e820, max_pages' = max_pages
    PROVE  /\ \A j : EntryPages(e820[j])' = EntryPages(e820[j])
           /\ \A k : ReservedStart(k)' = ReservedStart(k)
           /\ \A k : ReservedStop(k)' = ReservedStop(k)
           /\ DisjointMap' = DisjointMap /\ RamPages' = RamPages
    BY DEF EntryPages, EntryStart, EntryStop, ReservedStart, ReservedStop,
           ReservedAddr, ReservedLength, BitmapAddr, BitmapEnd, DisjointMap, RamPages

\* A bit that goes from 1 to 0, or from 0 to 1, moves the count by one.
LEMMA FreeSize ==
    ASSUME max_pages \in Nat
    PROVE  IsFiniteSet(FreePages) /\ Cardinality(FreePages) \in Nat
<1>1. IsFiniteSet(0 .. max_pages - 1)
    BY FS_Interval
<1>. QED
    BY <1>1, FS_Subset, FS_CardinalityType DEF FreePages

\* The loop for the highest address touches neither bitmap nor counters
\* (pmm.c:96-105).
LEMMA ScanPreserves == IInv /\ Scan => IInv'
<1>. SUFFICES ASSUME IInv, Scan PROVE IInv'
    OBVIOUS
<1>1. /\ UNCHANGED <<e820, max_pages, pc, p, r, total_pages, free_pages, used, held>>
      /\ pc = "scan" /\ i' = i + 1 /\ FreePages' = FreePages /\ max_pages \in Nat
      /\ i \in 1 .. Len(e820)
    BY DEF Scan, FreePages, IInv, TypeOK
<1>2. e820[i].base + e820[i].length \in Nat
    BY <1>1, EntryType DEF IInv
<1>3. TypeOK'
    BY <1>1, <1>2 DEF Scan, IInv, TypeOK
<1>4. RamInv' /\ CountInv'
    BY <1>1, SameMap DEF IInv, RamInv, CountInv
<1>5. MapInv' /\ LoopInv' /\ ReserveInv' /\ HeldIsUsed'
    BY <1>1 DEF IInv, MapInv, LoopInv, ReserveInv, HeldIsUsed
<1>. QED
    BY <1>3, <1>4, <1>5 DEF IInv

\* With every bit set, 0 free pages is the right count (pmm.c:108-135).
LEMMA FillPreserves == IInv /\ Fill => IInv'
<1>. SUFFICES ASSUME IInv, Fill PROVE IInv'
    OBVIOUS
<1>1. /\ UNCHANGED <<e820, highest, p, r, held>> /\ pc = "scan" /\ pc' = "entries"
      /\ i' = 1 /\ used' = 0 .. max_pages' - 1 /\ free_pages' = 0 /\ total_pages' = 0
      /\ held = {}
    BY DEF Fill, IInv, LoopInv
<1>2. max_pages' \in Nat
    BY PageUpNat DEF Fill, IInv, TypeOK
<1>3. FreePages' = {} /\ Cleared' = {}
    BY <1>1 DEF FreePages, Cleared
<1>4. TypeOK'
    BY <1>1, <1>2 DEF IInv, TypeOK
<1>5. CountInv'
    BY <1>1, <1>3, FS_EmptySet DEF CountInv
<1>6. MapInv' /\ LoopInv' /\ RamInv' /\ ReserveInv' /\ HeldIsUsed'
    BY <1>1, <1>3 DEF IInv, MapInv, LoopInv, RamInv, ReserveInv, HeldIsUsed
<1>. QED
    BY <1>4, <1>5, <1>6 DEF IInv

\* Between the entries: the bitmap does not change, Cleared is seen differently.
LEMMA EntriesPreserve ==
    IInv /\ (SkipEntry \/ TakeEntry \/ EntryDone \/ EntriesDone) => IInv'
<1>. SUFFICES ASSUME IInv, SkipEntry \/ TakeEntry \/ EntryDone \/ EntriesDone
              PROVE  IInv'
    OBVIOUS
<1>1. /\ UNCHANGED <<e820, highest, max_pages, total_pages, free_pages, used, held>>
      /\ FreePages' = FreePages /\ FreePages = Cleared /\ held = {}
      /\ max_pages \in Nat /\ i \in Nat \ {0} /\ p \in Nat
      /\ pc \in {"entries", "clear"} /\ pc' \in {"entries", "clear", "reserve"}
    BY DEF SkipEntry, TakeEntry, EntryDone, EntriesDone, FreePages, IInv, TypeOK, LoopInv
<1>2. \A j : EntryPages(e820[j])' = EntryPages(e820[j])
    BY <1>1, SameMap
<1>3. MapInv' /\ CountInv' /\ RamInv' /\ HeldIsUsed'
    BY <1>1, SameMap DEF IInv, MapInv, CountInv, RamInv, HeldIsUsed
<1>4. CASE SkipEntry
  <2>1. pc = "entries" /\ pc' = "entries" /\ i' = i + 1 /\ i \in 1 .. Len(e820)
        /\ p' = p /\ r' = r
      BY <1>1, <1>4 DEF SkipEntry
  <2>2. EntryPages(e820[i]) = {}
    <3>1. ~ e820[i].free \/ EntryStart(e820[i]) >= max_pages
        BY <1>4 DEF SkipEntry
    <3>2. /\ EntryStart(e820[i]) \in Nat /\ EntryStop(e820[i]) \in Nat
          /\ EntryStop(e820[i]) <= max_pages /\ max_pages \in Nat
        BY <1>1, <2>1, EntryType DEF IInv
    <3>3. EntryStart(e820[i]) >= max_pages => EntryStart(e820[i]) .. EntryStop(e820[i]) - 1 = {}
        BY <3>2
    <3>. QED
        BY <3>1, <3>3 DEF EntryPages
  <2>3. Cleared' = Cleared
    <3>1. \A j \in 1 .. Len(e820) : j < i + 1 <=> j < i \/ j = i
        BY <1>1
    <3>2. /\ max_pages' = max_pages /\ Len(e820') = Len(e820)
          /\ \A j : EntryPages(e820[j])' = EntryPages(e820[j])
        BY <1>1, <1>2
    <3>. QED
        BY <2>1, <2>2, <3>1, <3>2 DEF Cleared
  <2>. QED
      BY <1>1, <1>3, <2>1, <2>3 DEF IInv, TypeOK, LoopInv, ReserveInv
<1>5. CASE TakeEntry
  <2>1. /\ pc = "entries" /\ pc' = "clear" /\ i' = i /\ i \in 1 .. Len(e820) /\ r' = r
        /\ p' = EntryStart(e820[i]) /\ e820[i].free /\ p' \in Nat
      BY <1>1, <1>5, EntryType DEF TakeEntry, IInv
  <2>2. Cleared' = Cleared
    <3>1. \A n \in EntryPages(e820[i]) : n \in 0 .. max_pages - 1 /\ ~ (n < p')
        BY <1>1, <2>1, EntryType DEF EntryPages, IInv
    <3>. QED
        BY <1>1, <1>2, <2>1, <3>1 DEF Cleared
  <2>3. (EntryStart(e820[i]) <= p)'
      BY <1>1, <2>1 DEF EntryStart
  <2>. QED
      BY <1>1, <1>3, <2>1, <2>2, <2>3 DEF IInv, TypeOK, LoopInv, ReserveInv
<1>6. CASE EntryDone
  <2>1. /\ pc = "clear" /\ pc' = "entries" /\ i' = i + 1 /\ i \in 1 .. Len(e820) /\ r' = r
        /\ p' = p /\ p >= EntryStop(e820[i])
      BY <1>1, <1>6 DEF EntryDone, IInv, LoopInv
  <2>2. \A n \in EntryPages(e820[i]) : n < p
      BY <1>1, <2>1, EntryType DEF EntryPages, IInv
  <2>3. Cleared' = Cleared
      BY <1>1, <1>2, <2>1, <2>2 DEF Cleared
  <2>. QED
      BY <1>1, <1>3, <2>1, <2>3 DEF IInv, TypeOK, LoopInv, ReserveInv
<1>7. CASE EntriesDone
  <2>1. pc' = "reserve" /\ r' = 1 /\ p' = ReservedStart(1) /\ i' = i
      BY <1>7 DEF EntriesDone
  <2>2. ReservedStart(1) \in Nat /\ (ReservedStart(1))' = ReservedStart(1)
      BY <1>1, SameMap, ReservedNat
  <2>3. ReserveInv'
      BY <2>1, <2>2 DEF ReserveInv
  <2>. QED
      BY <1>1, <1>3, <2>1, <2>2, <2>3 DEF IInv, TypeOK, LoopInv
<1>. QED
    BY <1>4, <1>5, <1>6, <1>7

\* Clearing a bit and counting it go together, if no page is cleared twice
\* (pmm.c:151-155).
LEMMA ClearPagePreserves == IInv /\ ClearPage => IInv'
<1>. SUFFICES ASSUME IInv, ClearPage PROVE IInv'
    OBVIOUS
<1>1. /\ UNCHANGED <<e820, highest, max_pages, pc, i, r, held>> /\ pc = "clear"
      /\ used' = used \ {p} /\ p' = p + 1 /\ free_pages' = free_pages + 1
      /\ total_pages' = total_pages + 1 /\ held = {}
      /\ max_pages \in Nat /\ p \in Nat /\ i \in 1 .. Len(e820) /\ e820[i].free
      /\ EntryStart(e820[i]) <= p /\ p < EntryStop(e820[i]) /\ FreePages = Cleared
    BY DEF ClearPage, IInv, TypeOK, LoopInv
<1>2. p \in EntryPages(e820[i]) /\ p \in 0 .. max_pages - 1
    BY <1>1, EntryType DEF IInv, EntryPages
<1>3. FreePages' = FreePages \cup {p}
    BY <1>1, <1>2 DEF FreePages
<1>4. Cleared' = Cleared \cup {p}
  <2>1. \A j : EntryPages(e820[j])' = EntryPages(e820[j])
      BY <1>1, SameMap
  <2>2. \A n \in 0 .. max_pages - 1 : n < p + 1 <=> n < p \/ n = p
      BY <1>1
  <2>. QED
      BY <1>1, <1>2, <2>1, <2>2 DEF Cleared
<1>5. DisjointMap => p \notin FreePages
  <2>. SUFFICES ASSUME DisjointMap, p \in Cleared PROVE FALSE
      BY <1>1
  <2>1. ~ (p < p)
      BY <1>1
  <2>2. PICK j \in 1 .. Len(e820) : j < i /\ p \in EntryPages(e820[j])
      BY <2>1 DEF Cleared
  <2>3. j # i
      BY <1>1, <2>2
  <2>. QED
      BY <1>1, <1>2, <2>2, <2>3 DEF DisjointMap
<1>6. CountInv'
  <2>. SUFFICES ASSUME DisjointMap PROVE free_pages' = Cardinality(FreePages')
      BY <1>1, SameMap DEF CountInv
  <2>1. IsFiniteSet(FreePages) /\ p \notin FreePages
      BY <1>1, <1>5, FreeSize
  <2>2. Cardinality(FreePages') = Cardinality(FreePages) + 1
      BY <1>3, <2>1, FS_AddElement
  <2>3. free_pages = Cardinality(FreePages)
      BY DEF IInv, CountInv
  <2>. QED
      BY <1>1, <2>2, <2>3
<1>7. TypeOK'
    BY <1>1 DEF IInv, TypeOK
<1>8. LoopInv'
  <2>1. (EntryStart(e820[i]) <= p)'
      BY <1>1, EntryType DEF EntryStart, IInv
  <2>. QED
      BY <1>1, <1>3, <1>4, <2>1 DEF LoopInv
<1>9. RamInv'
    BY <1>1, <1>2, <1>3, SameMap DEF IInv, RamInv, RamPages
<1>10. MapInv' /\ ReserveInv' /\ HeldIsUsed'
    BY <1>1 DEF IInv, MapInv, ReserveInv, HeldIsUsed
<1>. QED
    BY <1>6, <1>7, <1>8, <1>9, <1>10 DEF IInv

\* pmm_reserve_range counts a page only when it was free (pmm.c:49-54).
LEMMA ReservePagePreserves == IInv /\ ReservePage => IInv'
<1>. SUFFICES ASSUME IInv, ReservePage PROVE IInv'
    OBVIOUS
<1>1. /\ UNCHANGED <<e820, highest, max_pages, pc, i, r, total_pages, held>> /\ pc = "reserve"
      /\ used' = used \cup {p} /\ p' = p + 1 /\ held = {}
      /\ free_pages' = IF p \in used THEN free_pages ELSE free_pages - 1
      /\ max_pages \in Nat /\ p \in Nat /\ p < max_pages /\ r \in 1 .. 5
    BY DEF ReservePage, IInv, TypeOK, LoopInv
<1>2. FreePages' = FreePages \ {p} /\ p \in 0 .. max_pages - 1
    BY <1>1 DEF FreePages
<1>3. CountInv'
  <2>1. CASE p \in used
    <3>1. FreePages' = FreePages
        BY <1>2, <2>1 DEF FreePages
    <3>. QED
        BY <1>1, <2>1, <3>1, SameMap DEF IInv, CountInv
  <2>2. CASE p \notin used
    <3>1. p \in FreePages
        BY <1>2, <2>2 DEF FreePages
    <3>. QED
        BY <1>1, <1>2, <2>2, <3>1, SameMap, FreeSize, FS_RemoveElement DEF IInv, CountInv
  <2>. QED
      BY <2>1, <2>2
<1>4. TypeOK'
    BY <1>1, <1>2 DEF IInv, TypeOK
<1>5. RamInv'
    BY <1>1, <1>2, SameMap DEF IInv, RamInv
<1>6. ReserveInv'
  <2>1. ReservedStart(r) \in Nat
      BY <1>1, ReservedNat
  <2>2. /\ \A k : ReservedStart(k)' = ReservedStart(k)
        /\ \A k : ReservedStop(k)' = ReservedStop(k)
      BY <1>1, SameMap
  <2>3. ReservedStart(r) <= p + 1
        /\ \A n \in ReservedStart(r) .. p : n \notin FreePages'
      BY <1>1, <1>2, <2>1 DEF IInv, ReserveInv
  <2>. QED
      BY <1>1, <1>2, <2>2, <2>3 DEF IInv, ReserveInv
<1>7. MapInv' /\ LoopInv' /\ HeldIsUsed'
    BY <1>1 DEF IInv, MapInv, LoopInv, HeldIsUsed
<1>. QED
    BY <1>3, <1>4, <1>5, <1>6, <1>7 DEF IInv

\* When a range is done, all of its pages below max_pages are marked
\* (pmm.c:163-181).
LEMMA RangeDonePreserves == IInv /\ RangeDone => IInv'
<1>. SUFFICES ASSUME IInv, RangeDone PROVE IInv'
    OBVIOUS
<1>1. /\ UNCHANGED <<e820, highest, max_pages, i, total_pages, free_pages, used, held>>
      /\ pc = "reserve" /\ held = {} /\ FreePages' = FreePages /\ max_pages \in Nat
      /\ p \in Nat /\ r \in 1 .. 5 /\ (p >= ReservedStop(r) \/ p >= max_pages)
    BY DEF RangeDone, FreePages, IInv, TypeOK, LoopInv
<1>2. \A n \in ReservedStart(r) .. ReservedStop(r) - 1 : n \notin FreePages
  <2>1. ReservedStart(r) \in Nat /\ ReservedStop(r) \in Int
      BY <1>1, ReservedNat
  <2>2. \A n \in FreePages : n < max_pages
      BY <1>1 DEF FreePages
  <2>3. \A n \in ReservedStart(r) .. p - 1 : n \notin FreePages
      BY <1>1 DEF IInv, ReserveInv
  <2>4. ASSUME NEW n \in ReservedStart(r) .. ReservedStop(r) - 1, n \in FreePages
        PROVE  FALSE
    <3>1. n \in Int /\ n < ReservedStop(r) /\ ReservedStart(r) <= n /\ n < max_pages
        BY <2>1, <2>2, <2>4
    <3>2. n \in 0 .. max_pages - 1
        BY <2>4 DEF FreePages
    <3>3. n < p
        BY <1>1, <2>1, <3>1
    <3>. QED
        BY <1>1, <2>1, <2>3, <2>4, <3>1, <3>3
  <2>. QED
      BY <2>4
<1>3. \A k : ReservedStart(k)' = ReservedStart(k) /\ ReservedStop(k)' = ReservedStop(k)
    BY <1>1, SameMap
<1>4. ReserveInv' /\ TypeOK' /\ LoopInv'
  <2>1. CASE r = 5
    <3>1. pc' = "ready" /\ r' = r /\ p' = p
        BY <2>1 DEF RangeDone
    <3>2. \A k \in 1 .. 5 : k < r \/ k = r
        BY <2>1
    <3>. QED
        BY <1>1, <1>2, <1>3, <3>1, <3>2 DEF IInv, ReserveInv, TypeOK, LoopInv
  <2>2. CASE r # 5
    <3>1. pc' = "reserve" /\ r' = r + 1 /\ p' = ReservedStart(r + 1) /\ r + 1 \in 1 .. 5
        BY <1>1, <2>2 DEF RangeDone
    <3>2. \A k \in 1 .. 5 : k < r + 1 => k < r \/ k = r
        BY <1>1
    <3>3. ReservedStart(r + 1) \in Nat
        BY <1>1, <3>1, ReservedNat
    <3>4. ReserveInv'
        BY <1>1, <1>2, <1>3, <3>1, <3>2, <3>3 DEF IInv, ReserveInv
    <3>. QED
        BY <1>1, <3>1, <3>3, <3>4 DEF IInv, TypeOK, LoopInv
  <2>. QED
      BY <2>1, <2>2
<1>5. MapInv' /\ CountInv' /\ RamInv' /\ HeldIsUsed'
    BY <1>1, SameMap DEF IInv, MapInv, CountInv, RamInv, HeldIsUsed
<1>. QED
    BY <1>4, <1>5 DEF IInv

-----------------------------------------------------------------------------
\* pmm_alloc marks and counts the page it hands out (pmm.c:60-69).
LEMMA AllocPreserves == IInv /\ Alloc => IInv'
<1>. SUFFICES ASSUME IInv, Alloc PROVE IInv'
    OBVIOUS
<1>1. PICK n \in FreePages : used' = used \cup {n} /\ held' = held \cup {n}
    BY DEF Alloc
<1>2. /\ UNCHANGED <<e820, highest, max_pages, pc, i, p, r, total_pages>> /\ pc = "ready"
      /\ free_pages' = free_pages - 1 /\ max_pages \in Nat
      /\ n \in 0 .. max_pages - 1 /\ FreePages' = FreePages \ {n}
    BY <1>1 DEF Alloc, initVars, IInv, TypeOK, FreePages
<1>3. CountInv'
    BY <1>2, SameMap, FreeSize, FS_RemoveElement DEF IInv, CountInv
<1>4. TypeOK'
    BY <1>1, <1>2 DEF IInv, TypeOK
<1>5. RamInv' /\ HeldIsUsed'
    BY <1>1, <1>2, SameMap DEF IInv, RamInv, HeldIsUsed
<1>6. ReserveInv'
    BY <1>1, <1>2, SameMap DEF IInv, ReserveInv
<1>7. MapInv' /\ LoopInv'
    BY <1>2 DEF IInv, MapInv, LoopInv
<1>. QED
    BY <1>3, <1>4, <1>5, <1>6, <1>7 DEF IInv

\* pmm_free refuses page 0, a page beyond the bitmap and a page that is free
\* (pmm.c:71-77).
LEMMA FreePreserves == IInv /\ Free => IInv'
<1>. SUFFICES ASSUME IInv, Free PROVE IInv'
    OBVIOUS
<1>1. PICK n \in held : used' = used \ {n} /\ held' = held \ {n} /\ n \in used
    BY DEF Free, FreePages, IInv, TypeOK
<1>2. /\ UNCHANGED <<e820, highest, max_pages, pc, i, p, r, total_pages>> /\ pc = "ready"
      /\ free_pages' = free_pages + 1 /\ max_pages \in Nat
      /\ n \in 0 .. max_pages - 1 /\ FreePages' = FreePages \cup {n} /\ n \notin FreePages
    BY <1>1 DEF Free, initVars, IInv, TypeOK, FreePages
<1>3. CountInv'
    BY <1>2, SameMap, FreeSize, FS_AddElement DEF IInv, CountInv
<1>4. TypeOK'
    BY <1>1, <1>2 DEF IInv, TypeOK
<1>5. RamInv' /\ HeldIsUsed'
    BY <1>1, <1>2, SameMap DEF IInv, RamInv, HeldIsUsed
<1>6. ReserveInv'
    BY <1>1, <1>2, SameMap DEF IInv, ReserveInv
<1>7. MapInv' /\ LoopInv'
    BY <1>2 DEF IInv, MapInv, LoopInv
<1>. QED
    BY <1>3, <1>4, <1>5, <1>6, <1>7 DEF IInv

-----------------------------------------------------------------------------
\* The inductive invariant holds in every reachable state of the PMM.
THEOREM IInvInvariant == Spec => []IInv
<1>1. IInv /\ UNCHANGED vars => IInv'
  <2>. SUFFICES ASSUME IInv, UNCHANGED vars PROVE IInv'
      OBVIOUS
  <2>1. /\ UNCHANGED <<e820, highest, max_pages, pc, i, p, r, total_pages, free_pages,
                       used, held>>
        /\ FreePages' = FreePages
      BY DEF vars, initVars, FreePages
  <2>2. MapInv' /\ CountInv' /\ RamInv' /\ HeldIsUsed' /\ TypeOK'
      BY <2>1, SameMap DEF IInv, MapInv, CountInv, RamInv, HeldIsUsed, TypeOK
  <2>3. LoopInv' /\ ReserveInv'
    <3>1. Cleared' = Cleared /\ (EntryStart(e820[i]) <= p)' = (EntryStart(e820[i]) <= p)
        BY <2>1, SameMap DEF Cleared, EntryStart
    <3>. QED
        BY <2>1, <3>1, SameMap DEF IInv, LoopInv, ReserveInv
  <2>. QED
      BY <2>2, <2>3 DEF IInv
<1>2. IInv /\ [Next]_vars => IInv'
    BY <1>1, ScanPreserves, FillPreserves, EntriesPreserve, ClearPagePreserves,
       ReservePagePreserves, RangeDonePreserves, AllocPreserves, FreePreserves
       DEF Next, PmmInit
<1>. QED
    BY <1>2, InitInv, PTL DEF Spec

\* The loop variables of pmm_init and the counters keep their types.
THEOREM TypeCorrect == Spec => []TypeOK
    BY IInvInvariant, PTL DEF IInv

\* If no page is in two free entries of the map, free_pages is the number of
\* 0 bits, after every iteration of pmm_init and every alloc and free
\* (pmm.c:45-77, 139-156).
THEOREM FreeCountCorrect == Spec => []FreeCountIsBitmap
    BY IInvInvariant, PTL DEF IInv, CountInv, FreeCountIsBitmap

\* A page that somebody holds is not free (pmm.c:60-77).
THEOREM NoPageTwice == Spec => []HeldIsUsed
    BY IInvInvariant, PTL DEF IInv

\* What pmm_init reserved stays reserved for good (pmm.c:163-181).
THEOREM ReservedForGood == Spec => []ReservedStays
    BY IInvInvariant, PTL DEF IInv, ReserveInv, ReservedStays

\* Free and handed-out pages lie wholly inside usable entries, for every page
\* size and every map, aligned or not (pmm.c:139-156).
THEOREM OnlyRam == Spec => []OnlyRamIsFree
<1>1. IInv => OnlyRamIsFree
  <2>. SUFFICES ASSUME IInv, NEW n \in FreePages \cup held
                PROVE  \E k \in 1 .. Len(e820) :
                           /\ e820[k].free
                           /\ e820[k].base <= n * PageSize
                           /\ (n + 1) * PageSize <= e820[k].base + e820[k].length
      BY DEF OnlyRamIsFree
  <2>1. PICK k \in 1 .. Len(e820) : n \in EntryPages(e820[k])
      BY DEF IInv, RamInv, RamPages
  <2>2. max_pages \in Nat
      BY DEF IInv, TypeOK
  <2>3. /\ e820[k].free /\ n \in Nat /\ e820[k].base \in Nat
        /\ e820[k].base + e820[k].length \in Nat
        /\ PageUp(e820[k].base) <= n /\ n < PageDown(e820[k].base + e820[k].length)
    <3>1. /\ e820[k].free /\ n \in EntryStart(e820[k]) .. EntryStop(e820[k]) - 1
          /\ e820[k].base \in Nat
        BY <2>1, <2>2, EntryType DEF EntryPages, IInv
    <3>2. /\ EntryStart(e820[k]) \in Nat /\ EntryStop(e820[k]) \in Nat
          /\ EntryStop(e820[k]) <= PageDown(e820[k].base + e820[k].length)
          /\ e820[k].base + e820[k].length \in Nat
        BY <2>2, EntryType DEF IInv
    <3>3. PageDown(e820[k].base + e820[k].length) \in Nat
        BY <3>2, LayoutAssumption, Division DEF PageDown
    <3>. QED
        BY <3>1, <3>2, <3>3 DEF EntryStart
  <2>. QED
      BY <2>3, PageUpStartsBehind, PageDownEndsBefore
<1>. QED
    BY <1>1, IInvInvariant, PTL

-----------------------------------------------------------------------------
(* pmm_alloc and pmm_free cut by the timer.                                *)

\* The registers of the two tasks.
PerTask(f) == f = [t \in Task |-> f[t]]

\* A page whose byte the reaper has nothing to do with.
Far(n) == ByteOf(n) # ByteOf(Victim)

Freeing == {"check", "clearLoad", "clearStore"}
Marked == {"decLoad", "decStore"}

\* Far pages that are held are marked: so they are in the register whose byte the
\* shell will store, and the page it is about to hand out is marked already.
RaceInv ==
    /\ PerTask(pc) /\ PerTask(page) /\ PerTask(byte)
    /\ page["reaper"] = Victim
    /\ pc["reaper"] \notin {"setStore"} \cup Marked
    /\ \A n \in held : Far(n) => n \in used
    /\ pc["shell"] \in Freeing => page["shell"] \notin held
    /\ pc["shell"] \in {"setStore", "clearStore"} =>
           \A n \in held : Far(n) /\ n \in BytePages(page["shell"]) => n \in byte["shell"]
    /\ pc["shell"] \in Marked /\ Far(page["shell"]) => page["shell"] \in used

\* At first nothing is held and nothing under way (pmm.c:12-18).
LEMMA RaceInvInit == PreemptedInit => RaceInv
<1>. SUFFICES ASSUME PreemptedInit PROVE RaceInv
    OBVIOUS
<1>. USE DEF PreemptedInit, Task
<1>1. page = [t \in Task |-> IF t = "shell" THEN 0 ELSE Victim]
    OBVIOUS
<1>. QED
    BY <1>1 DEF RaceInv, PerTask, Freeing, Marked

\* The reaper stores one byte and the shell what it loaded, and what it loaded
\* has every far page it holds (pmm.c:20-34, 60-79).
LEMMA RaceInvStep == RaceInv /\ [PreemptedNext]_preemptedVars => RaceInv'
<1>. SUFFICES ASSUME RaceInv, [PreemptedNext]_preemptedVars PROVE RaceInv'
    OBVIOUS
<1>. USE DEF PerTask, RaceInv, Freeing, Marked, Far, Task, At, Goto
<1>1. CASE Preempt \/ UNCHANGED preemptedVars
    BY <1>1 DEF Preempt, preemptedVars
<1>2. CASE AllocBegins \/ AllocLooks
    BY <1>2 DEF AllocBegins, AllocLooks
<1>3. CASE AllocSets
    BY <1>3 DEF AllocSets, LoadByte, StoreByte
<1>4. CASE AllocCounts
    BY <1>4 DEF AllocCounts, LoadCount
<1>5. ASSUME NEW t \in Task, FreeBegins(t) PROVE RaceInv'
    <2>1. CASE t = "shell"
        <3>1. PICK n : /\ page' = [page EXCEPT !["shell"] = n] /\ held' = held \ {n}
                       /\ pc' = [pc EXCEPT !["shell"] = "check"]
            BY <1>5, <2>1 DEF FreeBegins
        <3>2. UNCHANGED <<used, byte>>
            BY <1>5 DEF FreeBegins
        <3>. QED
            BY <3>1, <3>2
    <2>2. CASE t = "reaper"
        <3>1. UNCHANGED <<page, held, used, byte>> /\ pc' = [pc EXCEPT !["reaper"] = "check"]
            BY <1>5, <2>2 DEF FreeBegins
        <3>. QED
            BY <3>1
    <2>. QED
        BY <2>1, <2>2
<1>6. ASSUME NEW t \in Task, FreeChecks(t) PROVE RaceInv'
    BY <1>6 DEF FreeChecks, Finished
<1>7. ASSUME NEW t \in Task, FreeClears(t) PROVE RaceInv'
    <2>1. CASE LoadByte(t, "clearLoad", "clearStore")
        <3>1. CASE t = "shell"
            BY <2>1, <3>1 DEF LoadByte
        <3>2. CASE t = "reaper"
            BY <2>1, <3>2 DEF LoadByte
        <3>. QED
            BY <3>1, <3>2
    <2>2. CASE StoreByte("shell", "clearStore", "incLoad", byte["shell"] \ {page["shell"]})
        BY <2>2 DEF StoreByte
    <2>3. CASE StoreByte("reaper", "clearStore", "incLoad", byte["reaper"] \ {page["reaper"]})
        <3>1. \A n \in BytePages(Victim) : ~ Far(n)
            BY DEF BytePages
        <3>. QED
            BY <2>3, <3>1 DEF StoreByte
    <2>. QED
        BY <1>7, <2>1, <2>2, <2>3 DEF FreeClears
<1>8. ASSUME NEW t \in Task, FreeCounts(t) PROVE RaceInv'
    BY <1>8 DEF FreeCounts, LoadCount, Finished
<1>. QED
    BY <1>1, <1>2, <1>3, <1>4, <1>5, <1>6, <1>7, <1>8 DEF PreemptedNext

\* A page the shell holds is marked, unless it shares a byte with the page that
\* the reaper frees: for any number of pages and of calls, wherever the timer comes
\* (pmm.c:20-34).
THEOREM DamageStays == PreemptedSpec => []DamageInOneByte
<1>1. RaceInv => DamageInOneByte
    BY DEF RaceInv, Far, DamageInOneByte
<1>. QED
    BY <1>1, RaceInvInit, RaceInvStep, PTL DEF PreemptedSpec

=============================================================================
