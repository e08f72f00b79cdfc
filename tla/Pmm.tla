--------------------------------- MODULE Pmm ---------------------------------
(***************************************************************************)
(* The physical memory manager, src/mm/pmm.c: a bitmap with one bit per    *)
(* page and two counters, set up by pmm_init from the memory map of the    *)
(* boot loader, and then changed by pmm_alloc and pmm_free.                *)
(*                                                                         *)
(* pmm_init is modelled loop by loop, one action per iteration. It runs    *)
(* before interrupts are on. Here pmm_alloc and pmm_free are atomic, as    *)
(* they are for a caller that is not preempted; module PmmPreempted takes  *)
(* them apart.                                                             *)
(***************************************************************************)
EXTENDS Integers, Sequences, FiniteSets, PmmState

CONSTANTS
    PageSize,    \* PAGE_SIZE, 4096
    Maps,        \* the E820 maps the boot loader may hand over
    KernelBase,  \* 0x100000
    KernelSize,  \* info->kernel_size
    KernelEnd,   \* __kernel_end, from the linker
    HeapSize     \* HEAP_SIZE, 1 MB

Entry == [base : Nat, length : Nat, free : BOOLEAN]

ASSUME LayoutAssumption ==
    /\ PageSize \in Nat \ {0}
    /\ KernelBase \in Nat /\ KernelSize \in Nat /\ KernelEnd \in Nat
    /\ HeapSize \in Nat

ASSUME MapsAssumption ==
    \A m \in Maps : m \in Seq(Entry)

VARIABLES
    e820, highest,                     \* the map and its highest address
    max_pages, total_pages,
    i, p, r        \* pmm_init's progress in its loop pc: map entry, page, reservation

initVars == <<e820, highest, max_pages, pc, i, p, r>>
vars == <<initVars, total_pages, free_pages, used, held>>

RoundUp(a) == ((a + PageSize - 1) \div PageSize) * PageSize
PageUp(a) == (a + PageSize - 1) \div PageSize
PageDown(a) == a \div PageSize

\* Where pmm_init puts the bitmap, and pmm_bitmap_end, where the heap starts.
BitmapAddr == RoundUp(KernelEnd)
BitmapEnd == RoundUp(BitmapAddr + (max_pages + 7) \div 8)

\* The arguments of the five calls of pmm_reserve_range, in order.
ReservedAddr(k) ==
    CASE k = 1 -> 0
      [] k = 2 -> PageSize
      [] k = 3 -> KernelBase
      [] k = 4 -> BitmapAddr
      [] k = 5 -> BitmapEnd

ReservedLength(k) ==
    CASE k = 1 -> PageSize
      [] k = 2 -> 3 * PageSize
      [] k = 3 -> RoundUp(KernelSize)
      [] k = 4 -> BitmapEnd - BitmapAddr
      [] k = 5 -> HeapSize

ReservedStart(k) == PageDown(ReservedAddr(k))
ReservedStop(k) == PageUp(ReservedAddr(k) + ReservedLength(k))

\* As EntryStart, had pmm_init rounded the start of an entry down.
EntryStartDown(e) == PageDown(e.base)

\* The whole pages of a map entry, cut off at max_pages.
EntryStart(e) == PageUp(e.base)
EntryStop(e) ==
    LET end == PageDown(e.base + e.length)
    IN  IF end > max_pages THEN max_pages ELSE end

FreePages == (0 .. max_pages - 1) \ used

-----------------------------------------------------------------------------

Init ==
    /\ e820 \in Maps
    /\ highest = 0 /\ max_pages = 0
    /\ total_pages = 0 /\ free_pages = 0
    /\ used = {} /\ held = {}
    /\ pc = "scan" /\ i = 1 /\ p = 0 /\ r = 1

\* The loop for the highest address, over entries of every type.
Scan ==
    /\ pc = "scan" /\ i <= Len(e820)
    /\ LET end == e820[i].base + e820[i].length
       IN  highest' = IF end >= highest THEN end ELSE highest
    /\ i' = i + 1
    /\ UNCHANGED <<e820, max_pages, pc, p, r, total_pages, free_pages, used, held>>

\* The size of the bitmap, and the bitmap filled with 0xFF.
Fill ==
    /\ pc = "scan" /\ i > Len(e820)
    /\ max_pages' = PageUp(highest)
    /\ used' = 0 .. max_pages' - 1
    /\ total_pages' = 0 /\ free_pages' = 0
    /\ pc' = "entries" /\ i' = 1
    /\ UNCHANGED <<e820, highest, p, r, held>>

SkipEntry ==
    /\ pc = "entries" /\ i <= Len(e820)
    /\ ~ e820[i].free \/ EntryStart(e820[i]) >= max_pages
    /\ i' = i + 1
    /\ UNCHANGED <<e820, highest, max_pages, pc, p, r,
                   total_pages, free_pages, used, held>>

TakeEntry ==
    /\ pc = "entries" /\ i <= Len(e820)
    /\ e820[i].free /\ EntryStart(e820[i]) < max_pages
    /\ pc' = "clear" /\ p' = EntryStart(e820[i])
    /\ UNCHANGED <<e820, highest, max_pages, i, r,
                   total_pages, free_pages, used, held>>

ClearPage ==
    /\ pc = "clear" /\ p < EntryStop(e820[i])
    /\ used' = used \ {p}
    /\ total_pages' = total_pages + 1
    /\ free_pages' = free_pages + 1
    /\ p' = p + 1
    /\ UNCHANGED <<e820, highest, max_pages, pc, i, r, held>>

EntryDone ==
    /\ pc = "clear" /\ p >= EntryStop(e820[i])
    /\ pc' = "entries" /\ i' = i + 1
    /\ UNCHANGED <<e820, highest, max_pages, p, r,
                   total_pages, free_pages, used, held>>

EntriesDone ==
    /\ pc = "entries" /\ i > Len(e820)
    /\ pc' = "reserve" /\ r' = 1 /\ p' = ReservedStart(1)
    /\ UNCHANGED <<e820, highest, max_pages, i,
                   total_pages, free_pages, used, held>>

\* One iteration of pmm_reserve_range's loop.
ReservePage ==
    /\ pc = "reserve" /\ p < ReservedStop(r) /\ p < max_pages
    /\ free_pages' = IF p \in used THEN free_pages ELSE free_pages - 1
    /\ used' = used \cup {p}
    /\ p' = p + 1
    /\ UNCHANGED <<e820, highest, max_pages, pc, i, r, total_pages, held>>

RangeDone ==
    /\ pc = "reserve" /\ (p >= ReservedStop(r) \/ p >= max_pages)
    /\ IF r = 5
       THEN pc' = "ready" /\ UNCHANGED <<r, p>>
       ELSE r' = r + 1 /\ p' = ReservedStart(r + 1) /\ UNCHANGED pc
    /\ UNCHANGED <<e820, highest, max_pages, i,
                   total_pages, free_pages, used, held>>

-----------------------------------------------------------------------------

\* As Alloc, had pmm_alloc forgotten to set the bit.
AllocUnmarked ==
    /\ pc = "ready"
    /\ \E n \in FreePages \ {0} :
          (\A m \in FreePages \ {0} : n <= m) /\ held' = held \cup {n}
    /\ free_pages' = free_pages - 1
    /\ UNCHANGED <<initVars, total_pages, used>>

\* pmm_alloc: the first page from 1 on whose bit is 0.
Alloc ==
    /\ pc = "ready"
    /\ \E n \in FreePages \ {0} :
          /\ \A m \in FreePages \ {0} : n <= m
          /\ used' = used \cup {n}
          /\ held' = held \cup {n}
    /\ free_pages' = free_pages - 1
    /\ UNCHANGED <<initVars, total_pages>>

\* As Free, had pmm_free not refused what `refused' says.
FreeBut(refused) ==
    /\ pc = "ready"
    /\ \E page \in (held \cup FreePages \cup {0, max_pages}) \ refused :
          /\ page < max_pages
          /\ used' = used \ {page}
          /\ held' = held \ {page}
    /\ free_pages' = free_pages + 1
    /\ UNCHANGED <<initVars, total_pages>>
FreeTwice == FreeBut({0})
FreePageZero == FreeBut(FreePages)

\* pmm_free by a holder, or of a page that is free already, of page 0, or of
\* the page number that the out-of-memory value 0xFFFFFFFFFFFFFFFF gives.
Free ==
    /\ pc = "ready"
    /\ \E page \in held \cup FreePages \cup {0, max_pages} :
          /\ page # 0 /\ page < max_pages
          /\ page \in used
          /\ used' = used \ {page}
          /\ held' = held \ {page}
    /\ free_pages' = free_pages + 1
    /\ UNCHANGED <<initVars, total_pages>>

PmmInit ==
    \/ Scan \/ Fill
    \/ SkipEntry \/ TakeEntry \/ ClearPage \/ EntryDone \/ EntriesDone
    \/ ReservePage \/ RangeDone

Next == PmmInit \/ Alloc \/ Free

Spec == Init /\ [][Next]_vars

-----------------------------------------------------------------------------
(***************************************************************************)
(* Properties                                                              *)
(***************************************************************************)

EntryPages(e) == IF e.free THEN EntryStart(e) .. EntryStop(e) - 1 ELSE {}

\* No page is in two entries of usable RAM: what a well-formed map says, and
\* what pmm_init's counting relies on (pmm.c:151-155).
DisjointMap ==
    \A j, k \in 1 .. Len(e820) :
        j # k => EntryPages(e820[j]) \cap EntryPages(e820[k]) = {}

\* The counters are numbers, the bitmap covers max_pages pages (pmm.c:12-15).
TypeOK ==
    /\ max_pages \in Nat /\ highest \in Nat
    /\ total_pages \in Nat /\ free_pages \in Int
    /\ used \subseteq 0 .. max_pages - 1 /\ held \subseteq 0 .. max_pages - 1
    /\ pc \in {"scan", "entries", "clear", "reserve", "ready"}
    /\ i \in Nat \ {0} /\ p \in Nat /\ r \in 1 .. 5

\* free_pages is the number of 0 bits, through every loop of pmm_init and
\* every alloc and free: it never runs below 0, and it is 0 exactly when
\* pmm_alloc finds nothing (pmm.c:51, 64, 76, 152-154).
FreeCountIsBitmap ==
    DisjointMap => free_pages = Cardinality(FreePages)

\* Every page that is free or handed out lies wholly inside usable RAM of the
\* map: rounding never frees a page that an entry covers in part (pmm.c:142-152).
OnlyRamIsFree ==
    \A n \in FreePages \cup held :
        \E k \in 1 .. Len(e820) :
            /\ e820[k].free
            /\ e820[k].base <= n * PageSize
            /\ (n + 1) * PageSize <= e820[k].base + e820[k].length

\* A page in somebody's hands is not free, so pmm_alloc cannot give it to a
\* second caller (pmm.c:60-69).
HeldIsUsed == held \cap FreePages = {}

\* Pages pmm_init has reserved are never free and never handed out: page 0, the
\* page tables, the kernel's image, the bitmap and the heap (pmm.c:163-181).
ReservedStays ==
    \A k \in 1 .. 5 :
        (pc = "ready" \/ (pc = "reserve" /\ k < r)) =>
            \A n \in ReservedStart(k) .. ReservedStop(k) - 1 :
                n \notin FreePages \cup held

\* What pmm.c:169 says: the kernel is reserved from 0x100000 to __kernel_end.
\* It does not hold when the image is smaller than the kernel with its .bss.
KernelReserved ==
    pc = "ready" =>
        \A n \in PageDown(KernelBase) .. PageUp(KernelEnd) - 1 :
            n \notin FreePages \cup held

=============================================================================
