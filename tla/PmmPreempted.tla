---------------------------- MODULE PmmPreempted ----------------------------
(***************************************************************************)
(* pmm_alloc and pmm_free of src/mm/pmm.c between two timer ticks: the     *)
(* shell runs the PMM stress test (src/kernel/stress_test.c) while the     *)
(* reaper frees the stack page of a killed process. Nothing masks          *)
(* interrupts, and neither `bitmap[b] |= m' nor `free_pages--' is one      *)
(* instruction in the unoptimised build: each loads, changes a register    *)
(* and stores, and the other process may run in between.                   *)
(***************************************************************************)
EXTENDS Integers, FiniteSets, PmmState

CONSTANTS
    Pages,     \* max_pages
    ByteBits,  \* the pages that share one byte of the bitmap (8)
    Reserved,  \* the pages pmm_init has reserved
    Victim     \* the stack page the reaper gives back

ASSUME PagesAssumption ==
    /\ Pages \in Nat /\ ByteBits \in Nat \ {0}
    /\ Reserved \subseteq 0 .. Pages - 1 /\ 0 \in Reserved
    /\ Victim \in (0 .. Pages - 1) \ Reserved

Task == {"shell", "reaper"}

VARIABLES
    cpu,         \* whose turn it is
    page,        \* per task: the page it works on
    byte, count  \* per task: the register with the byte, with the counter

preemptedVars == <<used, free_pages, held, cpu, pc, page, byte, count>>

ByteOf(n) == n \div ByteBits

\* As BytePages, were the bitmap loaded and stored as one machine word.
WordPages(n) == 0 .. Pages - 1

BytePages(n) == {m \in 0 .. Pages - 1 : ByteOf(m) = ByteOf(n)}
Unmarked == (0 .. Pages - 1) \ used

PreemptedInit ==
    /\ used = Reserved \cup {Victim}
    /\ free_pages = Cardinality(Unmarked)
    /\ held = {}
    /\ cpu = "shell"
    /\ pc = [t \in Task |-> "idle"]
    /\ page = [shell |-> 0, reaper |-> Victim]
    /\ byte = [t \in Task |-> {}]
    /\ count = [t \in Task |-> 0]

At(t, label) == cpu = t /\ pc[t] = label
Goto(t, label) == pc' = [pc EXCEPT ![t] = label]

\* The timer switches between the two processes wherever they are.
Preempt ==
    /\ cpu' \in Task \ {cpu}
    /\ UNCHANGED <<used, free_pages, held, pc, page, byte, count>>

-----------------------------------------------------------------------------

AllocBegins ==
    /\ At("shell", "idle")
    /\ page' = [page EXCEPT !["shell"] = 1]
    /\ Goto("shell", "look")
    /\ UNCHANGED <<used, free_pages, held, cpu, byte, count>>

\* for (i = 1; i < max_pages; i++) if (bit_lesen(i) == 0)
AllocLooks ==
    /\ At("shell", "look")
    /\ IF page["shell"] >= Pages THEN Goto("shell", "idle") /\ UNCHANGED page
       ELSE IF page["shell"] \in used
            THEN page' = [page EXCEPT !["shell"] = @ + 1] /\ UNCHANGED pc
            ELSE Goto("shell", "setLoad") /\ UNCHANGED page
    /\ UNCHANGED <<used, free_pages, held, cpu, byte, count>>

\* The load half of bitmap[page / 8] |= ... and of &= ~...
LoadByte(t, from, to) ==
    /\ At(t, from)
    /\ byte' = [byte EXCEPT ![t] = used \cap BytePages(page[t])]
    /\ Goto(t, to)
    /\ UNCHANGED <<used, free_pages, held, cpu, page, count>>

\* The store half: the whole byte is written back.
StoreByte(t, from, to, bits) ==
    /\ At(t, from)
    /\ used' = (used \ BytePages(page[t])) \cup bits
    /\ Goto(t, to)
    /\ UNCHANGED <<free_pages, held, cpu, page, byte, count>>

LoadCount(t, from, to) ==
    /\ At(t, from)
    /\ count' = [count EXCEPT ![t] = free_pages]
    /\ Goto(t, to)
    /\ UNCHANGED <<used, free_pages, held, cpu, page, byte>>

AllocSets ==
    \/ LoadByte("shell", "setLoad", "setStore")
    \/ StoreByte("shell", "setStore", "decLoad", byte["shell"] \cup {page["shell"]})

\* free_pages--, and the page is the caller's.
AllocCounts ==
    \/ LoadCount("shell", "decLoad", "decStore")
    \/ /\ At("shell", "decStore")
       /\ free_pages' = count["shell"] - 1
       /\ held' = held \cup {page["shell"]}
       /\ Goto("shell", "idle")
       /\ UNCHANGED <<used, cpu, page, byte, count>>

\* The stress test gives back a page it got, or one that is free already; the
\* reaper, once, the victim's.
FreeBegins(t) ==
    /\ At(t, "idle")
    /\ IF t = "shell"
       THEN \E n \in held \cup (Unmarked \ {0}) :
               /\ page' = [page EXCEPT ![t] = n]
               /\ held' = held \ {n}
       ELSE UNCHANGED <<page, held>>
    /\ Goto(t, "check")
    /\ UNCHANGED <<used, free_pages, cpu, byte, count>>

Finished(t) == IF t = "reaper" THEN "done" ELSE "idle"

\* if (bit_lesen(page) == 0) return;
FreeChecks(t) ==
    /\ At(t, "check")
    /\ Goto(t, IF page[t] \in used THEN "clearLoad" ELSE Finished(t))
    /\ UNCHANGED <<used, free_pages, held, cpu, page, byte, count>>

FreeClears(t) ==
    \/ LoadByte(t, "clearLoad", "clearStore")
    \/ StoreByte(t, "clearStore", "incLoad", byte[t] \ {page[t]})

FreeCounts(t) ==
    \/ LoadCount(t, "incLoad", "incStore")
    \/ /\ At(t, "incStore")
       /\ free_pages' = count[t] + 1
       /\ Goto(t, Finished(t))
       /\ UNCHANGED <<used, held, cpu, page, byte, count>>

PreemptedNext ==
    \/ Preempt
    \/ AllocBegins \/ AllocLooks \/ AllocSets \/ AllocCounts
    \/ \E t \in Task :
          FreeBegins(t) \/ FreeChecks(t) \/ FreeClears(t) \/ FreeCounts(t)

PreemptedSpec == PreemptedInit /\ [][PreemptedNext]_preemptedVars

-----------------------------------------------------------------------------
(***************************************************************************)
(* Properties                                                              *)
(***************************************************************************)

\* The damage of a page freed at the wrong moment stays in one byte of the
\* bitmap: a page the shell holds is marked unless it shares its byte with the
\* page the reaper frees (pmm.c:20-34).
DamageInOneByte ==
    \A n \in held : n \in used \/ ByteOf(n) = ByteOf(Victim)

\* stress_test.c:76, "Doppeltes Alloc derselben Adresse unmoeglich": pmm_alloc
\* does not return a page its caller holds already.
AllocReturns == pc["shell"] = "decStore" /\ pc'["shell"] = "idle"

NoDoubleAllocation == [][AllocReturns => page["shell"] \notin held]_preemptedVars

=============================================================================
