--------------------------- MODULE KmallocPreempted ---------------------------
(***************************************************************************)
(* kmalloc and kfree of src/mm/kmalloc.c between two timer ticks: the      *)
(* shell runs the heap stress test (src/kernel/stress_test.c) while the    *)
(* reaper frees the PCB of a killed process. Nothing masks interrupts, so  *)
(* the other process may run between any two accesses to the headers.      *)
(*                                                                         *)
(* The heap is as the boot leaves it: the PCBs of three processes, of      *)
(* which the second was killed, and one free block with the rest.          *)
(***************************************************************************)
EXTENDS KmallocState, FiniteSets

CONSTANTS
    PcbSize,    \* sizeof(PCB)
    MaxHeld     \* how many areas the stress test holds at a time

ASSUME SizesAssumption ==
    /\ PcbSize \in Nat \ {0} /\ MaxHeld \in Nat
    /\ HeapSize > 3 * (Header + PcbSize) + Header

Task == {"shell", "reaper"}

\* The blocks after boot; PCB 1 is the victim's.
Pcb(pid) == pid * (Header + PcbSize)
Rest == Pcb(3)

VARIABLES
    cpu,        \* whose turn it is
    at,         \* per task: current of kmalloc, block of kfree
    reg,        \* per task: the register between load and store
    cut,        \* the tasks whose call has been interrupted
    split       \* history: kmalloc has split a block under kfree's hands

preemptedVars == <<heap, held, cpu, pc, at, size, reg, cut, split>>

PreemptedInit ==
    /\ heap = [a \in Addr |->
         IF a \in {Pcb(0), Pcb(1), Pcb(2)}
         THEN [size |-> PcbSize, used |-> 1, next |-> a + Header + PcbSize]
         ELSE IF a = Rest
              THEN [size |-> HeapSize - Rest - Header, used |-> 0, next |-> Null]
              ELSE [size |-> 0, used |-> 1, next |-> Null]]
    /\ held = {}
    /\ cpu = "shell"
    /\ pc = [t \in Task |-> "idle"]
    /\ at = [shell |-> Null, reaper |-> Pcb(1)]
    /\ size = 0
    /\ reg = [t \in Task |-> 0]
    /\ cut = {}
    /\ split = FALSE

At(t, label) == cpu = t /\ pc[t] = label
Goto(t, label) == pc' = [pc EXCEPT ![t] = label]
Mine(t) == heap[at[t]]
Write(t, block) == heap' = [heap EXCEPT ![at[t]] = block]

Outside(t) == pc[t] \in {"idle", "done"}

\* The timer switches between the two processes wherever they are, but not twice
\* in one call: a turn is at least one tick, a millisecond, and a call is over in
\* a few microseconds.
Preempt ==
    /\ Outside(cpu) \/ cpu \notin cut
    /\ cut' = IF Outside(cpu) THEN cut ELSE cut \cup {cpu}
    /\ cpu' \in Task \ {cpu}
    /\ UNCHANGED <<heap, held, pc, at, size, reg>>

-----------------------------------------------------------------------------
(***************************************************************************)
(* kmalloc, called by the shell                                            *)
(***************************************************************************)
MallocCalled ==
    /\ At("shell", "idle") /\ Cardinality(held) < MaxHeld
    /\ size' \in Requests
    /\ at' = [at EXCEPT !["shell"] = 0]
    /\ Goto("shell", "isFree")
    /\ cut' = cut \ {"shell"}
    /\ UNCHANGED <<heap, held, cpu, reg>>

\* while (current != NULL) and current->used == 0
LooksIfFree ==
    /\ At("shell", "isFree")
    /\ Goto("shell", IF at["shell"] = Null THEN "idle"
                     ELSE IF Mine("shell").used = 0 THEN "isLarge" ELSE "advance")
    /\ UNCHANGED <<heap, held, cpu, at, size, reg, cut>>

\* current->size >= size
LooksIfLarge ==
    /\ At("shell", "isLarge")
    /\ Goto("shell", IF Mine("shell").size >= size THEN "isTooLarge" ELSE "advance")
    /\ UNCHANGED <<heap, held, cpu, at, size, reg, cut>>

Advances ==
    /\ At("shell", "advance")
    /\ at' = [at EXCEPT !["shell"] = Mine("shell").next]
    /\ Goto("shell", "isFree")
    /\ UNCHANGED <<heap, held, cpu, size, reg, cut>>

\* current->size > size + sizeof(Block)
LooksIfTooLarge ==
    /\ At("shell", "isTooLarge")
    /\ Goto("shell", IF Mine("shell").size > size + Header THEN "neuSize" ELSE "mark")
    /\ UNCHANGED <<heap, held, cpu, at, size, reg, cut>>

Neu == at["shell"] + Header + size

\* neu->size = current->size - size - sizeof(Block), neu->used = 0
WritesNeu ==
    /\ At("shell", "neuSize")
    /\ heap' = [heap EXCEPT ![Neu].size = Mine("shell").size - size - Header,
                            ![Neu].used = 0]
    /\ Goto("shell", "neuNext")
    /\ UNCHANGED <<held, cpu, at, size, reg, cut>>

\* neu->next = current->next
LinksNeu ==
    /\ At("shell", "neuNext")
    /\ heap' = [heap EXCEPT ![Neu].next = Mine("shell").next]
    /\ Goto("shell", "curSize")
    /\ UNCHANGED <<held, cpu, at, size, reg, cut>>

\* current->size = size, then current->next = neu
Shrinks ==
    \/ /\ At("shell", "curSize")
       /\ Write("shell", [Mine("shell") EXCEPT !.size = size])
       /\ Goto("shell", "curNext")
       /\ UNCHANGED <<held, cpu, at, size, reg, cut>>
    \/ /\ At("shell", "curNext")
       /\ Write("shell", [Mine("shell") EXCEPT !.next = Neu])
       /\ Goto("shell", "mark")
       /\ UNCHANGED <<held, cpu, at, size, reg, cut>>

\* current->used = 1; return current + 1
Marks ==
    /\ At("shell", "mark")
    /\ Write("shell", [Mine("shell") EXCEPT !.used = 1])
    /\ held' = held \cup {[ptr |-> at["shell"] + Header, len |-> size]}
    /\ Goto("shell", "idle")
    /\ UNCHANGED <<cpu, at, size, reg, cut>>

-----------------------------------------------------------------------------
(***************************************************************************)
(* kfree, called by the shell with an area it holds, and once by the       *)
(* reaper with the victim's PCB                                            *)
(***************************************************************************)
FreeCalled(t) ==
    /\ At(t, "idle")
    /\ IF t = "shell"
       THEN \E h \in held : /\ at' = [at EXCEPT ![t] = h.ptr - Header]
                            /\ held' = held \ {h}
       ELSE UNCHANGED <<at, held>>
    /\ Goto(t, "free")
    /\ cut' = cut \ {t}
    /\ UNCHANGED <<heap, cpu, size, reg>>

\* block->used = 0
Frees(t) ==
    /\ At(t, "free")
    /\ Write(t, [Mine(t) EXCEPT !.used = 0])
    /\ Goto(t, "hasNext")
    /\ UNCHANGED <<held, cpu, at, size, reg, cut>>

Finished(t) == IF t = "reaper" THEN "done" ELSE "idle"

\* As LooksBehind, had merge_blocks not asked whether the next block is free.
LooksBehindAny(t) ==
    /\ At(t, "hasNext")
    /\ Goto(t, IF Mine(t).next = Null THEN Finished(t) ELSE "loadSize")
    /\ UNCHANGED <<heap, held, cpu, at, size, reg, cut>>

\* block->next != 0, and then block->next->used == 0
LooksBehind(t) ==
    \/ /\ At(t, "hasNext")
       /\ Goto(t, IF Mine(t).next = Null THEN Finished(t) ELSE "nextFree")
       /\ UNCHANGED <<heap, held, cpu, at, size, reg, cut>>
    \/ /\ At(t, "nextFree")
       /\ Goto(t, IF heap[Mine(t).next].used = 0 THEN "loadSize" ELSE Finished(t))
       /\ UNCHANGED <<heap, held, cpu, at, size, reg, cut>>

\* block->size += sizeof(Block) + block->next->size: two loads and a store
Grows(t) ==
    \/ /\ At(t, "loadSize")
       /\ reg' = [reg EXCEPT ![t] = Mine(t).size]
       /\ Goto(t, "addSize")
       /\ UNCHANGED <<heap, held, cpu, at, size, cut>>
    \/ /\ At(t, "addSize")
       /\ reg' = [reg EXCEPT ![t] = @ + Header + heap[Mine(t).next].size]
       /\ Goto(t, "storeSize")
       /\ UNCHANGED <<heap, held, cpu, at, size, cut>>
    \/ /\ At(t, "storeSize")
       /\ Write(t, [Mine(t) EXCEPT !.size = reg[t]])
       /\ Goto(t, "loadNext")
       /\ UNCHANGED <<held, cpu, at, size, reg, cut>>

\* block->next = block->next->next: a load and a store
Unlinks(t) ==
    \/ /\ At(t, "loadNext")
       /\ reg' = [reg EXCEPT ![t] = heap[Mine(t).next].next]
       /\ Goto(t, "storeNext")
       /\ UNCHANGED <<heap, held, cpu, at, size, cut>>
    \/ /\ At(t, "storeNext")
       /\ Write(t, [Mine(t) EXCEPT !.next = reg[t]])
       /\ Goto(t, "hasNext")
       /\ UNCHANGED <<held, cpu, at, size, reg, cut>>

Malloc ==
    \/ MallocCalled \/ LooksIfFree \/ LooksIfLarge \/ Advances
    \/ LooksIfTooLarge \/ WritesNeu \/ LinksNeu \/ Shrinks \/ Marks

Free == \E t \in Task :
    FreeCalled(t) \/ Frees(t) \/ LooksBehind(t) \/ Grows(t) \/ Unlinks(t)

PreemptedNext == Preempt \/ Malloc \/ Free

\* kfree has given its block away (used = 0) and is not done with it, and kmalloc,
\* which has taken the block, now gives it another next.
Merging == {"hasNext", "nextFree", "loadSize", "addSize", "storeSize", "loadNext", "storeNext"}

SplitsUnderKfree ==
    /\ pc["reaper"] \in Merging
    /\ at["shell"] = at["reaper"] /\ pc["shell"] = "curNext" /\ pc'["shell"] = "mark"

PreemptedSpec ==
    PreemptedInit /\ [][PreemptedNext /\ split' = (split \/ SplitsUnderKfree)]_preemptedVars

\* A bound for TLC: behind the first state with a split no property says anything,
\* and sizes and lists may be of any kind there, so that there are endlessly many.
UntilSplit == ~ split

-----------------------------------------------------------------------------
(***************************************************************************)
(* Properties                                                              *)
(***************************************************************************)

\* The areas in use: the shell's, the PCBs of the two other processes, and the
\* victim's until the reaper frees it.
Area(pid) == [ptr |-> Pcb(pid) + Header, len |-> PcbSize]
Pcbs == {Area(0), Area(2)} \cup (IF pc["reaper"] = "idle" THEN {Area(1)} ELSE {})
InUse == held \cup Pcbs

Overlapping(g, h) == g # h /\ g.ptr < h.ptr + h.len /\ h.ptr < g.ptr + g.len

\* The block of an area in use, from its header to its end.
Apart(g, h) ==
    LET end(a) == a.ptr + heap[a.ptr - Header].size
    IN  end(g) <= h.ptr - Header \/ end(h) <= g.ptr - Header

\* The one way to harm: wherever kmalloc and kfree are interrupted, also inside one
\* another, the areas in use are in blocks of their own, marked used and large
\* enough, at every access, as long as kmalloc has not split the block whose
\* neighbour a kfree that is not over is still to look at (kmalloc.c:30-37, 60-61).
HarmNeedsSplit ==
    ~ split =>
        \A g \in InUse :
            /\ heap[g.ptr - Header].used = 1
            /\ g.len <= heap[g.ptr - Header].size
            /\ \A h \in InUse \ {g} : Apart(g, h)

\* No two areas in use share a byte, whatever kmalloc and kfree were interrupted
\* at: what the stress test writes stays as it was written, and no PCB of a live
\* process is written to. The stress test reports the contrary as corrupt data
\* (stress_test.c:126-132). It does not hold: kfree gives its block away before it
\* merges it, so a kmalloc in between takes and splits the block, and the merge then
\* takes away what the next kmalloc has found free already (kmalloc.c:60-61).
NoOverlap == \A g, h \in InUse : ~ Overlapping(g, h)

=============================================================================
