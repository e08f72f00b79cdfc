------------------------------- MODULE Kmalloc -------------------------------
(***************************************************************************)
(* The kernel heap, src/mm/kmalloc.c: a list of blocks, each a header and  *)
(* an area behind it, searched first-fit by kmalloc, split when something  *)
(* is left over, and merged with the blocks behind it by kfree.            *)
(*                                                                         *)
(* The loops are modelled iteration by iteration, for one caller that      *)
(* nobody preempts; module KmallocPreempted takes the iterations apart.    *)
(*                                                                         *)
(* A header can be anywhere: heap is the memory as the code would read it  *)
(* through a Block pointer, and blocks, which the program does not have,   *)
(* the headers that are on the list. pc says whether the caller is between *)
(* calls, in the search of kmalloc or in merge_blocks.                     *)
(***************************************************************************)
EXTENDS KmallocState, FiniteSets

VARIABLES
    blocks,   \* the addresses of the headers on the list
    current   \* kmalloc's current, merge_blocks' block

vars == <<heap, blocks, held, pc, current, size>>

End(b) == b + Header + heap[b].size

-----------------------------------------------------------------------------

\* kmalloc_init; no memory that is not a header yet is looked at.
Init ==
    /\ heap = [a \in Addr |->
                  IF a = 0 THEN [size |-> HeapSize - Header, used |-> 0, next |-> Null]
                           ELSE [size |-> 0, used |-> 1, next |-> Null]]
    /\ blocks = {0}
    /\ held = {}
    /\ pc = "idle" /\ current = Null /\ size = 0

MallocBegins ==
    /\ pc = "idle"
    /\ size' \in Requests
    /\ current' = 0
    /\ pc' = "search"
    /\ UNCHANGED <<heap, blocks, held>>

\* As Fits, had kmalloc asked for a block larger than the request.
FitsStrictly == heap[current].used = 0 /\ heap[current].size > size

Fits == heap[current].used = 0 /\ heap[current].size >= size

\* As SearchPasses, had kmalloc gone on from used blocks only.
SearchPassesUsed ==
    /\ pc = "search" /\ current # Null /\ ~ Fits
    /\ current' = IF heap[current].used = 1 THEN heap[current].next ELSE current
    /\ UNCHANGED <<heap, blocks, held, pc, size>>

SearchPasses ==
    /\ pc = "search" /\ current # Null /\ ~ Fits
    /\ current' = heap[current].next
    /\ UNCHANGED <<heap, blocks, held, pc, size>>

\* The end of the list: kmalloc returns NULL.
SearchFails ==
    /\ pc = "search" /\ current = Null
    /\ pc' = "idle"
    /\ UNCHANGED <<heap, blocks, held, current, size>>

Handed == [ptr |-> current + Header, len |-> size]

\* A block that is more than big enough: what is left becomes block neu.
Splits ==
    /\ pc = "search" /\ current # Null /\ Fits
    /\ heap[current].size > size + Header
    /\ LET neu == current + Header + size
       IN  /\ heap' = [heap EXCEPT
                  ![neu] = [size |-> heap[current].size - size - Header, used |-> 0,
                            next |-> heap[current].next],
                  ![current] = [size |-> size, used |-> 1, next |-> neu]]
           /\ blocks' = blocks \cup {neu}
    /\ held' = held \cup {Handed}
    /\ pc' = "idle"
    /\ UNCHANGED <<current, size>>

\* As TakesWhole, had kmalloc not marked the block used.
TakesUnmarked ==
    /\ pc = "search" /\ current # Null /\ Fits
    /\ heap[current].size <= size + Header
    /\ held' = held \cup {Handed}
    /\ pc' = "idle"
    /\ UNCHANGED <<heap, blocks, current, size>>

TakesWhole ==
    /\ pc = "search" /\ current # Null /\ Fits
    /\ heap[current].size <= size + Header
    /\ heap' = [heap EXCEPT ![current].used = 1]
    /\ held' = held \cup {Handed}
    /\ pc' = "idle"
    /\ UNCHANGED <<blocks, current, size>>

\* kfree by a holder; kfree(NULL) returns at once and changes nothing.
FreeBegins ==
    /\ pc = "idle"
    /\ \E h \in held :
          /\ held' = held \ {h}
          /\ current' = h.ptr - Header
          /\ heap' = [heap EXCEPT ![h.ptr - Header].used = 0]
    /\ pc' = "merge"
    /\ UNCHANGED <<blocks, size>>

\* As Mergeable, had merge_blocks not looked whether the next block is free.
MergeableAny == heap[current].next # Null

Mergeable ==
    /\ heap[current].next # Null
    /\ heap[heap[current].next].used = 0

\* As Merges, had the header of the merged block not been counted.
MergesShort ==
    /\ pc = "merge" /\ Mergeable
    /\ LET gone == heap[current].next
       IN  /\ heap' = [heap EXCEPT ![current].size = @ + heap[gone].size,
                                   ![current].next = heap[gone].next]
           /\ blocks' = blocks \ {gone}
    /\ UNCHANGED <<held, pc, current, size>>

\* One iteration of merge_blocks.
Merges ==
    /\ pc = "merge" /\ Mergeable
    /\ LET gone == heap[current].next
       IN  /\ heap' = [heap EXCEPT ![current].size = @ + Header + heap[gone].size,
                                   ![current].next = heap[gone].next]
           /\ blocks' = blocks \ {gone}
    /\ UNCHANGED <<held, pc, current, size>>

MergeDone ==
    /\ pc = "merge" /\ ~ Mergeable
    /\ pc' = "idle"
    /\ UNCHANGED <<heap, blocks, held, current, size>>

Returning ==
    \/ SearchPasses \/ SearchFails \/ Splits \/ TakesWhole
    \/ Merges \/ MergeDone

Next == MallocBegins \/ FreeBegins \/ Returning

Spec == Init /\ [][Next]_vars

\* A call that has begun runs on.
FairSpec == Spec /\ WF_vars(Returning)

-----------------------------------------------------------------------------
(***************************************************************************)
(* Properties                                                              *)
(***************************************************************************)

\* Headers and locals hold values of their types; NULL is Null (kmalloc.h).
TypeOK ==
    /\ heap \in [Addr -> Block]
    /\ blocks \subseteq Addr
    /\ held \subseteq [ptr : Addr, len : Requests]
    /\ pc \in {"idle", "search", "merge"}
    /\ current \in Addr \cup {Null} /\ size \in Requests \cup {0}

\* The blocks on the list lie one behind the other from heap_start to the end
\* of the heap, without gap or overlap, through every split and every merge
\* (kmalloc.c:32-37, 50-51).
HeapTiled ==
    /\ 0 \in blocks
    /\ \A b \in blocks :
          /\ IF heap[b].next = Null THEN End(b) = HeapSize
             ELSE heap[b].next = End(b) /\ End(b) \in blocks
          /\ \A c \in blocks : b < c => End(b) <= c

\* A block is marked used while somebody holds its area, and only then: no area
\* is handed out twice and none is lost (kmalloc.c:39, 60).
UsedIsHeld ==
    /\ \A h \in held :
          /\ h.ptr - Header \in blocks
          /\ heap[h.ptr - Header].used = 1
          /\ h.len <= heap[h.ptr - Header].size
    /\ \A b \in blocks :
          heap[b].used = 1 => \E h \in held : h.ptr = b + Header

\* No area that somebody holds reaches into another one or over the header of
\* a block on the list, so writing to it harms nobody (kmalloc.c:29-41).
HeldApart ==
    \A h \in held :
        /\ h.ptr + h.len <= HeapSize
        /\ \A g \in held : g = h \/ g.ptr + g.len <= h.ptr \/ h.ptr + h.len <= g.ptr
        /\ \A b \in blocks : b + Header <= h.ptr \/ h.ptr + h.len <= b

\* kmalloc returns NULL only if no block on the list would do (kmalloc.c:27-44).
FailsForGood ==
    (pc = "search" /\ pc' = "idle" /\ held' = held)
        => \A b \in blocks : heap[b].used = 1 \/ heap[b].size < size

NullOnlyIfNothingFits == [][FailsForGood]_vars

\* Every kmalloc and kfree comes back: the list has an end (kmalloc.c:27, 49).
CallsReturn == (pc # "idle") ~> (pc = "idle")

\* The heap is an allocator to its callers, through all of its splits and
\* merges: refinement of Allocator, with the areas they hold (kmalloc.h:20-21).
Alloc == INSTANCE Allocator WITH
    Size  <- HeapSize,
    areas <- {[first |-> h.ptr, last |-> h.ptr + h.len - 1] : h \in held}

IsAllocator == Alloc!Spec

\* What stress_test.c:155 says: two neighbouring blocks that have been freed are
\* one big block. It does not hold: kfree merges forwards only.
NeighboursMerged ==
    pc = "idle" =>
        \A b \in blocks :
            heap[b].used = 1 \/ heap[b].next = Null \/ heap[heap[b].next].used = 1

=============================================================================
