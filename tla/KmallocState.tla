----------------------------- MODULE KmallocState -----------------------------
(***************************************************************************)
(* The heap of src/mm/kmalloc.c as its callers share it: its memory, who   *)
(* holds what kmalloc returned, and where the calls are. Kmalloc, in which *)
(* a step is one pass of a loop, and KmallocPreempted, in which it is one  *)
(* access, have it in common.                                              *)
(***************************************************************************)
EXTENDS Integers

CONSTANTS
    HeapSize,   \* HEAP_SIZE, 1 MB
    Header,     \* sizeof(Block), 32
    Requests    \* the sizes callers ask for

ASSUME HeapAssumption ==
    /\ HeapSize \in Nat /\ Header \in Nat \ {0} /\ Header < HeapSize
    /\ Requests \subseteq Nat \ {0}

VARIABLES
    heap,     \* what is in memory where a header is, or was
    held,     \* the areas callers hold: [ptr, len], len bytes from ptr
    pc,       \* where the code is: one loop, or a label per task
    size      \* kmalloc's argument

\* Addresses count from heap_start; Null is NULL.
Addr == 0 .. HeapSize - 1
Null == HeapSize

Block == [size : Nat, used : {0, 1}, next : Addr \cup {Null}]

=============================================================================
