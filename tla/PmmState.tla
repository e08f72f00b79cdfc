------------------------------- MODULE PmmState -------------------------------
(***************************************************************************)
(* The static variables of src/mm/pmm.c that pmm_alloc and pmm_free        *)
(* change, and who holds what they return: the state that Pmm, in which    *)
(* each call is one step, and PmmPreempted, in which it is many, share.    *)
(***************************************************************************)

VARIABLES
    used,          \* bitmap: the pages whose bit is 1
    free_pages,
    held,          \* pages handed out and not returned
    pc             \* where the code is: one loop of pmm_init, or a label per task

=============================================================================
