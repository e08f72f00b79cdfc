------------------------------ MODULE KeyStream ------------------------------
(***************************************************************************)
(* What the keyboard driver promises its reader: keys arrive in the order  *)
(* in which they were typed, each at most once, and where some are missing *)
(* a whole number of rings is missing: none is while fewer are waiting.    *)
(***************************************************************************)
EXTENDS Naturals

CONSTANT Size     \* of the ring

VARIABLES
    typed,        \* how many keys were typed
    delivered     \* the last one that reached the reader, counted from 1

streamVars == <<typed, delivered>>

Init == typed = 0 /\ delivered = 0

Type == typed' = typed + 1 /\ UNCHANGED delivered

Deliver ==
    /\ \E laps \in 0 .. typed : delivered' = delivered + 1 + laps * Size
    /\ delivered' <= typed
    /\ UNCHANGED typed

Next == Type \/ Deliver

Spec == Init /\ [][Next]_streamVars

=============================================================================
