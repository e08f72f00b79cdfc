------------------------------ MODULE Allocator ------------------------------
(***************************************************************************)
(* What a heap promises: every area handed out lies in the heap and apart  *)
(* from the areas that others hold, until its holder gives it back.        *)
(***************************************************************************)
EXTENDS Integers

CONSTANT Size   \* the heap is 0 .. Size - 1

VARIABLE areas  \* the areas handed out: [first, last], both inclusive

Area == [first : 0 .. Size - 1, last : 0 .. Size - 1]

Apart(a, b) == a.last < b.first \/ b.last < a.first

Init == areas = {}

Alloc ==
    \E a \in Area :
        /\ a.first <= a.last
        /\ \A b \in areas : Apart(a, b)
        /\ areas' = areas \cup {a}

Free == \E a \in areas : areas' = areas \ {a}

Next == Alloc \/ Free

Spec == Init /\ [][Next]_areas

=============================================================================
