------------------------------ MODULE Lifecycle ------------------------------
(***************************************************************************)
(* What the process list promises, with no ring in it: processes are       *)
(* started, take turns on one CPU, are killed once and for all, and are    *)
(* reclaimed only when they are dead and off the CPU.                      *)
(***************************************************************************)
CONSTANT Proc

VARIABLES
    alive,      \* started and not killed
    dead,       \* killed, memory not yet given back
    reclaimed,  \* memory given back
    turn        \* at most one process: the one that has the CPU

lifeVars == <<alive, dead, reclaimed, turn>>

Init == alive = {} /\ dead = {} /\ reclaimed = {} /\ turn = {}

\* A process starts; the first one gets the CPU.
Begin ==
    /\ \E p \in Proc \ (alive \cup dead \cup reclaimed) :
          /\ alive' = alive \cup {p}
          /\ turn' = IF turn = {} THEN {p} ELSE turn
    /\ UNCHANGED <<dead, reclaimed>>

\* Another process that is alive gets the CPU; nobody's memory changes hands.
Dispatch ==
    /\ \E p \in alive : turn' = {p}
    /\ UNCHANGED <<alive, dead, reclaimed>>

Kill ==
    /\ \E p \in alive : alive' = alive \ {p} /\ dead' = dead \cup {p}
    /\ UNCHANGED <<reclaimed, turn>>

Reclaim ==
    /\ \E p \in dead \ turn :
          /\ dead' = dead \ {p}
          /\ reclaimed' = reclaimed \cup {p}
    /\ UNCHANGED <<alive, turn>>

Next == Begin \/ Dispatch \/ Kill \/ Reclaim

Spec == Init /\ [][Next]_lifeVars

=============================================================================
