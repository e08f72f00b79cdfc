---------------------------- MODULE SchedulerTurns ----------------------------
(***************************************************************************)
(* Scheduler with a history variable: for how many timer ticks each        *)
(* process has been READY since it last had the CPU.                       *)
(***************************************************************************)
EXTENDS Scheduler

VARIABLE waited

turnsVars == <<vars, waited>>

TurnsInit == Init /\ waited = [p \in Proc |-> 0]

CountedTick ==
    /\ Tick
    /\ waited' = [p \in Proc |->
                     IF p # current' /\ state'[p] = "READY" THEN waited[p] + 1
                                                            ELSE 0]

TurnsNext ==
    \/ CountedTick
    \/ /\ \/ AddFirst \/ AddLast \/ Start \/ Yield
          \/ ReaperStep \/ WalkBegins \/ Walking
       /\ UNCHANGED waited

TurnsSpec == TurnsInit /\ [][TurnsNext]_turnsVars /\ Fairness

\* The ticks of one turn of each of the first n processes.
Turns(n) ==
    LET sum[k \in 0 .. NProc] == IF k = 0 THEN 0 ELSE sum[k - 1] + Quantum(k - 1)
    IN  sum[n]

\* No process waits longer than one turn of each of the others, also when the
\* one that is running was killed, or PCBs leave the ring between two turns
\* (schedular.c:149-181).
WaitIsBounded ==
    \A p \in Proc :
        waited[p] <= Turns(NProc) - Quantum(p)

=============================================================================
