----------------------------- MODULE MCScheduler -----------------------------
(***************************************************************************)
(* An instance of SchedulerTurns for TLC.                                  *)
(***************************************************************************)
EXTENDS SchedulerTurns

\* Kernel_main's shell, idle process and reaper, with the reaper last and one
\* more process before it that yields.
FourPriorities == [p \in Proc |-> CASE p = Shell -> 0 [] p = 1 -> 255 [] OTHER -> 2]

=============================================================================
