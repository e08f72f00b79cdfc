------------------------------ MODULE Scheduler ------------------------------
(***************************************************************************)
(* The process list of src/proc/schedular.c and src/proc/process.c: a ring *)
(* of PCBs with a head and a current pointer, read and written by          *)
(*                                                                         *)
(*   - the timer interrupt, which calls schedule() with interrupts off,    *)
(*   - the shell process, which walks the ring for ps and for taskkill,    *)
(*   - the reaper process, which unlinks and frees ZOMBIE PCBs.            *)
(*                                                                         *)
(* Shell and reaper run with interrupts on, so the timer may come between  *)
(* any two of their accesses to the ring: each shared access is an action  *)
(* of its own, taken only while that process is `current'.                 *)
(*                                                                         *)
(* A PCB is identified with its pid: create_process() numbers PCBs from 0  *)
(* in the order in which scheduler_add() appends them.                     *)
(***************************************************************************)
EXTENDS Integers, FiniteSets

CONSTANTS
    NProc,       \* how many processes Kernel_main adds (3 in kernel.c)
    Priority,    \* their priorities, by pid (0, 255 and 2 in kernel.c)
    Shell,       \* the pid that runs shell_process
    Reaper,      \* the pid that runs reaper_process
    Yielders,    \* the pids that call process_yield (none in this kernel)
    Safety,      \* the reaper's bound on one walk (100 in the code)
    SleepTicks   \* timer ticks of the reaper's sleep (1000 in the code)

ASSUME NProcAssumption == NProc \in Nat /\ NProc > 0

Proc == 0 .. NProc - 1
Nil == NProc

ASSUME ProcessAssumption ==
    /\ Priority \in [Proc -> 0 .. 255]
    /\ Shell \in Proc /\ Reaper \in Proc /\ Shell # Reaper
    /\ Yielders \subseteq Proc
    /\ Safety \in Nat /\ SleepTicks \in Nat

VARIABLES
    head, current,         \* the two list pointers, Nil for NULL
    next, state, ticks,    \* PCB fields next, state and ticks_remaining
    nextPid,               \* next_pid: the PCBs created so far are 0..nextPid-1
    started,               \* Kernel_main has done its iretq: interrupts are on
    stackFreed, pcbFreed,  \* whose stack page, whose PCB went back
    rpc, rprev, rcur, rself, rfree, rsafety, rsleep,  \* reaper_process' locals
    wpc, wcur, wtarget     \* the shell's walk: schedular_remove, cmd_ps

ringVars   == <<head, current, next, state, ticks, nextPid, started>>
freedVars  == <<stackFreed, pcbFreed>>
reaperVars == <<rpc, rprev, rcur, rself, rfree, rsafety, rsleep>>
walkVars   == <<wpc, wcur, wtarget>>
vars == <<ringVars, freedVars, reaperVars, walkVars>>

ProcessState == {"NONE", "NEW", "READY", "RUNNING", "ZOMBIE"}

\* get_quantum: the ticks a process gets per turn.
Quantum(p) ==
    LET prio == Priority[p]
    IN  IF prio \in 0 .. 2 THEN 4 - prio ELSE 1

Created == 0 .. nextPid - 1

\* The reaper has taken its victim off the ring and not yet freed its PCB.
Detached == IF rpc \in {"page", "pcb"} THEN {rfree} ELSE {}

Linked == Created \ (pcbFreed \cup Detached)

-----------------------------------------------------------------------------

Init ==
    /\ head = Nil /\ current = Nil
    /\ next = [p \in Proc |-> Nil]
    /\ state = [p \in Proc |-> "NONE"]
    /\ ticks = [p \in Proc |-> 0]
    /\ nextPid = 0 /\ started = FALSE
    /\ stackFreed = {} /\ pcbFreed = {}
    /\ rpc = "top" /\ rprev = Nil /\ rcur = Nil /\ rself = Nil /\ rfree = Nil
    /\ rsafety = 0 /\ rsleep = 0
    /\ wpc = "prompt" /\ wcur = Nil /\ wtarget = Nil

\* scheduler_add on an empty list: the first process is the whole ring.
AddFirst ==
    /\ ~ started /\ nextPid < NProc /\ head = Nil
    /\ head' = nextPid /\ current' = nextPid
    /\ next' = [next EXCEPT ![nextPid] = nextPid]
    /\ state' = [state EXCEPT ![nextPid] = "RUNNING"]
    /\ ticks' = [ticks EXCEPT ![nextPid] = Quantum(nextPid)]
    /\ nextPid' = nextPid + 1
    /\ UNCHANGED <<started, freedVars, reaperVars, walkVars>>

\* As AddLast, had scheduler_add not closed the ring behind the new PCB.
AddLastOpen ==
    /\ ~ started /\ nextPid < NProc /\ head # Nil
    /\ \E last \in Created : next[last] = head /\ next' = [next EXCEPT ![last] = nextPid]
    /\ state' = [state EXCEPT ![nextPid] = "READY"]
    /\ ticks' = [ticks EXCEPT ![nextPid] = Quantum(nextPid)]
    /\ nextPid' = nextPid + 1
    /\ UNCHANGED <<head, current, started, freedVars, reaperVars, walkVars>>

\* scheduler_add on a ring: behind the last PCB, the one that leads to head.
AddLast ==
    /\ ~ started /\ nextPid < NProc /\ head # Nil
    /\ \E last \in Created :
          /\ next[last] = head
          /\ next' = [next EXCEPT ![last] = nextPid, ![nextPid] = head]
    /\ state' = [state EXCEPT ![nextPid] = "READY"]
    /\ ticks' = [ticks EXCEPT ![nextPid] = Quantum(nextPid)]
    /\ nextPid' = nextPid + 1
    /\ UNCHANGED <<head, current, started, freedVars, reaperVars, walkVars>>

\* The end of Kernel_main: iretq into the first process, interrupts on.
Start ==
    /\ ~ started /\ nextPid = NProc
    /\ started' = TRUE
    /\ UNCHANGED <<head, current, next, state, ticks, nextPid,
                   freedVars, reaperVars, walkVars>>

-----------------------------------------------------------------------------
(***************************************************************************)
(* schedule(), called from the timer interrupt                             *)
(***************************************************************************)

\* The PCBs its loop looks at when the states are st: it starts behind
\* current and goes on from a PCB only if that one is a ZOMBIE.
Inspected(st) ==
    {q \in Proc : \A S \in SUBSET Proc :
        /\ next[current] \in S
        /\ \A p \in S : st[p] = "ZOMBIE" => next[p] \in S
        => q \in S}

\* As Candidates, had the loop not skipped ZOMBIEs.
CandidatesAny(st) == {next[current]}

Candidates(st) == {q \in Inspected(st) : st[q] # "ZOMBIE"}

\* What the outgoing process is left as.
Preempted ==
    [state EXCEPT ![current] = IF @ = "RUNNING" THEN "READY" ELSE @]

\* system_ticks is only read by sleep_ms: what is left of the reaper's sleep.
Clock ==
    rsleep' = IF rpc = "sleep" /\ rsleep > 0 THEN rsleep - 1 ELSE rsleep

\* As TickKeeps, had schedule() tested ticks_remaining before counting down.
TickKeepsLonger ==
    /\ ticks[current] >= 1
    /\ ticks' = [ticks EXCEPT ![current] = @ - 1]
    /\ UNCHANGED <<current, state>>

TickKeeps ==
    /\ ticks[current] > 1
    /\ ticks' = [ticks EXCEPT ![current] = @ - 1]
    /\ UNCHANGED <<current, state>>

TickSwitches ==
    /\ ticks[current] <= 1
    /\ \E q \in Candidates(Preempted) :
          /\ current' = q
          /\ state' = [Preempted EXCEPT ![q] = "RUNNING"]
          /\ ticks' = [ticks EXCEPT ![current] = 0, ![q] = Quantum(q)]

\* Only ZOMBIEs on the ring: schedule() returns with nothing switched.
TickFindsNobody ==
    /\ ticks[current] <= 1
    /\ Candidates(Preempted) = {}
    /\ state' = Preempted
    /\ ticks' = [ticks EXCEPT ![current] = 0]
    /\ UNCHANGED current

Tick ==
    /\ started
    /\ TickKeeps \/ TickSwitches \/ TickFindsNobody
    /\ Clock
    /\ UNCHANGED <<head, next, nextPid, started, freedVars,
                   rpc, rprev, rcur, rself, rfree, rsafety, walkVars>>

\* process_yield: give up what is left of the turn and wait for the timer.
Yield ==
    /\ started /\ current \in Yielders
    /\ ticks' = [ticks EXCEPT ![current] = 0]
    /\ UNCHANGED <<head, current, next, state, nextPid, started,
                   freedVars, reaperVars, walkVars>>

-----------------------------------------------------------------------------
(***************************************************************************)
(* reaper_process()                                                        *)
(***************************************************************************)
ReaperAt(pc) == started /\ current = Reaper /\ rpc = pc

\* As ReaperBegins, had `safety' been set up once, before the endless loop.
ReaperBeginsUnarmed ==
    /\ ReaperAt("top")
    /\ rpc' = "loop"
    /\ rprev' = head /\ rcur' = next[head] /\ rself' = current
    /\ UNCHANGED <<ringVars, freedVars, rfree, rsafety, rsleep, walkVars>>

ReaperBegins ==
    /\ ReaperAt("top")
    /\ rpc' = "loop"
    /\ rprev' = head /\ rcur' = next[head] /\ rself' = current
    /\ rsafety' = Safety
    /\ UNCHANGED <<ringVars, freedVars, rfree, rsleep, walkVars>>

ReaperInLoop == ReaperAt("loop") /\ rcur # head /\ rsafety > 0

Reapable == state[rcur] = "ZOMBIE" /\ rcur # rself

ReaperPasses ==
    /\ ReaperInLoop /\ ~ Reapable
    /\ rprev' = rcur /\ rcur' = next[rcur]
    /\ rsafety' = rsafety - 1
    /\ UNCHANGED <<ringVars, freedVars, rpc, rself, rfree, rsleep, walkVars>>

\* to_free = cur, decided before anything is written.
ReaperChooses ==
    /\ ReaperInLoop /\ Reapable
    /\ rfree' = rcur /\ rpc' = "unlink"
    /\ rsafety' = rsafety - 1
    /\ UNCHANGED <<ringVars, freedVars, rprev, rcur, rself, rsleep, walkVars>>

\* As ReaperUnlinks, had the reaper written `link' into the victim's own next.
ReaperUnlinksInto(link) ==
    /\ ReaperAt("unlink")
    /\ next' = [next EXCEPT ![rprev] = next[rcur], ![rcur] = link]
    /\ rcur' = next[rcur]
    /\ rpc' = "page"
    /\ UNCHANGED <<head, current, state, ticks, nextPid, started, freedVars,
                   rprev, rself, rfree, rsafety, rsleep, walkVars>>
ReaperUnlinksToHead == ReaperUnlinksInto(head)
ReaperUnlinksToSelf == ReaperUnlinksInto(rcur)

\* As ReaperUnlinks, had prev moved on to the victim as it does past others.
ReaperUnlinksAdvancing ==
    /\ ReaperAt("unlink")
    /\ next' = [next EXCEPT ![rprev] = next[rcur]]
    /\ rprev' = rcur /\ rcur' = next[rcur]
    /\ rpc' = "page"
    /\ UNCHANGED <<head, current, state, ticks, nextPid, started, freedVars,
                   rself, rfree, rsafety, rsleep, walkVars>>

ReaperUnlinks ==
    /\ ReaperAt("unlink")
    /\ next' = [next EXCEPT ![rprev] = next[rcur]]
    /\ rcur' = next'[rprev]
    /\ rpc' = "page"
    /\ UNCHANGED <<head, current, state, ticks, nextPid, started, freedVars,
                   rprev, rself, rfree, rsafety, rsleep, walkVars>>

\* pmm_free(to_free->stack)
ReaperFreesStack ==
    /\ ReaperAt("page")
    /\ stackFreed' = stackFreed \cup {rfree}
    /\ rpc' = "pcb"
    /\ UNCHANGED <<ringVars, pcbFreed, rprev, rcur, rself, rfree, rsafety,
                   rsleep, walkVars>>

\* kfree(to_free)
ReaperFreesPcb ==
    /\ ReaperAt("pcb")
    /\ pcbFreed' = pcbFreed \cup {rfree}
    /\ rpc' = "loop"
    /\ UNCHANGED <<ringVars, stackFreed, rprev, rcur, rself, rfree, rsafety,
                   rsleep, walkVars>>

ReaperSleeps ==
    /\ ReaperAt("loop") /\ (rcur = head \/ rsafety = 0)
    /\ rpc' = "sleep" /\ rsleep' = SleepTicks
    /\ UNCHANGED <<ringVars, freedVars, rprev, rcur, rself, rfree, rsafety,
                   walkVars>>

ReaperWakes ==
    /\ ReaperAt("sleep") /\ rsleep = 0
    /\ rpc' = "top"
    /\ UNCHANGED <<ringVars, freedVars, rprev, rcur, rself, rfree, rsafety,
                   rsleep, walkVars>>

ReaperStep ==
    \/ ReaperBegins \/ ReaperPasses \/ ReaperChooses \/ ReaperUnlinks
    \/ ReaperFreesStack \/ ReaperFreesPcb \/ ReaperSleeps \/ ReaperWakes

-----------------------------------------------------------------------------
(***************************************************************************)
(* The shell's walk: schedular_remove(pid), and cmd_ps, which walks the    *)
(* same way and matches nothing (Nil, as does a pid that does not exist)   *)
(***************************************************************************)
ShellAt(pc) == started /\ current = Shell /\ wpc = pc

WalkBegins ==
    /\ ShellAt("prompt")
    /\ wtarget' \in Proc \cup {Nil}
    /\ wcur' = head /\ wpc' = "walk"
    /\ UNCHANGED <<ringVars, freedVars, reaperVars>>

WalkPasses ==
    /\ ShellAt("walk") /\ wcur # wtarget
    /\ wcur' = next[wcur]
    /\ wpc' = IF wcur' = head THEN "prompt" ELSE "walk"
    /\ UNCHANGED <<ringVars, freedVars, reaperVars, wtarget>>

\* The match: kill_process returns at once if the PCB is a ZOMBIE already.
WalkMatches ==
    /\ ShellAt("walk") /\ wcur = wtarget
    /\ wpc' = IF state[wcur] = "ZOMBIE" THEN "prompt" ELSE "kill"
    /\ UNCHANGED <<ringVars, freedVars, reaperVars, wcur, wtarget>>

\* As WalkKills, had kill_process freed the stack page itself.
WalkKillsAndFrees ==
    /\ ShellAt("kill")
    /\ state' = [state EXCEPT ![wcur] = "ZOMBIE"]
    /\ stackFreed' = stackFreed \cup {wcur}
    /\ wpc' = "prompt"
    /\ UNCHANGED <<head, current, next, ticks, nextPid, started, pcbFreed,
                   reaperVars, wcur, wtarget>>

WalkKills ==
    /\ ShellAt("kill")
    /\ state' = [state EXCEPT ![wcur] = "ZOMBIE"]
    /\ wpc' = "prompt"
    /\ UNCHANGED <<head, current, next, ticks, nextPid, started,
                   freedVars, reaperVars, wcur, wtarget>>

Walking == WalkPasses \/ WalkMatches \/ WalkKills

-----------------------------------------------------------------------------
Next ==
    \/ AddFirst \/ AddLast \/ Start
    \/ Tick \/ Yield
    \/ ReaperStep
    \/ WalkBegins \/ Walking

Spec == Init /\ [][Next]_vars

\* The boot code runs on, and the PIT keeps interrupting. Shell and reaper
\* execute thousands of instructions between two ticks but only during their
\* turns, so their steps are enabled again and again, not continuously.
Fairness ==
    /\ WF_vars(AddFirst \/ AddLast \/ Start)
    /\ WF_vars(Tick)
    /\ SF_vars(ReaperStep)
    /\ SF_vars(Walking)

FairSpec == Spec /\ Fairness

-----------------------------------------------------------------------------
(***************************************************************************)
(* Properties                                                              *)
(***************************************************************************)

\* The PCB fields, the two list pointers and the locals of both walkers hold
\* values of their types; NULL is Nil (process.h, schedular.c:9-10).
TypeOK ==
    /\ head \in Proc \cup {Nil} /\ current \in Proc \cup {Nil}
    /\ next \in [Proc -> Proc \cup {Nil}]
    /\ state \in [Proc -> ProcessState]
    /\ ticks \in [Proc -> 0 .. 4]
    /\ nextPid \in 0 .. NProc /\ started \in BOOLEAN
    /\ stackFreed \subseteq Proc /\ pcbFreed \subseteq Proc
    /\ rpc \in {"top", "loop", "unlink", "page", "pcb", "sleep"}
    /\ rprev \in Proc \cup {Nil} /\ rcur \in Proc \cup {Nil}
    /\ rself \in Proc \cup {Nil} /\ rfree \in Proc \cup {Nil}
    /\ rsafety \in 0 .. Safety /\ rsleep \in 0 .. SleepTicks
    /\ wpc \in {"prompt", "walk", "kill"}
    /\ wcur \in Proc \cup {Nil} /\ wtarget \in Proc \cup {Nil}

\* The PCBs the reaper has not taken off form one ring in the order they were
\* added, whatever timer ticks fall between its load of cur->next and its store
\* to prev->next (schedular.c:119-131).
RingInOrder ==
    \A p \in Linked :
        /\ next[p] \in Linked
        /\ IF next[p] = head
           THEN \A q \in Linked : q <= p
           ELSE next[p] > p /\ \A q \in Linked : q <= p \/ next[p] <= q

\* The CPU is never with a process whose PCB is off the ring or whose stack
\* page went back to the PMM: current is read by the interrupt handler at any
\* time, also halfway through the reaper's unlinking (schedular.c:146-185).
RunsOnlyLinked == current # Nil => current \in Linked \ stackFreed

\* RUNNING marks one PCB, the current one, unless that one was killed during
\* its own turn and runs on as a ZOMBIE (schedular.c:156-180, process.c:60).
OneRunning ==
    \A p \in Created :
        /\ state[p] = "RUNNING" => p = current
        /\ p = current => state[p] \in {"RUNNING", "ZOMBIE"}

\* taskkill reaches its target although the PCB its walk stands on may be freed
\* under it: when it comes back to the prompt, a pid that exists is dead, because
\* stale next pointers lead forward, past ZOMBIEs only (schedular.c:60-70).
WalkReaches ==
    (wpc # "prompt" /\ wpc' = "prompt" /\ wtarget \in Created)
        => state'[wtarget] = "ZOMBIE"

TaskkillReaches == [][WalkReaches]_vars

\* kill_process never writes to a PCB that was given back: between its test
\* and its write the PCB is alive and on the ring (process.c:57-60).
KillsOnlyLinked == wpc = "kill" => wcur \in Linked

\* Nobody writes to a PCB that went back to the heap, where the next kmalloc
\* may hand it out again (schedular.c:123-126).
FreedKept ==
    \A p \in pcbFreed :
        next'[p] = next[p] /\ state'[p] = state[p] /\ ticks'[p] = ticks[p]

FreedUntouched == [][FreedKept]_vars

\* The ring is a fair processor: refinement of Lifecycle, where a process is
\* dispatched only while alive and reclaimed only when dead and off the CPU.
Life == INSTANCE Lifecycle WITH
    alive     <- {p \in Created : state[p] # "ZOMBIE"},
    dead      <- {p \in Created : state[p] = "ZOMBIE"} \ stackFreed,
    reclaimed <- stackFreed,
    turn      <- {current} \cap Proc

IsLifecycle == Life!Spec

\* ps and taskkill come back to the prompt even if the PCB they stand on is
\* freed under them, unless the shell itself was killed (schedular.c:60-70,
\* shell.c:317-331).
WalkEnds == (wpc # "prompt") ~> (wpc = "prompt" \/ state[Shell] = "ZOMBIE")

\* While the reaper lives, a killed process other than the head and the reaper
\* is unlinked and both its page and its PCB are freed (schedular.c:92-135).
ZombieReaped ==
    \A p \in Proc \ {0, Reaper} :
        (state[p] = "ZOMBIE") ~> (p \in stackFreed \cap pcbFreed
                                  \/ state[Reaper] = "ZOMBIE")

\* What process.c:62 says of every killed process: "stack wird vom reaper
\* freigegeben" (the stack is freed by the reaper); here while the reaper lives. It does not
\* hold for the head of the list.
EveryStackFreed ==
    \A p \in Proc \ {Reaper} :
        (state[p] = "ZOMBIE") ~> (p \in stackFreed \/ state[Reaper] = "ZOMBIE")

=============================================================================
