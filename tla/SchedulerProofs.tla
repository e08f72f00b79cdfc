--------------------------- MODULE SchedulerProofs ---------------------------
(***************************************************************************)
(* Theorems about Scheduler, for every number of processes, every choice   *)
(* of shell, reaper and priorities.                                        *)
(*                                                                         *)
(* RingInOrder is not inductive: what keeps the ring whole is that prev    *)
(* and cur of the reaper stay neighbours while it is off the CPU, that its *)
(* victim stays a ZOMBIE and so is never dispatched, and that the stale    *)
(* next pointers of freed PCBs still lead forward. IInv says that.         *)
(*                                                                         *)
(* The bound on waiting is of SchedulerTurns. It follows from TurnsInv,    *)
(* which relates what a READY process has waited to the turns between its  *)
(* own and the one that is running.                                        *)
(***************************************************************************)
EXTENDS SchedulerTurns, WellFoundedInduction, TLAPS

\* The pids are naturals: walking the ring upwards, there is a first PCB at which
\* a claim would fail (schedular.c:28-58).
LEMMA LeastElement ==
    ASSUME NEW S \in SUBSET Nat, S # {}
    PROVE  \E x \in S : \A y \in S : x <= y
<1>1. IsWellFoundedOn(OpToRel(<, Nat), Nat)
    BY NatLessThanWellFounded
<1>2. PICK x \in S : \A y \in S : <<y, x>> \notin OpToRel(<, Nat)
    BY <1>1, WFMin
<1>3. \A y \in S : ~ (y < x)
    BY <1>2 DEF OpToRel
<1>. QED
    BY <1>3

\* And there is a last one.
LEMMA GreatestElement ==
    ASSUME NEW N \in Nat, NEW S \in SUBSET (0 .. N), S # {}
    PROVE  \E x \in S : \A y \in S : y <= x
<1>. DEFINE T == {t \in Nat : N - t \in S}
<1>1. PICK s \in S : TRUE
    OBVIOUS
<1>2. N - s \in T
    BY <1>1
<1>3. PICK t \in T : \A y \in T : t <= y
    BY <1>2, LeastElement
<1>4. \A y \in S : N - y \in T
    OBVIOUS
<1>5. ASSUME NEW y \in S PROVE y <= N - t
  <2>1. t <= N - y /\ y \in 0 .. N /\ t \in Nat
      BY <1>3, <1>4
  <2>. QED
      BY <2>1
<1>. QED
    BY <1>3, <1>5

-----------------------------------------------------------------------------

\* Boot: the list is filled before the first interrupt, and nothing else moves.
BootInv ==
    /\ nextPid = 0 => head = Nil /\ current = Nil
    /\ nextPid > 0 => head = 0 /\ current \in Linked
    /\ started => nextPid = NProc
    /\ ~ started => rpc = "top" /\ wpc = "prompt" /\ pcbFreed = {}

\* Created PCBs are the ones with a life in the list.
StateInv ==
    /\ \A p \in Created : state[p] \in {"READY", "RUNNING", "ZOMBIE"}
    /\ OneRunning

\* p's next pointer skips nothing that is still linked.
LeadsForward(p) ==
    IF next[p] = 0
    THEN \A q \in Linked : q <= p
    ELSE next[p] > p /\ \A q \in Linked : q <= p \/ next[p] <= q

PointerInv ==
    /\ \A p \in Created : next[p] \in Created /\ LeadsForward(p)
    /\ \A p \in Linked : next[p] \in Linked

\* What went back was dead, off the ring, and never the head.
FreedInv ==
    /\ pcbFreed \subseteq Created \ {0}
    /\ \A p \in Created \ Linked : state[p] = "ZOMBIE"
    /\ stackFreed = IF rpc = "pcb" THEN pcbFreed \cup {rfree} ELSE pcbFreed

\* The reaper's locals between two of its steps.
ReaperInv ==
    /\ rpc \in {"loop", "unlink", "page", "pcb"} =>
           /\ rself = Reaper
           /\ rprev \in Linked /\ rcur = next[rprev]
    /\ rpc = "unlink" => /\ rfree = rcur /\ rcur # 0 /\ rcur # current
                         /\ state[rcur] = "ZOMBIE"
    /\ rpc \in {"page", "pcb"} => rfree \in Created \ (pcbFreed \cup {0})

\* The walk has not gone past a live target.
WalkMissesNobody ==
    (wpc # "prompt" /\ wtarget \in Created /\ state[wtarget] # "ZOMBIE")
        => wcur <= wtarget

\* The shell's locals between two of its steps.
WalkInv ==
    /\ wpc # "prompt" => wcur \in Created
    /\ wpc = "kill" => wcur = wtarget /\ state[wcur] # "ZOMBIE"
    /\ WalkMissesNobody

IInv ==
    /\ TypeOK
    /\ BootInv /\ StateInv /\ PointerInv /\ FreedInv /\ ReaperInv /\ WalkInv

-----------------------------------------------------------------------------

\* schedule() looks at linked PCBs only: it starts on one, and next leads from
\* one to another.
LEMMA InspectedLinked ==
    ASSUME IInv, current # Nil, NEW st
    PROVE  Inspected(st) \subseteq Linked
<1>1. current \in Linked
    BY DEF IInv, BootInv, TypeOK
<1>2. next[current] \in Linked /\ \A p \in Linked : next[p] \in Linked
    BY <1>1 DEF IInv, PointerInv
<1>3. Linked \in SUBSET Proc
    BY NProcAssumption DEF IInv, TypeOK, Linked, Created, Proc
<1>. QED
    BY <1>2, <1>3 DEF Inspected

\* A set of linked PCBs that next does not lead out of is the whole ring. (The
\* last of its PCBs leads to the head; the first one missing from it would be
\* behind a PCB of the set that leads no further than to it.)
LEMMA ClosedIsWholeRing ==
    ASSUME IInv, nextPid > 0, NEW S \in SUBSET Linked, S # {},
           \A p \in S : next[p] \in S
    PROVE  S = Linked
<1>. USE NProcAssumption
<1>1. Linked \in SUBSET (0 .. NProc) /\ \A p \in Linked : p \in Created
    BY DEF IInv, TypeOK, Linked, Created
<1>2. 0 \in S
  <2>1. PICK m \in S : \A q \in S : q <= m
      BY <1>1, GreatestElement
  <2>2. next[m] \in S /\ LeadsForward(m)
      BY <1>1 DEF IInv, PointerInv
  <2>3. m \in 0 .. NProc /\ next[m] \in 0 .. NProc
      BY <1>1, <2>2
  <2>. QED
      BY <2>1, <2>2, <2>3 DEF LeadsForward
<1>3. ASSUME NEW a \in Linked, a \notin S PROVE FALSE
  <2>. DEFINE Missing == Linked \ S
  <2>0. Missing \in SUBSET Nat /\ a \in Missing
      BY <1>1, <1>3
  <2>1. PICK p \in Missing : \A q \in Missing : p <= q
      BY <2>0, LeastElement
  <2>. DEFINE Before == {q \in S : q < p}
  <2>2. 0 \in Before /\ Before \in SUBSET (0 .. NProc) /\ p \in 0 .. NProc
    <3>1. p \in 0 .. NProc /\ p # 0
        BY <1>1, <1>2
    <3>2. \A q \in S : q \in 0 .. NProc
        BY <1>1
    <3>3. 0 < p
        BY <3>1
    <3>4. 0 \in Before
        BY <1>2, <3>3
    <3>5. Before \in SUBSET (0 .. NProc)
        BY <3>2
    <3>. QED
        BY <3>1, <3>4, <3>5
  <2>3. PICK b \in Before : \A q \in Before : q <= b
      BY <2>2, GreatestElement
  <2>4. LeadsForward(b) /\ next[b] \in S /\ b \in S /\ b < p /\ p \in Linked
      BY <1>1 DEF IInv, PointerInv
  <2>5. next[b] > b /\ next[b] <= p /\ next[b] # p
      BY <2>2, <2>4, <1>1 DEF LeadsForward
  <2>6. next[b] \in 0 .. NProc /\ b \in 0 .. NProc
      BY <2>2, <2>4, <1>1
  <2>7. next[b] < p
      BY <2>2, <2>5, <2>6
  <2>8. next[b] \in Before
      BY <2>4, <2>7
  <2>. QED
      BY <2>3, <2>5, <2>6, <2>8
<1>. QED
    BY <1>3

\* If schedule() looked at nothing but ZOMBIEs, it looked at the whole ring.
LEMMA InspectsTheRing ==
    ASSUME IInv, current # Nil, NEW st, Candidates(st) = {}
    PROVE  Inspected(st) = Linked
<1>1. current \in Linked /\ nextPid > 0
    BY DEF IInv, BootInv, TypeOK
<1>2. Inspected(st) \subseteq Linked /\ Linked \subseteq Proc
    BY InspectedLinked, NProcAssumption DEF IInv, TypeOK, Linked, Created, Proc
<1>3. next[current] \in Inspected(st)
    BY <1>1, <1>2 DEF IInv, PointerInv, Inspected
<1>4. ASSUME NEW p \in Inspected(st) PROVE next[p] \in Inspected(st)
  <2>1. st[p] = "ZOMBIE" /\ next[p] \in Proc
      BY <1>2, <1>4 DEF Candidates, IInv, PointerInv
  <2>. QED
      BY <2>1 DEF Inspected
<1>. QED
    BY <1>1, <1>2, <1>3, <1>4, ClosedIsWholeRing

\* get_quantum gives every process at least one tick and at most four
\* (schedular.c:12-17).
LEMMA QuantumType == \A p \in Proc : Quantum(p) \in 1 .. 4
    BY ProcessAssumption DEF Quantum

\* Before the first scheduler_add the list is empty and nobody walks it.
LEMMA IInvInit == Init => IInv
<1>. SUFFICES ASSUME Init PROVE IInv
    OBVIOUS
<1>. USE NProcAssumption, ProcessAssumption DEF Init
<1>1. Created = {} /\ Linked = {}
    BY DEF Created, Linked
<1>2. TypeOK
  <2>1. next \in [Proc -> Proc \cup {Nil}] /\ ticks \in [Proc -> 0 .. 4]
      OBVIOUS
  <2>2. state \in [Proc -> ProcessState]
      BY DEF ProcessState
  <2>3. started \in BOOLEAN
      BY Zenon
  <2>. QED
      BY <2>1, <2>2, <2>3 DEF TypeOK
<1>3. BootInv /\ StateInv /\ PointerInv /\ FreedInv /\ ReaperInv /\ WalkInv
    BY <1>1 DEF BootInv, StateInv, OneRunning, PointerInv, FreedInv, ReaperInv,
                WalkInv, WalkMissesNobody
<1>. QED
    BY <1>2, <1>3 DEF IInv

-----------------------------------------------------------------------------
(***************************************************************************)
(* One lemma per action.                                                   *)
(***************************************************************************)
\* scheduler_add on an empty list leaves a ring of one (schedular.c:37-43).
LEMMA AddFirstPreserves == IInv /\ AddFirst => IInv'
<1>. SUFFICES ASSUME IInv, AddFirst PROVE IInv'
    OBVIOUS
<1>. USE NProcAssumption, ProcessAssumption
<1>1. nextPid = 0 /\ nextPid' = 1 /\ rpc = "top" /\ pcbFreed = {}
    BY DEF IInv, TypeOK, BootInv, AddFirst, Nil
<1>2. Created' = {0} /\ Linked' = {0} /\ Created = {} /\ Linked = {}
    BY <1>1 DEF Created, Linked, Detached, AddFirst, freedVars, reaperVars
<1>3. TypeOK'
    BY <1>1 DEF IInv, TypeOK, AddFirst, Proc, Nil, ProcessState, Quantum,
                freedVars, reaperVars, walkVars
<1>4. /\ next' = [next EXCEPT ![0] = 0] /\ state' = [state EXCEPT ![0] = "RUNNING"]
      /\ next'[0] = 0 /\ state'[0] = "RUNNING" /\ head' = 0 /\ current' = 0
    BY <1>1 DEF IInv, TypeOK, AddFirst, Proc
<1>5. BootInv' /\ StateInv' /\ PointerInv'
    BY <1>1, <1>2, <1>4 DEF IInv, BootInv, StateInv, PointerInv, LeadsForward,
            OneRunning, AddFirst, freedVars, reaperVars, walkVars
<1>6. FreedInv' /\ ReaperInv' /\ WalkInv'
    BY <1>1, <1>2, <1>4 DEF IInv, BootInv, FreedInv, ReaperInv, WalkInv,
            WalkMissesNobody, AddFirst, freedVars, reaperVars, walkVars
<1>. QED
    BY <1>3, <1>5, <1>6 DEF IInv

\* scheduler_add puts a PCB between the last one and the head, and leaves the ring
\* closed (schedular.c:45-57).
LEMMA AddLastPreserves == IInv /\ AddLast => IInv'
<1>. SUFFICES ASSUME IInv, AddLast PROVE IInv'
    OBVIOUS
<1>. USE NProcAssumption, ProcessAssumption
<1>1. /\ nextPid \in 1 .. NProc - 1 /\ nextPid' = nextPid + 1
      /\ rpc = "top" /\ pcbFreed = {} /\ head = 0 /\ wpc = "prompt"
    BY DEF IInv, TypeOK, BootInv, AddLast, Nil
<1>2. /\ Linked = Created /\ Created = 0 .. nextPid - 1
      /\ Linked' = Created' /\ Created' = 0 .. nextPid
    BY <1>1 DEF Created, Linked, Detached, AddLast, freedVars, reaperVars
<1>3. PICK last \in Created :
          next[last] = 0 /\ next' = [next EXCEPT ![last] = nextPid, ![nextPid] = 0]
    BY <1>1 DEF AddLast
<1>4. last = nextPid - 1
  <2>1. LeadsForward(last)
      BY DEF IInv, PointerInv
  <2>2. \A q \in Linked : q <= last
      BY <2>1, <1>3 DEF LeadsForward
  <2>3. nextPid - 1 \in Linked /\ last \in 0 .. nextPid - 1
      BY <1>1, <1>2
  <2>. QED
      BY <1>1, <2>2, <2>3
<1>5. TypeOK'
  <2>1. nextPid \in Proc /\ nextPid' \in 0 .. NProc /\ head \in Proc
      BY <1>1 DEF Proc
  <2>2. next' \in [Proc -> Proc \cup {Nil}]
      BY <1>1, <1>3, <2>1 DEF IInv, TypeOK
  <2>3. state' \in [Proc -> ProcessState] /\ ticks' \in [Proc -> 0 .. 4]
      BY <2>1, QuantumType DEF IInv, TypeOK, AddLast, ProcessState
  <2>4. started' \in BOOLEAN
      BY DEF IInv, TypeOK, AddLast
  <2>. QED
      BY <2>1, <2>2, <2>3, <2>4 DEF IInv, TypeOK, AddLast, freedVars, reaperVars, walkVars
<1>6. /\ next'[last] = nextPid /\ next'[nextPid] = 0
      /\ \A p \in Created \ {last} : next'[p] = next[p]
    BY <1>1, <1>2, <1>3, <1>4 DEF IInv, TypeOK, Proc
<1>7. PointerInv'
  <2>1. ASSUME NEW p \in Created' PROVE next'[p] \in Created' /\ LeadsForward(p)'
    <3>1. CASE p = nextPid
        BY <1>1, <1>2, <1>6, <3>1 DEF LeadsForward
    <3>2. CASE p = last
        BY <1>1, <1>2, <1>4, <1>6, <3>2 DEF LeadsForward
    <3>3. CASE p \in Created \ {last}
      <4>1. next[p] \in Created /\ LeadsForward(p) /\ last \in Linked /\ p < last
          BY <1>1, <1>2, <1>4, <3>3 DEF IInv, PointerInv
      <4>. QED
          BY <1>1, <1>2, <1>4, <1>6, <3>3, <4>1 DEF LeadsForward
    <3>. QED
        BY <1>1, <1>2, <3>1, <3>2, <3>3
  <2>. QED
      BY <1>2, <2>1 DEF PointerInv
<1>8. BootInv'
    BY <1>1, <1>2 DEF IInv, BootInv, AddLast, freedVars, reaperVars, walkVars
<1>9. StateInv'
    BY <1>1, <1>2 DEF IInv, TypeOK, Proc, BootInv, StateInv, OneRunning, AddLast
<1>10. FreedInv' /\ ReaperInv' /\ WalkInv'
    BY <1>1, <1>2 DEF IInv, BootInv, FreedInv, ReaperInv, WalkInv,
            WalkMissesNobody, AddLast, freedVars, reaperVars, walkVars
<1>. QED
    BY <1>5, <1>7, <1>8, <1>9, <1>10 DEF IInv

\* The iretq of Kernel_main touches nothing of the list (kernel.c:87-113).
LEMMA StartPreserves == IInv /\ Start => IInv'
    BY DEF IInv, TypeOK, BootInv, StateInv, OneRunning, PointerInv, LeadsForward,
           FreedInv, ReaperInv, WalkInv, WalkMissesNobody, Linked, Created, Detached,
           Start, freedVars, reaperVars, walkVars

-----------------------------------------------------------------------------
\* A tick changes neither the ring nor what was freed; a process that gets the
\* CPU is linked and alive, so it is not the reaper's victim.
LEMMA TickPreserves == IInv /\ Tick => IInv'
<1>. SUFFICES ASSUME IInv, Tick PROVE IInv'
    OBVIOUS
<1>. USE NProcAssumption, ProcessAssumption
<1>1. /\ UNCHANGED <<head, next, nextPid, started, stackFreed, pcbFreed, rpc,
                     rprev, rcur, rself, rfree, rsafety, wpc, wcur, wtarget>>
      /\ Created' = Created /\ Linked' = Linked
    BY DEF Tick, freedVars, walkVars, Created, Linked, Detached
<1>2. current \in Linked /\ current \in Proc /\ Linked \subseteq Created
      /\ Created \subseteq Proc
    BY DEF IInv, TypeOK, BootInv, Tick, Linked, Created, Proc
<1>3. \A p \in Proc : /\ Preempted[p] = "ZOMBIE" <=> state[p] = "ZOMBIE"
                      /\ p # current => Preempted[p] = state[p]
                      /\ Preempted[p] \in ProcessState
                      /\ state[p] \in {"READY", "RUNNING", "ZOMBIE"} => Preempted[p] \in {"READY", "RUNNING", "ZOMBIE"}
    BY <1>2 DEF Preempted, IInv, TypeOK, ProcessState
<1>4. /\ \A p \in Proc : state'[p] = "ZOMBIE" <=> state[p] = "ZOMBIE"
      /\ state' \in [Proc -> ProcessState]
      /\ ticks' \in [Proc -> 0 .. 4]
      /\ current' \in Linked
      /\ current' # current => state[current'] # "ZOMBIE"
      /\ StateInv'
  <2>1. CASE TickKeeps
      BY <1>1, <1>2, <2>1 DEF TickKeeps, IInv, TypeOK, StateInv, OneRunning
  <2>2. CASE TickSwitches
    <3>1. PICK q \in Candidates(Preempted) :
              /\ current' = q
              /\ state' = [Preempted EXCEPT ![q] = "RUNNING"]
              /\ ticks' = [ticks EXCEPT ![current] = 0, ![q] = Quantum(q)]
        BY <2>2 DEF TickSwitches
    <3>2. q \in Linked /\ q \in Proc /\ Preempted[q] # "ZOMBIE" /\ Quantum(q) \in 1 .. 4
      <4>1. current # Nil
          BY <1>2 DEF Nil, Proc
      <4>. QED
          BY <4>1, <3>1, <1>2, InspectedLinked, QuantumType DEF Candidates
    <3>3. DOMAIN Preempted = Proc
        BY DEF Preempted, IInv, TypeOK
    <3>4. state' \in [Proc -> ProcessState]
        BY <3>1, <3>3, <1>3 DEF ProcessState, Preempted, IInv, TypeOK
    <3>5. \A p \in Proc : state'[p] = IF p = q THEN "RUNNING" ELSE Preempted[p]
        BY <3>1, <3>3 DEF Preempted, IInv, TypeOK
    <3>6. ticks' \in [Proc -> 0 .. 4]
        BY <3>1, <3>2 DEF IInv, TypeOK
    <3>7. \A p \in Proc : p # q => Preempted[p] # "RUNNING" \/ p \notin Created
        BY <1>2 DEF Preempted, IInv, TypeOK, StateInv, OneRunning
    <3>8. StateInv'
        BY <1>1, <1>2, <1>3, <3>1, <3>2, <3>5, <3>7 DEF IInv, StateInv, OneRunning
    <3>. QED
        BY <3>1, <3>2, <3>4, <3>5, <3>6, <3>8, <1>3
  <2>3. CASE TickFindsNobody
    <3>1. current # Nil /\ Candidates(Preempted) = {}
        BY <1>2, <2>3 DEF TickFindsNobody, Nil, Proc
    <3>2. current \in Inspected(Preempted)
        BY <1>2, <3>1, InspectsTheRing
    <3>3. Preempted[current] = "ZOMBIE"
        BY <3>1, <3>2 DEF Candidates
    <3>4. /\ state' = Preempted /\ current' = current
          /\ Preempted \in [Proc -> ProcessState]
          /\ \A p \in Proc : Preempted[p] = state[p]
        BY <1>2, <1>3, <2>3, <3>3 DEF TickFindsNobody, Preempted, IInv, TypeOK,
                                      ProcessState
    <3>5. ticks' \in [Proc -> 0 .. 4]
      <4>1. ticks \in [Proc -> 0 .. 4]
          BY DEF IInv, TypeOK
      <4>2. ticks' = [ticks EXCEPT ![current] = 0]
          BY <2>3 DEF TickFindsNobody
      <4>3. ASSUME NEW p \in Proc PROVE [ticks EXCEPT ![current] = 0][p] \in 0 .. 4
          BY <4>1
      <4>. QED
          BY <4>1, <4>2, <4>3
    <3>6. \A p \in Proc : state'[p] = state[p]
        BY <3>4
    <3>7. StateInv'
        BY <1>1, <1>2, <3>4, <3>6 DEF IInv, StateInv, OneRunning
    <3>. QED
        BY <1>2, <3>4, <3>5, <3>6, <3>7
  <2>. QED
      BY <2>1, <2>2, <2>3 DEF Tick
<1>5. TypeOK'
  <2>1. rsleep' \in 0 .. SleepTicks
      BY DEF Tick, Clock, IInv, TypeOK
  <2>. QED
      BY <1>1, <1>2, <1>4, <2>1 DEF IInv, TypeOK
<1>6. BootInv'
    BY <1>1, <1>4 DEF IInv, BootInv, Tick
<1>7. PointerInv'
    BY <1>1 DEF IInv, PointerInv, LeadsForward
<1>8. FreedInv'
    BY <1>1, <1>2, <1>4 DEF IInv, FreedInv
<1>9. ReaperInv'
    BY <1>1, <1>2, <1>4 DEF IInv, ReaperInv, PointerInv
<1>10. WalkInv'
    BY <1>1, <1>2, <1>4 DEF IInv, WalkInv, WalkMissesNobody
<1>. QED
    BY <1>4, <1>5, <1>6, <1>7, <1>8, <1>9, <1>10 DEF IInv

\* process_yield changes a tick count only (schedular.c:83-88).
LEMMA YieldPreserves == IInv /\ Yield => IInv'
<1>. SUFFICES ASSUME IInv, Yield PROVE IInv'
    OBVIOUS
<1>1. /\ UNCHANGED <<head, current, next, state, nextPid, started, freedVars,
                     reaperVars, walkVars>>
      /\ ticks' \in [Proc -> 0 .. 4]
  <2>1. ticks \in [Proc -> 0 .. 4] /\ ticks' = [ticks EXCEPT ![current] = 0]
      BY DEF Yield, IInv, TypeOK
  <2>2. ASSUME NEW p \in Proc PROVE [ticks EXCEPT ![current] = 0][p] \in 0 .. 4
      BY <2>1
  <2>. QED
      BY <2>1, <2>2 DEF Yield
<1>2. Created' = Created /\ Linked' = Linked
    BY <1>1 DEF Created, Linked, Detached, freedVars, reaperVars
<1>3. TypeOK' /\ BootInv'
    BY <1>1, <1>2 DEF IInv, TypeOK, BootInv, freedVars, reaperVars, walkVars
<1>4. StateInv' /\ PointerInv'
    BY <1>1, <1>2 DEF IInv, StateInv, OneRunning, PointerInv, LeadsForward
<1>5. FreedInv' /\ ReaperInv' /\ WalkInv'
    BY <1>1, <1>2 DEF IInv, FreedInv, ReaperInv, WalkInv, WalkMissesNobody,
                      freedVars, reaperVars, walkVars
<1>. QED
    BY <1>3, <1>4, <1>5 DEF IInv

-----------------------------------------------------------------------------
\* Steps of the reaper that write to none of the shared variables.
LEMMA ReaperReadsPreserve ==
    IInv /\ (ReaperBegins \/ ReaperPasses \/ ReaperChooses \/ ReaperSleeps
             \/ ReaperWakes) => IInv'
<1>. SUFFICES ASSUME IInv, ReaperBegins \/ ReaperPasses \/ ReaperChooses
                           \/ ReaperSleeps \/ ReaperWakes
              PROVE  IInv'
    OBVIOUS
<1>. USE NProcAssumption, ProcessAssumption
<1>1. UNCHANGED <<ringVars, freedVars, walkVars>> /\ rpc # "pcb" /\ rpc' # "pcb"
      /\ rpc # "page" /\ rpc' # "page" /\ started /\ current = Reaper
    BY DEF ReaperBegins, ReaperPasses, ReaperChooses, ReaperSleeps, ReaperWakes,
           ReaperInLoop, ReaperAt
<1>2. Created' = Created /\ Linked' = Linked /\ Linked \subseteq Created
      /\ Created \subseteq Proc
    BY <1>1 DEF Created, Linked, Detached, ringVars, freedVars, IInv, TypeOK, Proc
<1>3. head = 0 /\ current \in Linked /\ nextPid = NProc
    BY <1>1 DEF IInv, BootInv
<1>4. 0 \in Linked
    BY <1>1, <1>3 DEF Linked, Created, Detached, IInv, FreedInv
<1>5. ReaperInv' /\ TypeOK'
  <2>1. CASE ReaperBegins
      BY <1>1, <1>2, <1>3, <1>4, <2>1 DEF ReaperBegins, ReaperAt, IInv, TypeOK,
         ReaperInv, PointerInv, ringVars, freedVars, walkVars
  <2>2. CASE ReaperPasses
    <3>1. rcur \in Linked /\ next[rcur] \in Linked /\ rsafety' \in 0 .. Safety
        BY <2>2 DEF ReaperPasses, ReaperInLoop, ReaperAt, IInv, TypeOK, ReaperInv, PointerInv
    <3>. QED
        BY <1>1, <1>2, <2>2, <3>1 DEF ReaperPasses, ReaperInLoop, ReaperAt, IInv,
           TypeOK, ReaperInv, ringVars, freedVars, walkVars
  <2>3. CASE ReaperChooses
    <3>1. rsafety' \in 0 .. Safety
        BY <2>3 DEF ReaperChooses, ReaperInLoop, ReaperAt, IInv, TypeOK
    <3>. QED
        BY <1>1, <1>2, <1>3, <2>3, <3>1 DEF ReaperChooses, ReaperInLoop, Reapable,
           ReaperAt, IInv, TypeOK, ReaperInv, ringVars, freedVars, walkVars
  <2>4. CASE ReaperSleeps \/ ReaperWakes
      BY <1>1, <1>2, <2>4 DEF ReaperSleeps, ReaperWakes, ReaperAt, IInv,
         TypeOK, ReaperInv, ringVars, freedVars, walkVars
  <2>. QED
      BY <2>1, <2>2, <2>3, <2>4
<1>6. BootInv' /\ StateInv' /\ PointerInv'
    BY <1>1, <1>2 DEF IInv, BootInv, StateInv, OneRunning, PointerInv, LeadsForward,
                      ringVars, freedVars, walkVars
<1>7. FreedInv' /\ WalkInv'
    BY <1>1, <1>2 DEF IInv, FreedInv, WalkInv, WalkMissesNobody, ringVars, freedVars,
                      walkVars
<1>. QED
    BY <1>5, <1>6, <1>7 DEF IInv

\* prev->next = cur->next takes exactly the victim off the ring: prev and cur are
\* still neighbours, whatever happened since they were read (schedular.c:119-123).
LEMMA ReaperUnlinksPreserves == IInv /\ ReaperUnlinks => IInv'
<1>. SUFFICES ASSUME IInv, ReaperUnlinks PROVE IInv'
    OBVIOUS
<1>. USE NProcAssumption, ProcessAssumption
<1>1. /\ UNCHANGED <<head, current, state, ticks, nextPid, started, freedVars,
                     rprev, rself, rfree, rsafety, rsleep, walkVars>>
      /\ rpc = "unlink" /\ rpc' = "page" /\ started /\ current = Reaper
      /\ next' = [next EXCEPT ![rprev] = next[rcur]]
    BY DEF ReaperUnlinks, ReaperAt
<1>2. /\ rprev \in Linked /\ rcur = next[rprev] /\ rcur \in Linked /\ rfree = rcur
      /\ rcur # 0 /\ rcur # current /\ state[rcur] = "ZOMBIE" /\ rprev < rcur
      /\ next[rcur] \in Linked /\ LeadsForward(rprev) /\ LeadsForward(rcur)
    BY <1>1 DEF IInv, ReaperInv, PointerInv, Linked, LeadsForward
<1>3. Created' = Created /\ Linked \subseteq Created /\ Created \subseteq Proc
    BY <1>1 DEF Created, Linked, IInv, TypeOK, Proc
<1>4. Linked' = Linked \ {rcur}
    BY <1>1, <1>2, <1>3 DEF Linked, Detached, freedVars
<1>5. /\ next'[rprev] = next[rcur] /\ rcur' = next[rcur]
      /\ \A p \in Proc \ {rprev} : next'[p] = next[p]
      /\ next' \in [Proc -> Proc \cup {Nil}]
    BY <1>1, <1>2, <1>3 DEF IInv, TypeOK, ReaperUnlinks
<1>6. \A p \in Created : p \in Int /\ next[p] \in Int
    BY DEF IInv, PointerInv, Created
<1>7. next[rcur] # rcur
    BY <1>2, <1>3, <1>6 DEF LeadsForward
<1>8. PointerInv'
  <2>1. ASSUME NEW p \in Created PROVE next'[p] \in Created /\ LeadsForward(p)'
    <3>1. CASE p = rprev
        BY <1>2, <1>3, <1>4, <1>5, <1>6, <3>1 DEF LeadsForward
    <3>2. CASE p # rprev
        BY <1>3, <1>4, <1>5, <3>2 DEF LeadsForward, IInv, PointerInv
    <3>. QED
        BY <3>1, <3>2
  <2>2. ASSUME NEW p \in Linked' PROVE next'[p] \in Linked'
    <3>1. CASE p = rprev
        BY <1>2, <1>4, <1>5, <1>7, <3>1
    <3>2. CASE p # rprev
      <4>1. next[p] \in Linked /\ LeadsForward(p) /\ p \in Linked
          BY <1>3, <1>4 DEF IInv, PointerInv
      <4>2. next[p] # rcur
          BY <1>2, <1>3, <1>6, <3>2, <4>1 DEF LeadsForward
      <4>. QED
          BY <1>3, <1>4, <1>5, <3>2, <4>1, <4>2
    <3>. QED
        BY <3>1, <3>2
  <2>. QED
      BY <1>3, <2>1, <2>2 DEF PointerInv
<1>9. TypeOK' /\ BootInv'
    BY <1>1, <1>2, <1>3, <1>4, <1>5 DEF IInv, TypeOK, BootInv, freedVars, walkVars
<1>10. StateInv' /\ FreedInv'
    BY <1>1, <1>2, <1>3, <1>4 DEF IInv, StateInv, OneRunning, FreedInv, freedVars
<1>11. ReaperInv'
  <2>1. rprev' \in Linked' /\ rcur' = next'[rprev'] /\ rself' = Reaper
      BY <1>1, <1>2, <1>3, <1>4, <1>5, <1>6 DEF IInv, ReaperInv
  <2>2. rfree' \in Created' \ (pcbFreed' \cup {0})
      BY <1>1, <1>2, <1>3 DEF Linked, freedVars
  <2>. QED
      BY <1>1, <2>1, <2>2 DEF ReaperInv
<1>12. WalkInv'
    BY <1>1, <1>3 DEF IInv, WalkInv, WalkMissesNobody, walkVars
<1>. QED
    BY <1>8, <1>9, <1>10, <1>11, <1>12 DEF IInv

\* Giving back the page and the PCB of a detached ZOMBIE touches nothing of the
\* ring (schedular.c:125-126).
LEMMA ReaperFreesPreserve == IInv /\ (ReaperFreesStack \/ ReaperFreesPcb) => IInv'
<1>. SUFFICES ASSUME IInv, ReaperFreesStack \/ ReaperFreesPcb PROVE IInv'
    OBVIOUS
<1>. USE NProcAssumption, ProcessAssumption
<1>1. /\ UNCHANGED <<ringVars, rprev, rcur, rself, rfree, rsafety, rsleep, walkVars>>
      /\ started
    BY DEF ReaperFreesStack, ReaperFreesPcb, ReaperAt
<1>2. Created' = Created /\ Linked' = Linked
    BY <1>1 DEF ReaperFreesStack, ReaperFreesPcb, ReaperAt, Created, Linked,
                Detached, ringVars
<1>3. rfree \in Created \ (pcbFreed \cup {0}) /\ rfree \in Proc
    BY DEF ReaperFreesStack, ReaperFreesPcb, ReaperAt, IInv, ReaperInv, Created, TypeOK, Proc
<1>4. TypeOK' /\ BootInv'
    BY <1>1, <1>2, <1>3 DEF ReaperFreesStack, ReaperFreesPcb, IInv, TypeOK, BootInv,
                            ringVars, walkVars
<1>5. StateInv' /\ PointerInv' /\ WalkInv'
    BY <1>1, <1>2 DEF IInv, StateInv, OneRunning, PointerInv, LeadsForward, WalkInv,
                      WalkMissesNobody, ringVars, walkVars
<1>6. FreedInv' /\ ReaperInv'
    BY <1>1, <1>2, <1>3 DEF ReaperFreesStack, ReaperFreesPcb, ReaperAt, IInv, FreedInv,
                            ReaperInv, ringVars
<1>. QED
    BY <1>4, <1>5, <1>6 DEF IInv

-----------------------------------------------------------------------------
\* schedular_remove starts its walk on the head (schedular.c:60-62).
LEMMA WalkBeginsPreserves == IInv /\ WalkBegins => IInv'
<1>. SUFFICES ASSUME IInv, WalkBegins PROVE IInv'
    OBVIOUS
<1>. USE NProcAssumption, ProcessAssumption
<1>1. /\ UNCHANGED <<ringVars, freedVars, reaperVars>> /\ started
      /\ wpc' = "walk" /\ wcur' = head /\ wtarget' \in Proc \cup {Nil}
    BY DEF WalkBegins, ShellAt
<1>2. Created' = Created /\ Linked' = Linked /\ head = 0 /\ 0 \in Created
    BY <1>1 DEF Created, Linked, Detached, ringVars, freedVars, reaperVars, IInv, BootInv
<1>3. TypeOK' /\ BootInv'
    BY <1>1, <1>2 DEF IInv, TypeOK, BootInv, ringVars, freedVars, reaperVars
<1>4. StateInv' /\ PointerInv'
    BY <1>1, <1>2 DEF IInv, StateInv, OneRunning, PointerInv, LeadsForward, ringVars
<1>5. FreedInv' /\ ReaperInv'
    BY <1>1, <1>2 DEF IInv, FreedInv, ReaperInv, ringVars, freedVars, reaperVars
<1>6. WalkInv'
    BY <1>1, <1>2 DEF WalkInv, WalkMissesNobody, ringVars, Created
<1>. QED
    BY <1>3, <1>4, <1>5, <1>6 DEF IInv

\* From a PCB that is linked or stale, next leads no further than to the live
\* target that is still ahead.
LEMMA WalkPassesPreserves == IInv /\ WalkPasses => IInv'
<1>. SUFFICES ASSUME IInv, WalkPasses PROVE IInv'
    OBVIOUS
<1>. USE NProcAssumption, ProcessAssumption
<1>1. /\ UNCHANGED <<ringVars, freedVars, reaperVars, wtarget>> /\ started
      /\ wpc = "walk" /\ wcur # wtarget
      /\ wcur' = next[wcur] /\ wpc' = IF next[wcur] = head THEN "prompt" ELSE "walk"
    BY DEF WalkPasses, ShellAt
<1>2. Created' = Created /\ Linked' = Linked /\ head = 0
    BY <1>1 DEF Created, Linked, Detached, ringVars, freedVars, reaperVars, IInv, BootInv
<1>3. wcur \in Created /\ next[wcur] \in Created /\ LeadsForward(wcur)
      /\ Created \subseteq Proc
    BY <1>1 DEF IInv, WalkInv, PointerInv, Created, TypeOK, Proc
<1>4. TypeOK' /\ BootInv'
    BY <1>1, <1>2, <1>3 DEF IInv, TypeOK, BootInv, ringVars, freedVars, reaperVars
<1>5. StateInv' /\ PointerInv'
    BY <1>1, <1>2 DEF IInv, StateInv, OneRunning, PointerInv, LeadsForward, ringVars
<1>6. FreedInv' /\ ReaperInv'
    BY <1>1, <1>2 DEF IInv, FreedInv, ReaperInv, ringVars, freedVars, reaperVars
<1>7. ASSUME wpc' # "prompt", wtarget \in Created, state[wtarget] # "ZOMBIE"
      PROVE  wcur' <= wtarget
  <2>1. wtarget \in Linked /\ wcur <= wtarget
      BY <1>1, <1>7 DEF IInv, FreedInv, WalkInv, WalkMissesNobody
  <2>2. wcur \in Int /\ wtarget \in Int /\ next[wcur] \in Int
      BY <1>3, <1>7 DEF Created
  <2>. QED
      BY <1>1, <1>2, <1>3, <1>7, <2>1, <2>2 DEF LeadsForward
<1>8. WalkInv'
    BY <1>1, <1>2, <1>3, <1>7 DEF WalkInv, WalkMissesNobody, ringVars
<1>. QED
    BY <1>4, <1>5, <1>6, <1>8 DEF IInv

\* The test in kill_process keeps a ZOMBIE from being killed again
\* (process.c:56-58).
LEMMA WalkMatchesPreserves == IInv /\ WalkMatches => IInv'
<1>. SUFFICES ASSUME IInv, WalkMatches PROVE IInv'
    OBVIOUS
<1>1. /\ UNCHANGED <<ringVars, freedVars, reaperVars, wcur, wtarget>> /\ started
      /\ wpc = "walk" /\ wcur = wtarget
      /\ wpc' = IF state[wcur] = "ZOMBIE" THEN "prompt" ELSE "kill"
    BY DEF WalkMatches, ShellAt
<1>2. Created' = Created /\ Linked' = Linked
    BY <1>1 DEF Created, Linked, Detached, ringVars, freedVars, reaperVars
<1>3. TypeOK' /\ BootInv'
    BY <1>1, <1>2 DEF IInv, TypeOK, BootInv, ringVars, freedVars, reaperVars
<1>4. StateInv' /\ PointerInv'
    BY <1>1, <1>2 DEF IInv, StateInv, OneRunning, PointerInv, LeadsForward, ringVars
<1>5. FreedInv' /\ ReaperInv' /\ WalkInv'
    BY <1>1, <1>2 DEF IInv, FreedInv, ReaperInv, WalkInv, WalkMissesNobody,
                      ringVars, freedVars, reaperVars
<1>. QED
    BY <1>3, <1>4, <1>5 DEF IInv

\* kill_process makes a linked PCB a ZOMBIE and leaves the ring as it is
\* (process.c:60).
LEMMA WalkKillsPreserves == IInv /\ WalkKills => IInv'
<1>. SUFFICES ASSUME IInv, WalkKills PROVE IInv'
    OBVIOUS
<1>1. /\ UNCHANGED <<head, current, next, ticks, nextPid, started, freedVars,
                     reaperVars, wcur, wtarget>>
      /\ wpc = "kill" /\ wpc' = "prompt" /\ started
      /\ state' = [state EXCEPT ![wcur] = "ZOMBIE"]
    BY DEF WalkKills, ShellAt
<1>2. Created' = Created /\ Linked' = Linked /\ Created \subseteq Proc
      /\ wcur \in Created
    BY <1>1, NProcAssumption DEF Created, Linked, Detached, freedVars, reaperVars, IInv,
             TypeOK, WalkInv, Proc
<1>3. /\ state' \in [Proc -> ProcessState]
      /\ \A p \in Proc : state'[p] = IF p = wcur THEN "ZOMBIE" ELSE state[p]
    BY <1>1, <1>2 DEF IInv, TypeOK, ProcessState
<1>4. TypeOK' /\ BootInv'
    BY <1>1, <1>2, <1>3 DEF IInv, TypeOK, BootInv, freedVars, reaperVars
<1>5. StateInv' /\ PointerInv'
    BY <1>1, <1>2, <1>3 DEF IInv, StateInv, OneRunning, PointerInv, LeadsForward
<1>6. FreedInv'
    BY <1>1, <1>2, <1>3 DEF IInv, FreedInv, freedVars, reaperVars
<1>7. ReaperInv'
    BY <1>1, <1>2, <1>3 DEF IInv, ReaperInv, PointerInv, Linked, freedVars, reaperVars
<1>8. WalkInv'
    BY <1>1 DEF WalkInv, WalkMissesNobody
<1>. QED
    BY <1>4, <1>5, <1>6, <1>7, <1>8 DEF IInv

-----------------------------------------------------------------------------
\* Every step of the boot code, the timer, the shell and the reaper keeps the
\* list whole.
LEMMA NextPreserves == IInv /\ [Next]_vars => IInv'
<1>. SUFFICES ASSUME IInv, [Next]_vars PROVE IInv'
    OBVIOUS
<1>1. CASE AddFirst
    BY <1>1, AddFirstPreserves
<1>2. CASE AddLast
    BY <1>2, AddLastPreserves
<1>3. CASE Start
    BY <1>3, StartPreserves
<1>4. CASE Tick
    BY <1>4, TickPreserves
<1>5. CASE Yield
    BY <1>5, YieldPreserves
<1>6. CASE ReaperStep
    BY <1>6, ReaperReadsPreserve, ReaperUnlinksPreserves, ReaperFreesPreserve
       DEF ReaperStep
<1>7. CASE WalkBegins
    BY <1>7, WalkBeginsPreserves
<1>8. CASE Walking
    BY <1>8, WalkPassesPreserves, WalkMatchesPreserves, WalkKillsPreserves
       DEF Walking
<1>9. CASE UNCHANGED vars
  <2>1. Created' = Created /\ Linked' = Linked
      BY <1>9 DEF Created, Linked, Detached, vars, ringVars, freedVars, reaperVars
  <2>2. TypeOK' /\ BootInv' /\ StateInv' /\ PointerInv'
      BY <1>9, <2>1 DEF IInv, TypeOK, BootInv, StateInv, OneRunning, PointerInv,
            LeadsForward, vars, ringVars, freedVars, reaperVars, walkVars
  <2>3. FreedInv' /\ ReaperInv' /\ WalkInv'
      BY <1>9, <2>1 DEF IInv, FreedInv, ReaperInv, WalkInv, WalkMissesNobody,
            vars, ringVars, freedVars, reaperVars, walkVars
  <2>. QED
      BY <2>2, <2>3 DEF IInv
<1>. QED
    BY <1>1, <1>2, <1>3, <1>4, <1>5, <1>6, <1>7, <1>8, <1>9 DEF Next

\* The inductive invariant holds in every reachable state of the process list.
THEOREM IInvInvariant == Spec => []IInv
    BY IInvInit, NextPreserves, PTL DEF Spec

\* All fields and locals hold values of their types, for every list of
\* processes Kernel_main may add.
THEOREM TypeCorrect == Spec => []TypeOK
    BY IInvInvariant, PTL DEF IInv

\* Whatever ticks fall between the reaper's steps, the linked PCBs form one
\* ring in the order of their pids (schedular.c:93-135).
THEOREM RingStaysWhole == Spec => []RingInOrder
<1>1. IInv => RingInOrder
  <2>. SUFFICES ASSUME IInv PROVE RingInOrder
      OBVIOUS
  <2>1. \A p \in Linked : p \in Created /\ head = 0
      BY NProcAssumption DEF IInv, BootInv, Linked, Created, TypeOK
  <2>. QED
      BY <2>1 DEF IInv, PointerInv, LeadsForward, RingInOrder
<1>. QED
    BY <1>1, IInvInvariant, PTL

\* The CPU never runs on a stack page that was freed or from a PCB that is off
\* the ring (schedular.c:146-185).
THEOREM CpuOnLinked == Spec => []RunsOnlyLinked
<1>1. IInv => RunsOnlyLinked
  <2>. SUFFICES ASSUME IInv PROVE RunsOnlyLinked
      OBVIOUS
  <2>1. ASSUME current # Nil PROVE current \in Linked
      BY <2>1 DEF IInv, BootInv, TypeOK
  <2>2. Linked \cap stackFreed = {}
      BY DEF IInv, FreedInv, Linked, Detached
  <2>. QED
      BY <2>1, <2>2 DEF RunsOnlyLinked
<1>. QED
    BY <1>1, IInvInvariant, PTL

\* One PCB is marked RUNNING, and it is current (schedular.c:156-180).
THEOREM OneProcessRuns == Spec => []OneRunning
    BY IInvInvariant, PTL DEF IInv, StateInv

\* taskkill comes back to the prompt only when its target is dead, although PCBs
\* are freed under its walk (schedular.c:60-70).
THEOREM WalkReachesLive == Spec => TaskkillReaches
<1>1. ASSUME IInv, Next, wpc # "prompt", wpc' = "prompt", wtarget \in Created
      PROVE  state'[wtarget] = "ZOMBIE"
  <2>1. CASE WalkPasses
    <3>1. wcur' = next[wcur] /\ next[wcur] = 0 /\ wcur # wtarget /\ wcur \in Created
        BY <1>1, <2>1 DEF WalkPasses, ShellAt, IInv, BootInv, WalkInv, Created, TypeOK
    <3>2. state' = state
        BY <2>1 DEF WalkPasses, ringVars
    <3>3. ASSUME state[wtarget] # "ZOMBIE" PROVE FALSE
      <4>1. wtarget \in Linked
          BY <1>1, <3>3 DEF IInv, FreedInv
      <4>2. wtarget <= wcur
          BY <1>1, <3>1, <4>1 DEF IInv, PointerInv, LeadsForward
      <4>3. wcur <= wtarget
          BY <1>1, <3>3 DEF IInv, WalkInv, WalkMissesNobody
      <4>. QED
          BY <1>1, <3>1, <4>2, <4>3 DEF Created, IInv, TypeOK
    <3>. QED
        BY <3>2, <3>3
  <2>2. CASE WalkMatches
      BY <1>1, <2>2 DEF WalkMatches, ringVars
  <2>3. CASE WalkKills
    <3>1. wcur = wtarget
        BY <1>1, <2>3 DEF WalkKills, ShellAt, IInv, WalkInv
    <3>2. nextPid \in 0 .. NProc /\ state \in [Proc -> ProcessState]
        BY <1>1 DEF IInv, TypeOK
    <3>3. wtarget \in Proc
        BY <1>1, <3>2, NProcAssumption DEF Created, Proc
    <3>. QED
        BY <2>3, <3>1, <3>2, <3>3 DEF WalkKills
  <2>4. CASE ~ Walking
      BY <1>1, <2>4 DEF Next, Walking, AddFirst, AddLast, Start, Tick, Yield, WalkBegins,
          ReaperStep, ReaperBegins, ReaperPasses, ReaperChooses, ReaperUnlinks,
          ReaperFreesStack, ReaperFreesPcb, ReaperSleeps, ReaperWakes, walkVars
  <2>. QED
      BY <2>1, <2>2, <2>3, <2>4 DEF Walking
<1>2. IInv /\ [Next]_vars => [WalkReaches]_vars
    BY <1>1 DEF WalkReaches
<1>. QED
    BY <1>2, IInvInvariant, PTL DEF Spec, TaskkillReaches

\* kill_process writes to linked PCBs only (process.c:56-60).
THEOREM KillHitsLinked == Spec => []KillsOnlyLinked
<1>1. IInv => KillsOnlyLinked
    BY DEF IInv, WalkInv, FreedInv, KillsOnlyLinked
<1>. QED
    BY <1>1, IInvInvariant, PTL

\* No step writes to a PCB that went back to the heap (schedular.c:123-126).
THEOREM FreedPcbsStay == Spec => FreedUntouched
<1>1. ASSUME IInv, [Next]_vars, NEW p \in pcbFreed
      PROVE  next'[p] = next[p] /\ state'[p] = state[p] /\ ticks'[p] = ticks[p]
  <2>. USE <1>1, NProcAssumption, ProcessAssumption
  <2>1. /\ p \in Created \ Linked /\ state[p] = "ZOMBIE" /\ started
        /\ p \in Proc /\ nextPid = NProc
      BY DEF IInv, FreedInv, BootInv, Linked, Created, TypeOK, Proc
  <2>2. CASE AddFirst \/ AddLast \/ Start
      BY <2>1, <2>2 DEF AddFirst, AddLast, Start
  <2>3. CASE Tick
    <3>1. current # Nil /\ current \in Linked
        BY <2>1 DEF IInv, BootInv, TypeOK, Linked, Created, Nil
    <3>2. p # current /\ next' = next /\ Preempted[p] = state[p]
      <4>1. p # current
          BY <2>1, <3>1
      <4>2. Preempted[p] = state[p]
          BY <2>1, <4>1 DEF Preempted, IInv, TypeOK
      <4>. QED
          BY <2>3, <4>1, <4>2 DEF Tick
    <3>3. Candidates(Preempted) \subseteq Linked
        BY <3>1, InspectedLinked DEF Candidates
    <3>4. DOMAIN Preempted = Proc
        BY DEF Preempted, IInv, TypeOK
    <3>5. CASE TickKeeps
        BY <2>1, <3>2, <3>5 DEF TickKeeps, IInv, TypeOK
    <3>6. CASE TickSwitches
        BY <2>1, <3>2, <3>3, <3>4, <3>6 DEF TickSwitches, IInv, TypeOK
    <3>7. CASE TickFindsNobody
        BY <2>1, <3>2, <3>7 DEF TickFindsNobody, IInv, TypeOK
    <3>. QED
        BY <2>3, <3>5, <3>6, <3>7 DEF Tick
  <2>4. CASE Yield
    <3>1. p # current
        BY <2>1 DEF IInv, BootInv
    <3>. QED
        BY <2>1, <2>4, <3>1 DEF Yield, IInv, TypeOK
  <2>5. CASE ReaperUnlinks
    <3>1. p # rprev
        BY <2>1, <2>5 DEF ReaperUnlinks, ReaperAt, IInv, ReaperInv
    <3>. QED
        BY <2>1, <2>5, <3>1 DEF ReaperUnlinks, IInv, TypeOK
  <2>6. CASE ReaperStep /\ ~ ReaperUnlinks
      BY <2>6 DEF ReaperStep, ReaperBegins, ReaperPasses, ReaperChooses, ReaperFreesStack,
                  ReaperFreesPcb, ReaperSleeps, ReaperWakes, ringVars
  <2>7. CASE WalkBegins \/ WalkPasses \/ WalkMatches
      BY <2>7 DEF WalkBegins, WalkPasses, WalkMatches, ringVars
  <2>8. CASE WalkKills
    <3>1. p # wcur
        BY <2>1, <2>8 DEF WalkKills, ShellAt, IInv, WalkInv
    <3>. QED
        BY <2>1, <2>8, <3>1 DEF WalkKills, IInv, TypeOK
  <2>9. CASE UNCHANGED vars
      BY <2>9 DEF vars, ringVars
  <2>. QED
      BY <2>2, <2>3, <2>4, <2>5, <2>6, <2>7, <2>8, <2>9 DEF Next, Walking, ReaperStep
<1>2. IInv /\ [Next]_vars => [FreedKept]_vars
    BY <1>1 DEF FreedKept
<1>. QED
    BY <1>2, IInvInvariant, PTL DEF Spec, FreedUntouched

-----------------------------------------------------------------------------
(***************************************************************************)
(* The ring implements Lifecycle.                                          *)
(***************************************************************************)
Alive == {p \in Created : state[p] # "ZOMBIE"}
Dead == {p \in Created : state[p] = "ZOMBIE"} \ stackFreed
Turn == {current} \cap Proc

\* A step that moves neither the pointers nor a state nor a page is a stutter
\* of the abstract specification.
LEMMA QuietStep ==
    UNCHANGED <<current, state, nextPid, stackFreed>>
        => UNCHANGED <<Alive, Dead, stackFreed, Turn>>
    BY DEF Alive, Dead, Turn, Created

\* scheduler_add starts a process; the first one gets the CPU.
LEMMA AddsBegin ==
    ASSUME IInv, IInv', AddFirst \/ AddLast
    PROVE  Life!Begin
<1>. USE NProcAssumption, ProcessAssumption
<1>1. /\ nextPid \in Proc /\ nextPid' = nextPid + 1 /\ stackFreed' = stackFreed
      /\ stackFreed = {} /\ Created' = Created \cup {nextPid} /\ nextPid \notin Created
      /\ Created \subseteq Proc /\ nextPid \in Nat
    BY DEF AddFirst, AddLast, IInv, TypeOK, BootInv, FreedInv, freedVars, Created, Proc
<1>2. /\ \A p \in Created : state'[p] = state[p]
      /\ state'[nextPid] \in {"RUNNING", "READY"}
    BY <1>1 DEF AddFirst, AddLast, IInv, TypeOK
<1>3. Alive' = Alive \cup {nextPid} /\ Dead' = Dead
    BY <1>1, <1>2 DEF Alive, Dead
<1>4. Turn' = IF Turn = {} THEN {nextPid} ELSE Turn
  <2>1. CASE AddFirst
    <3>1. nextPid = 0 /\ current = Nil /\ current' = nextPid
        BY <2>1 DEF AddFirst, IInv, TypeOK, BootInv, Nil
    <3>2. Nil \notin Proc
        BY DEF Nil, Proc
    <3>. QED
        BY <1>1, <3>1, <3>2 DEF Turn
  <2>2. CASE AddLast
    <3>1. current' = current /\ current \in Linked
        BY <2>2 DEF AddLast, IInv, TypeOK, BootInv
    <3>. QED
        BY <1>1, <3>1 DEF Turn, Linked
  <2>. QED
      BY <2>1, <2>2
<1>. QED
    BY <1>1, <1>3, <1>4 DEF Life!Begin, Alive, Dead, Turn

\* schedule() gives the CPU to a process that is alive, or changes nothing.
LEMMA TickDispatches ==
    ASSUME IInv, IInv', Tick
    PROVE  Life!Dispatch \/ UNCHANGED <<Alive, Dead, stackFreed, Turn>>
<1>. USE NProcAssumption, ProcessAssumption
<1>1. /\ nextPid' = nextPid /\ stackFreed' = stackFreed /\ Created' = Created
      /\ Created \subseteq Proc /\ current \in Created
    BY DEF Tick, freedVars, Created, IInv, TypeOK, BootInv, Linked, Proc
<1>2. /\ \A p \in Proc : Preempted[p] = "ZOMBIE" <=> state[p] = "ZOMBIE"
      /\ DOMAIN Preempted = Proc
    BY <1>1 DEF Preempted, IInv, TypeOK
<1>3. CASE TickKeeps
    BY <1>1, <1>3, QuietStep DEF TickKeeps
<1>4. CASE TickSwitches
  <2>1. PICK q \in Candidates(Preempted) :
            current' = q /\ state' = [Preempted EXCEPT ![q] = "RUNNING"]
      BY <1>4 DEF TickSwitches
  <2>2. q \in Proc /\ Preempted[q] # "ZOMBIE"
      BY <2>1 DEF Candidates, Inspected
  <2>3. \A p \in Proc : state'[p] = "ZOMBIE" <=> state[p] = "ZOMBIE"
      BY <1>2, <2>1, <2>2
  <2>4. Alive' = Alive /\ Dead' = Dead /\ Turn' = {q}
      BY <1>1, <2>1, <2>2, <2>3 DEF Alive, Dead, Turn
  <2>5. q \in Alive
    <3>1. current # Nil
        BY <1>1 DEF Nil, Created, IInv, TypeOK
    <3>2. q \in Created
        BY <2>1, <3>1, InspectedLinked DEF Candidates, Linked
    <3>. QED
        BY <1>2, <2>2, <3>2 DEF Alive
  <2>. QED
      BY <1>1, <2>4, <2>5 DEF Life!Dispatch, Alive, Dead, Turn
<1>5. CASE TickFindsNobody
  <2>1. state' = Preempted /\ current' = current
      BY <1>5 DEF TickFindsNobody
  <2>. QED
      BY <1>1, <1>2, <2>1 DEF Alive, Dead, Turn
<1>. QED
    BY <1>3, <1>4, <1>5 DEF Tick

\* The reaper frees the stack of a dead process that is not on the CPU.
LEMMA FreeReclaims ==
    ASSUME IInv, ReaperFreesStack
    PROVE  Life!Reclaim
<1>1. /\ UNCHANGED <<state, nextPid, current>> /\ stackFreed' = stackFreed \cup {rfree}
      /\ rpc = "page" /\ current = Reaper /\ started
    BY DEF ReaperFreesStack, ReaperAt, ringVars
<1>2. /\ rfree \in Created \ Linked /\ stackFreed = pcbFreed /\ rfree \notin pcbFreed
      /\ state[rfree] = "ZOMBIE" /\ current \in Linked
    BY <1>1, NProcAssumption DEF IInv, BootInv, FreedInv, ReaperInv, Linked, Detached
<1>3. rfree \in Dead \ Turn
    BY <1>2 DEF Dead, Turn
<1>4. Alive' = Alive /\ Dead' = Dead \ {rfree} /\ Turn' = Turn
    BY <1>1, <1>2 DEF Alive, Dead, Turn, Created
<1>. QED
    BY <1>1, <1>3, <1>4 DEF Life!Reclaim, Alive, Dead, Turn

\* kill_process ends the life of a process that was alive.
LEMMA KillKills ==
    ASSUME IInv, WalkKills
    PROVE  Life!Kill
<1>1. /\ UNCHANGED <<current, nextPid, stackFreed>> /\ Created' = Created
      /\ state' = [state EXCEPT ![wcur] = "ZOMBIE"]
      /\ wcur \in Created /\ state[wcur] # "ZOMBIE" /\ wcur \notin stackFreed
    BY DEF WalkKills, ShellAt, IInv, WalkInv, FreedInv, ReaperInv, Created, Linked,
           Detached, freedVars
<1>2. \A p \in Created : state'[p] = IF p = wcur THEN "ZOMBIE" ELSE state[p]
    BY <1>1, NProcAssumption DEF IInv, TypeOK, Created, Proc
<1>3. /\ wcur \in Alive /\ Alive' = Alive \ {wcur}
      /\ Dead' = Dead \cup {wcur} /\ Turn' = Turn
    BY <1>1, <1>2 DEF Alive, Dead, Turn
<1>. QED
    BY <1>1, <1>3 DEF Life!Kill, Alive, Dead, Turn

\* Every behaviour of the list is a behaviour of Lifecycle: only live processes
\* are dispatched, only dead ones off the CPU reclaimed, and death is for good.
THEOREM Refinement == Spec => IsLifecycle
<1>1. Init => Life!Init
  <2>. SUFFICES ASSUME Init PROVE Life!Init
      OBVIOUS
  <2>1. Created = {} /\ stackFreed = {} /\ current \notin Proc
      BY NProcAssumption DEF Init, Created, Nil, Proc
  <2>. QED
      BY <2>1 DEF Life!Init
<1>2. IInv /\ IInv' /\ [Next]_vars => [Life!Next]_(Life!lifeVars)
  <2>. SUFFICES ASSUME IInv, IInv', [Next]_vars
                PROVE  Life!Next \/ UNCHANGED <<Alive, Dead, stackFreed, Turn>>
      BY DEF Life!lifeVars, Alive, Dead, Turn
  <2>1. CASE AddFirst \/ AddLast
      BY <2>1, AddsBegin DEF Life!Next
  <2>2. CASE Tick
      BY <2>2, TickDispatches DEF Life!Next
  <2>3. CASE ReaperFreesStack
      BY <2>3, FreeReclaims DEF Life!Next
  <2>4. CASE WalkKills
      BY <2>4, KillKills DEF Life!Next
  <2>5. CASE Start \/ Yield \/ WalkBegins \/ WalkPasses \/ WalkMatches
      BY <2>5, QuietStep DEF Start, Yield, WalkBegins, WalkPasses, WalkMatches,
                             ringVars, freedVars
  <2>6. CASE ReaperStep /\ ~ ReaperFreesStack
      BY <2>6, QuietStep DEF ReaperStep, ReaperBegins, ReaperPasses, ReaperChooses,
          ReaperUnlinks, ReaperFreesPcb, ReaperSleeps, ReaperWakes, ringVars, freedVars
  <2>7. CASE UNCHANGED vars
      BY <2>7, QuietStep DEF vars, ringVars, freedVars
  <2>. QED
      BY <2>1, <2>2, <2>3, <2>4, <2>5, <2>6, <2>7 DEF Next, Walking
<1>. QED
    BY <1>1, <1>2, IInvInvariant, PTL DEF Spec, IsLifecycle, Life!Spec

-----------------------------------------------------------------------------
(* How long a process waits for its turn.                                   *)

\* A function given by its first value and a step that knows the pass.
Goes(r, m, n, b, G) == r[m] = b /\ \A i \in m + 1 .. n : r[i] = G[i][r[i - 1]]

\* There is one: the quanta can be added up.
LEMMA Recursion ==
    ASSUME NEW S, NEW b \in S, NEW G \in [Int -> [S -> S]], NEW m \in Int, NEW n \in Int, m <= n
    PROVE  \E r \in [m .. n -> S] : Goes(r, m, n, b, G)
<1>. DEFINE Upto(k) == \E r \in [m .. m + k -> S] : Goes(r, m, m + k, b, G)
<1>1. Upto(0)
    <2>. DEFINE q == [i \in m .. m + 0 |-> b]
    <2>1. q \in [m .. m + 0 -> S] /\ q[m] = b /\ \A i \in m + 1 .. m + 0 : FALSE
        OBVIOUS
    <2>2. Goes(q, m, m + 0, b, G)
        BY <2>1 DEF Goes
    <2>. QED
        BY <2>1, <2>2
<1>2. ASSUME NEW k \in Nat, Upto(k) PROVE Upto(k + 1)
    <2>1. PICK r \in [m .. m + k -> S] : Goes(r, m, m + k, b, G)
        BY <1>2
    <2>. DEFINE z == m + k + 1
                q == [i \in m .. z |-> IF i = z THEN G[z][r[m + k]] ELSE r[i]]
    <2>0. /\ z \in Int /\ z = m + (k + 1) /\ z - 1 = m + k /\ m + k \in m .. m + k
          /\ z \in m .. z /\ m \in m .. z /\ m # z /\ m + k # z /\ m + k \in m .. z
          /\ \A i \in m .. z : i # z => i \in m .. m + k
        OBVIOUS
    <2>. HIDE DEF z
    <2>2. q \in [m .. z -> S]
        BY <2>0
    <2>3. q[m] = b /\ q[z] = G[z][q[z - 1]]
        BY <2>0, <2>1 DEF Goes
    <2>4. ASSUME NEW i \in m + 1 .. z, i # z PROVE q[i] = G[i][q[i - 1]]
        <3>1. /\ i \in m + 1 .. m + k /\ i \in m .. z /\ i - 1 \in m .. z /\ i - 1 # z
            BY <2>0, <2>4 DEF z
        <3>2. q[i] = r[i] /\ q[i - 1] = r[i - 1]
            BY <2>4, <3>1
        <3>. QED
            BY <2>1, <3>1, <3>2 DEF Goes
    <2>. HIDE DEF q
    <2>5. \A i \in m + 1 .. z : q[i] = G[i][q[i - 1]]
        BY <2>3, <2>4
    <2>. QED
        BY <2>0, <2>2, <2>3, <2>5 DEF Goes
<1>3. Upto(n - m)
    <2>. DEFINE T == {k \in Nat : ~ Upto(k)}
    <2>. SUFFICES ASSUME ~ Upto(n - m) PROVE FALSE
        OBVIOUS
    <2>. HIDE DEF Upto
    <2>1. PICK k \in T : \A j \in T : k <= j
        <3>1. n - m \in T
            OBVIOUS
        <3>. QED
            BY <3>1, LeastElement
    <2>2. k # 0 /\ k - 1 \in Nat /\ k - 1 + 1 = k /\ ~ (k <= k - 1)
        BY <1>1
    <2>3. Upto(k - 1)
        BY <2>1, <2>2
    <2>4. Upto(k - 1 + 1)
        BY <1>2, <2>2, <2>3
    <2>. QED
        BY <2>2, <2>4
<1>4. m + (n - m) = n
    OBVIOUS
<1>. QED
    BY <1>3, <1>4

\* The turns of the first n processes, one more at a time (get_quantum).
LEMMA TurnsSum ==
    /\ Turns(0) = 0 /\ \A n \in 0 .. NProc : Turns(n) \in Nat
    /\ \A n \in Proc : Turns(n + 1) = Turns(n) + Quantum(n)
<1>. DEFINE G == [n \in Int |-> [s \in Nat |-> IF n \in 1 .. NProc THEN s + Quantum(n - 1) ELSE s]]
            Eq(q) == q = [k \in 0 .. NProc |-> IF k = 0 THEN 0 ELSE q[k - 1] + Quantum(k - 1)]
<1>0. NProc \in Nat /\ 0 \in Int /\ NProc \in Int /\ 0 <= NProc /\ 0 \in Nat
    BY NProcAssumption
<1>1. ASSUME NEW s \in Nat, NEW n \in 1 .. NProc PROVE s + Quantum(n - 1) \in Nat
    <2>1. n - 1 \in Proc
        BY <1>0 DEF Proc
    <2>2. Quantum(n - 1) \in Nat
        BY <2>1, QuantumType
    <2>. QED
        BY <2>2
<1>2. G \in [Int -> [Nat -> Nat]]
    BY <1>1
<1>. HIDE DEF G
<1>3. PICK r \in [0 .. NProc -> Nat] :
          r[0] = 0 /\ \A n \in 1 .. NProc : r[n] = r[n - 1] + Quantum(n - 1)
    <2>1. PICK g \in [Int -> [Nat -> Nat]] : g = G
        BY <1>2, Zenon
    <2>0. PICK S, m, z, b : S = Nat /\ m = 0 /\ z = NProc /\ b = 0
        OBVIOUS
    <2>5. b \in S /\ g \in [Int -> [S -> S]] /\ m \in Int /\ z \in Int /\ m <= z
        BY <1>0, <2>0, <2>1
    <2>6. \E r \in [m .. z -> S] : Goes(r, m, z, b, g)
        BY ONLY <2>5, Recursion
    <2>2. PICK r \in [0 .. NProc -> Nat] : Goes(r, 0, NProc, 0, g)
        BY <2>0, <2>6
    <2>3. \A n \in 1 .. NProc : n \in Int /\ n \in 0 + 1 .. NProc /\ r[n - 1] \in Nat
        <3>1. ASSUME NEW n \in 1 .. NProc
              PROVE  n \in Int /\ n \in 0 + 1 .. NProc /\ n - 1 \in 0 .. NProc
            BY <1>0
        <3>. QED
            BY <3>1
    <2>4. \A n \in 1 .. NProc : G[n][r[n - 1]] = r[n - 1] + Quantum(n - 1)
        BY <2>3 DEF G
    <2>. QED
        BY <2>1, <2>2, <2>3, <2>4 DEF Goes
<1>4. Eq(r)
    BY <1>0, <1>3
<1>5. PICK t : Eq(t) /\ \A n : Turns(n) = t[n]
    BY <1>4, Zenon DEF Turns
<1>6. t[0] = 0 /\ \A n \in 1 .. NProc : t[n] = t[n - 1] + Quantum(n - 1)
    BY <1>0, <1>5
<1>. HIDE DEF Eq
<1>7. \A n \in 0 .. NProc : t[n] \in Nat
    <2>. DEFINE Wrong == {n \in Nat : n <= NProc /\ t[n] \notin Nat}
    <2>. SUFFICES ASSUME Wrong # {} PROVE FALSE
        BY <1>0
    <2>1. PICK n \in Wrong : \A m \in Wrong : n <= m
        BY LeastElement
    <2>2. n # 0
        BY <1>6
    <2>3. n \in 1 .. NProc /\ n - 1 \in Nat /\ n - 1 <= NProc /\ ~ (n <= n - 1)
        BY <1>0, <2>2
    <2>4. t[n - 1] \in Nat
        BY <2>1, <2>3
    <2>5. t[n] \in Nat
        BY <1>1, <1>6, <2>3, <2>4
    <2>. QED
        BY <2>5
<1>8. \A n \in Proc : n + 1 \in 1 .. NProc /\ n + 1 - 1 = n
    BY <1>0 DEF Proc
<1>9. \A n \in Proc : t[n + 1] = t[n] + Quantum(n)
    <2>1. ASSUME NEW n \in Proc PROVE t[n + 1] = t[n] + Quantum(n)
        <3>1. PICK k : k = n + 1
            OBVIOUS
        <3>2. k \in 1 .. NProc /\ k - 1 = n
            BY <1>0, <1>8, <2>1, <3>1 DEF Proc
        <3>3. t[k] = t[k - 1] + Quantum(k - 1)
            BY <1>6, <3>2
        <3>. QED
            BY <3>1, <3>2, <3>3
    <2>. QED
        BY <2>1
<1>. QED
    BY ONLY <1>5, <1>6, <1>7, <1>9

\* More processes have no fewer ticks.
LEMMA TurnsGrow ==
    ASSUME NEW a \in 0 .. NProc, NEW b \in 0 .. NProc, a <= b
    PROVE  Turns(a) <= Turns(b)
<1>0. NProc \in Nat /\ a \in Nat /\ b \in Nat
    BY NProcAssumption
<1>. DEFINE Wrong == {n \in Nat : a <= n /\ n <= NProc /\ ~ (Turns(a) <= Turns(n))}
<1>. SUFFICES ASSUME Wrong # {} PROVE FALSE
    BY <1>0
<1>1. PICK n \in Wrong : \A m \in Wrong : n <= m
    BY LeastElement
<1>2. Turns(a) \in Nat /\ Turns(n) \in Nat
    BY <1>0, TurnsSum
<1>3. n # a
    BY <1>2
<1>4. PICK m : m = n - 1
    OBVIOUS
<1>5. m \in Nat /\ a <= m /\ m <= NProc /\ ~ (n <= m) /\ m \in Proc /\ m + 1 = n /\ m \in 0 .. NProc
    BY <1>0, <1>3, <1>4 DEF Proc
<1>6. Turns(a) <= Turns(m)
    BY <1>1, <1>5
<1>7. Turns(n) = Turns(m) + Quantum(m) /\ Turns(m) \in Nat /\ Quantum(m) \in Nat
    <2>1. Turns(m + 1) = Turns(m) + Quantum(m) /\ Turns(m) \in Nat
        BY <1>5, TurnsSum
    <2>2. Quantum(m) \in Nat
        BY <1>5, QuantumType
    <2>. QED
        BY <1>5, <2>1, <2>2
<1>8. Turns(a) <= Turns(n)
    BY <1>2, <1>6, <1>7
<1>. QED
    BY <1>8

-----------------------------------------------------------------------------

\* The ticks of the turns that lie, in the order of the ring, between p and c:
\* those p has waited for when c is dispatched.
Ahead(p, c) ==
    IF p < c THEN Turns(c) - Turns(p + 1)
             ELSE (Turns(NProc) - Turns(p + 1)) + Turns(c)

\* The ticks until schedule() looks for another process: a turn whose ticks are
\* used up still ends only with the next one.
Left == IF ticks[current] > 1 THEN ticks[current] ELSE 1

\* What p has waited, and what it still has to wait for the one that is running,
\* is no more than the turns since its own, that one included, and the tick that
\* took the CPU from it.
Waits(p) == waited[p] + Left <= Ahead(p, current) + Quantum(current) + 1

TurnsInv ==
    /\ waited \in [Proc -> Nat]
    /\ ~ started => \A p \in Proc : waited[p] = 0
    /\ current \in Proc =>
           /\ waited[current] = 0 /\ ticks[current] <= Quantum(current)
           /\ \A p \in Proc : state[p] = "READY" /\ p # current => Waits(p)
    /\ WaitIsBounded

\* The sums that Ahead and WaitIsBounded are made of.
LEMMA TurnsFacts ==
    ASSUME NEW p \in Proc
    PROVE  /\ Turns(p) \in Nat /\ Turns(p + 1) = Turns(p) + Quantum(p)
           /\ Turns(p + 1) <= Turns(NProc) /\ Turns(NProc) \in Nat
           /\ Quantum(p) \in 1 .. 4
           /\ \A q \in Proc : p < q => Turns(p + 1) <= Turns(q)
<1>0. NProc \in Nat /\ p \in 0 .. NProc /\ p + 1 \in 0 .. NProc /\ NProc \in 0 .. NProc
      /\ p + 1 <= NProc /\ \A q \in Proc : q \in 0 .. NProc /\ (p < q => p + 1 <= q)
    BY NProcAssumption DEF Proc
<1>1. PICK m : m = p + 1
    OBVIOUS
<1>2. Turns(m) <= Turns(NProc)
    BY ONLY <1>0, <1>1, TurnsGrow
<1>3. \A q \in Proc : p < q => Turns(m) <= Turns(q)
    BY <1>0, <1>1, TurnsGrow
<1>. QED
    BY <1>0, <1>1, <1>2, <1>3, TurnsSum, QuantumType

\* Nobody's turns go missing: between p's turn and c's lie no negative number of
\* ticks, and with c's own no more than one turn of everybody but p.
LEMMA AheadBounded ==
    ASSUME NEW p \in Proc, NEW c \in Proc, p # c
    PROVE  /\ Ahead(p, c) \in Nat
           /\ Ahead(p, c) + Quantum(c) <= Turns(NProc) - Quantum(p)
<1>0. p \in Int /\ c \in Int
    BY NProcAssumption DEF Proc
<1>1. /\ Turns(p) \in Nat /\ Turns(p + 1) = Turns(p) + Quantum(p)
      /\ Turns(p + 1) <= Turns(NProc) /\ Turns(NProc) \in Nat
      /\ Quantum(p) \in 1 .. 4 /\ (p < c => Turns(p + 1) <= Turns(c))
    BY TurnsFacts
<1>2. /\ Turns(c) \in Nat /\ Turns(c + 1) = Turns(c) + Quantum(c)
      /\ Turns(c + 1) <= Turns(NProc)
      /\ Quantum(c) \in 1 .. 4 /\ (c < p => Turns(c + 1) <= Turns(p))
    BY TurnsFacts
<1>3. CASE p < c
    BY <1>1, <1>2, <1>3 DEF Ahead
<1>4. CASE c < p
    BY <1>0, <1>1, <1>2, <1>4 DEF Ahead
<1>. QED
    BY <1>0, <1>3, <1>4

\* When the CPU goes from c to q and does not pass p on the way, q's turn comes
\* after c's for p.
LEMMA AheadGrows ==
    ASSUME NEW p \in Proc, NEW c \in Proc, NEW q \in Proc,
           (c < q /\ q < p) \/ (q < p /\ p < c) \/ (p < c /\ c < q)
    PROVE  Ahead(p, c) + Quantum(c) <= Ahead(p, q)
<1>0. p \in Int /\ c \in Int /\ q \in Int
    BY NProcAssumption DEF Proc
<1>1. /\ Turns(p) \in Nat /\ Turns(p + 1) = Turns(p) + Quantum(p)
      /\ Turns(p + 1) <= Turns(NProc) /\ Turns(NProc) \in Nat /\ Quantum(p) \in 1 .. 4
    BY TurnsFacts
<1>2. /\ Turns(c) \in Nat /\ Turns(c + 1) = Turns(c) + Quantum(c)
      /\ Turns(c + 1) <= Turns(NProc)
      /\ Quantum(c) \in 1 .. 4 /\ (c < q => Turns(c + 1) <= Turns(q))
    BY TurnsFacts
<1>3. Turns(q) \in Nat
    BY TurnsFacts
<1>4. CASE c < q /\ q < p
    BY <1>0, <1>1, <1>2, <1>3, <1>4 DEF Ahead
<1>5. CASE q < p /\ p < c
    BY <1>0, <1>1, <1>2, <1>3, <1>5 DEF Ahead
<1>6. CASE p < c /\ c < q
    BY <1>0, <1>1, <1>2, <1>3, <1>6 DEF Ahead
<1>. QED
    BY <1>4, <1>5, <1>6

\* schedule() does not pass a READY process: the PCBs it looks at lie between the
\* one that was running and the first that is READY, in the order of the ring
\* (schedular.c:160-171).
LEMMA PassesNobody ==
    ASSUME IInv, started, NEW c, c = current, NEW p \in Proc, state[p] = "READY", p # c,
           NEW q \in Candidates(Preempted), q # p
    PROVE  (c < q /\ q < p) \/ (q < p /\ p < c) \/ (p < c /\ c < q)
<1>. USE NProcAssumption
<1>. DEFINE Between(x) == (c < x /\ x <= p) \/ (x <= p /\ p < c) \/ (p < c /\ c < x)
            S == {x \in Linked : Between(x)}
<1>1. nextPid = NProc /\ Created = Proc
    BY DEF IInv, BootInv, Created, Proc
<1>2. c \in Linked /\ p \in Linked /\ Linked \subseteq Proc /\ c \in Nat /\ p \in Nat
    BY <1>1 DEF IInv, BootInv, FreedInv, TypeOK, Linked, Proc
<1>3. \A x \in Linked : next[x] \in Linked /\ LeadsForward(x) /\ x \in Nat /\ next[x] \in Nat
    BY <1>1, <1>2 DEF IInv, PointerInv, Proc
<1>4. next[c] \in S
    BY <1>2, <1>3 DEF LeadsForward
<1>5. Preempted[p] # "ZOMBIE"
    BY <1>2 DEF Preempted, IInv, TypeOK
<1>6. ASSUME NEW x \in S, Preempted[x] = "ZOMBIE" PROVE next[x] \in S
    <2>1. x \in Linked /\ Between(x) /\ x # p
        BY <1>5, <1>6
    <2>2. next[x] \in Linked /\ LeadsForward(x) /\ x \in Nat /\ next[x] \in Nat
        BY <1>3, <2>1
    <2>3. IF next[x] = 0 THEN p <= x ELSE next[x] > x /\ (p <= x \/ next[x] <= p)
        BY <1>2, <2>2 DEF LeadsForward
    <2>4. Between(next[x])
        BY <1>2, <2>1, <2>2, <2>3
    <2>. QED
        BY <2>2, <2>4
<1>7. S \in SUBSET Proc
    BY <1>2
<1>. HIDE DEF S
<1>8. q \in S
    BY <1>4, <1>6, <1>7 DEF Candidates, Inspected
<1>9. Between(q) /\ q \in Int
    BY <1>2, <1>3, <1>8 DEF S
<1>. QED
    BY <1>2, <1>9

\* Before the first tick nobody has waited.
LEMMA TurnsInvInit == TurnsInit => TurnsInv
<1>. SUFFICES ASSUME TurnsInit PROVE TurnsInv
    OBVIOUS
<1>1. /\ current \notin Proc /\ ~ started
      /\ waited = [p \in Proc |-> 0] /\ \A p \in Proc : state[p] = "NONE"
    BY NProcAssumption DEF TurnsInit, Init, Nil, Proc
<1>2. \A p \in Proc : 0 <= Turns(NProc) - Quantum(p)
  <2>1. ASSUME NEW p \in Proc PROVE 0 <= Turns(NProc) - Quantum(p)
      BY TurnsFacts
  <2>. QED
      BY <2>1
<1>. QED
    BY <1>1, <1>2 DEF TurnsInv, WaitIsBounded

\* While the boot code fills the list nobody waits: what is running has at most
\* the ticks of its turn.
LEMMA BootTurns ==
    ASSUME TurnsInv, TypeOK', ~ started, UNCHANGED waited,
           current' \in Proc => ticks'[current'] <= Quantum(current')
    PROVE  TurnsInv'
<1>1. waited' \in [Proc -> Nat] /\ \A p \in Proc : waited'[p] = 0
    BY DEF TurnsInv
<1>2. ASSUME NEW p \in Proc, current' \in Proc, p # current' PROVE Waits(p)'
  <2>1. PICK c : c = current'
      OBVIOUS
  <2>2. ticks'[c] \in 0 .. 4 /\ Quantum(c) \in 1 .. 4 /\ Ahead(p, c) \in Nat /\ ticks'[c] <= Quantum(c)
      BY <1>2, <2>1, AheadBounded, QuantumType DEF TypeOK
  <2>. QED
      BY <1>1, <2>1, <2>2 DEF Waits, Left, Ahead
<1>. QED
    BY <1>1, <1>2 DEF TurnsInv, WaitIsBounded

\* A step that is not a tick leaves the CPU where it is; it may end a turn early,
\* and it makes nobody READY.
LEMMA QuietTurns ==
    ASSUME IInv, TurnsInv, UNCHANGED <<current, started, waited>>,
           current \in Proc => ticks'[current] = ticks[current] \/ ticks'[current] = 0,
           \A p \in Proc : state'[p] = "READY" => state[p] = "READY"
    PROVE  TurnsInv'
<1>1. ASSUME current \in Proc
      PROVE  ticks'[current] <= Quantum(current) /\ Left' \in Int /\ Left' <= Left /\ Left \in Int
  <2>1. ticks[current] \in 0 .. 4 /\ Quantum(current) \in 1 .. 4 /\ current' = current
        /\ (ticks'[current] = ticks[current] \/ ticks'[current] = 0)
      BY <1>1, QuantumType DEF IInv, TypeOK
  <2>. QED
      BY <1>1, <2>1 DEF TurnsInv, Left
<1>2. ASSUME current \in Proc, NEW p \in Proc, state'[p] = "READY", p # current
      PROVE  Waits(p)'
  <2>1. PICK c : c = current
      OBVIOUS
  <2>2. /\ Waits(p) /\ c \in Proc /\ waited[p] \in Nat /\ waited'[p] = waited[p] /\ c = current'
        /\ Ahead(p, c) \in Nat /\ Quantum(c) \in 1 .. 4
      BY <1>2, <2>1, AheadBounded, QuantumType DEF TurnsInv
  <2>. QED
      BY <1>1, <1>2, <2>1, <2>2 DEF Waits, Ahead
<1>. QED
    BY <1>1, <1>2 DEF TurnsInv, WaitIsBounded

\* Who expects its turn in that time has not waited longer than a turn of each
\* of the others.
LEMMA WaitsBounded ==
    ASSUME NEW p \in Proc, NEW c \in Proc, p # c, NEW w \in Nat, NEW l \in Nat, l >= 1,
           w + l <= Ahead(p, c) + Quantum(c) + 1
    PROVE  w <= Turns(NProc) - Quantum(p)
<1>1. /\ Ahead(p, c) \in Nat /\ Ahead(p, c) + Quantum(c) <= Turns(NProc) - Quantum(p)
      /\ Quantum(c) \in 1 .. 4 /\ Quantum(p) \in 1 .. 4 /\ Turns(NProc) \in Nat
    BY AheadBounded, TurnsFacts
<1>. QED
    BY <1>1

\* A tick: who is READY has waited one more; a turn that goes on has one tick less
\* to go, and a turn that starts comes after the one that ended for everyone whom
\* schedule() did not pass (schedular.c:146-181).
LEMMA TickTurns ==
    ASSUME IInv, TypeOK', TurnsInv, CountedTick
    PROVE  TurnsInv'
<1>. USE NProcAssumption
<1>1. PICK c : c = current
    OBVIOUS
<1>2. /\ c \in Proc /\ c \in Linked /\ started /\ started' /\ current # Nil
      /\ \A p \in Proc : state[p] \in ProcessState
      /\ ticks[c] \in 0 .. 4 /\ Quantum(c) \in 1 .. 4 /\ ticks[c] <= Quantum(c) /\ waited[c] = 0
    BY <1>1, QuantumType DEF CountedTick, Tick, IInv, TypeOK, BootInv, Linked, Created, Proc, Nil, TurnsInv
<1>3. \A p \in Proc : waited'[p] = IF p # current' /\ state'[p] = "READY" THEN waited[p] + 1 ELSE 0
    BY DEF CountedTick
<1>4. waited' \in [Proc -> Nat] /\ \A p \in Proc : waited[p] \in Nat
    <2>1. \A p \in Proc : waited[p] \in Nat
        BY DEF TurnsInv
    <2>2. \A p \in Proc : waited'[p] \in Nat
        BY <1>3, <2>1
    <2>3. waited' = [p \in Proc |-> waited'[p]]
        BY DEF CountedTick
    <2>. QED
        BY <2>1, <2>2, <2>3
<1>5. \A p \in Proc : p # c => (Preempted[p] = state[p])
    BY <1>1, <1>2 DEF Preempted, IInv, TypeOK
\* What is left to show: the turn that goes on or starts is no longer than its
\* quantum, and no longer than everyone who is READY expects.
<1>6. ASSUME current' \in Proc, ticks'[current'] <= Quantum(current'),
             \A p \in Proc : state'[p] = "READY" /\ p # current' => Waits(p)'
      PROVE  TurnsInv'
    <2>1. PICK d : d = current'
        OBVIOUS
    <2>2. PICK l : l = Left'
        OBVIOUS
    <2>3. l \in Nat /\ l >= 1
        BY <1>6, <2>1, <2>2 DEF Left, TypeOK
    <2>4. ASSUME NEW p \in Proc PROVE waited'[p] <= Turns(NProc) - Quantum(p)
        <3>1. CASE p # d /\ state'[p] = "READY"
            <4>1. PICK w : w = waited'[p]
                OBVIOUS
            <4>2. w \in Nat /\ w + l <= Ahead(p, d) + Quantum(d) + 1 /\ d \in Proc
                BY <1>4, <1>6, <2>1, <2>2, <3>1, <4>1 DEF Waits, Ahead
            <4>3. w <= Turns(NProc) - Quantum(p)
                BY <2>3, <3>1, <4>2, WaitsBounded
            <4>. QED
                BY <4>1, <4>3
        <3>2. CASE ~ (p # d /\ state'[p] = "READY")
            <4>1. waited'[p] = 0
                BY <1>3, <2>1, <3>2
            <4>2. Turns(p + 1) <= Turns(NProc) /\ Turns(NProc) \in Nat /\ Quantum(p) \in 1 .. 4
                  /\ Turns(p + 1) = Turns(p) + Quantum(p) /\ Turns(p) \in Nat
                BY TurnsFacts
            <4>. QED
                BY <4>1, <4>2
        <3>. QED
            BY <3>1, <3>2
    <2>5. waited'[current'] = 0
        BY <1>3, <1>6
    <2>. QED
        BY <1>2, <1>4, <1>6, <2>4, <2>5 DEF TurnsInv, WaitIsBounded
<1>7. CASE TickKeeps
    <2>1. /\ current' = c /\ ticks[c] > 1 /\ ticks'[c] = ticks[c] - 1 /\ state' = state
        BY <1>1, <1>2, <1>7 DEF TickKeeps, IInv, TypeOK
    <2>2. Left \in Int /\ Left' \in Int /\ Left' + 1 = Left
        BY <1>1, <1>2, <2>1 DEF Left
    <2>3. ASSUME NEW p \in Proc, state'[p] = "READY", p # current' PROVE Waits(p)'
        <3>1. /\ waited[p] + Left <= Ahead(p, c) + Quantum(c) + 1
              /\ Ahead(p, c) \in Nat /\ waited[p] \in Nat
            BY <1>1, <1>2, <1>4, <2>1, <2>3, AheadBounded DEF TurnsInv, Waits
        <3>2. waited'[p] = waited[p] + 1
            BY <1>3, <2>3
        <3>3. PICK w, l, a, k : w = waited[p] /\ l = Left' /\ a = Ahead(p, c) /\ k = Quantum(c)
            OBVIOUS
        <3>4. w \in Nat /\ l \in Int /\ a \in Nat /\ k \in 1 .. 4 /\ w + (l + 1) <= a + k + 1
            BY <1>2, <2>2, <3>1, <3>3
        <3>5. (w + 1) + l <= a + k + 1
            BY ONLY <3>4
        <3>. QED
            BY <2>1, <3>2, <3>3, <3>5 DEF Waits, Ahead
    <2>. QED
        BY <1>2, <1>6, <2>1, <2>3
<1>8. CASE TickSwitches
    <2>1. PICK q \in Candidates(Preempted) :
              /\ ticks[c] <= 1 /\ current' = q
              /\ state' = [Preempted EXCEPT ![q] = "RUNNING"]
              /\ ticks' = [ticks EXCEPT ![c] = 0, ![q] = Quantum(q)]
        BY <1>1, <1>8 DEF TickSwitches
    <2>2. q \in Proc /\ Quantum(q) \in 1 .. 4
        BY QuantumType DEF Candidates, Inspected
    <2>3. ticks'[q] = Quantum(q)
        BY <2>1, <2>2 DEF IInv, TypeOK
    <2>4. Left \in 1 .. 1 /\ Left' \in Int /\ Left' <= Quantum(q)
        BY <1>1, <1>2, <2>1, <2>2, <2>3 DEF Left
    <2>5. ASSUME NEW p \in Proc, state'[p] = "READY", p # current' PROVE Waits(p)'
        <3>1. p # q /\ waited'[p] = waited[p] + 1 /\ waited[p] \in Nat /\ Ahead(p, q) \in Nat
            BY <1>3, <1>4, <2>1, <2>2, <2>5, AheadBounded
        <3>2. waited[p] <= Ahead(p, q)
            <4>1. CASE p = c
                BY <1>2, <3>1, <4>1
            <4>2. CASE p # c
                <5>1. state[p] = "READY"
                    BY <1>5, <2>1, <2>5, <3>1, <4>2 DEF Preempted, IInv, TypeOK
                <5>2. (c < q /\ q < p) \/ (q < p /\ p < c) \/ (p < c /\ c < q)
                    BY <1>1, <1>2, <3>1, <4>2, <5>1, PassesNobody
                <5>3. Ahead(p, c) + Quantum(c) <= Ahead(p, q)
                    BY <1>2, <2>2, <5>2, AheadGrows
                <5>4. waited[p] + Left <= Ahead(p, c) + Quantum(c) + 1 /\ Ahead(p, c) \in Nat
                    BY <1>1, <1>2, <4>2, <5>1, AheadBounded DEF TurnsInv, Waits
                <5>. QED
                    BY <1>2, <2>4, <3>1, <5>3, <5>4
            <4>. QED
                BY <4>1, <4>2
        <3>. QED
            BY <2>1, <2>2, <2>4, <3>1, <3>2 DEF Waits, Ahead
    <2>. QED
        BY <1>6, <2>1, <2>2, <2>3, <2>5
<1>9. CASE TickFindsNobody
    <2>1. /\ Candidates(Preempted) = {} /\ state' = Preempted /\ current' = c
          /\ ticks' = [ticks EXCEPT ![c] = 0]
        BY <1>1, <1>9 DEF TickFindsNobody
    <2>2. ticks'[c] = 0
        BY <1>2, <2>1 DEF IInv, TypeOK
    <2>3. ASSUME NEW p \in Proc, state'[p] = "READY", p # current' PROVE FALSE
        <3>1. state[p] = "READY" /\ Preempted[p] = "READY"
            BY <1>5, <2>1, <2>3
        <3>2. p \in Linked
            BY <1>2, <3>1 DEF IInv, BootInv, FreedInv, Created, Proc
        <3>3. p \in Inspected(Preempted)
            BY <1>2, <2>1, <3>2, InspectsTheRing
        <3>. QED
            BY <2>1, <3>1, <3>3 DEF Candidates
    <2>. QED
        BY <1>2, <1>6, <2>1, <2>2, <2>3
<1>. QED
    BY <1>7, <1>8, <1>9 DEF CountedTick, Tick

\* Every step of the list keeps the account of the turns.
LEMMA TurnsPreserved == IInv /\ TurnsInv /\ IInv' /\ [TurnsNext]_turnsVars => TurnsInv'
<1>. SUFFICES ASSUME IInv, TurnsInv, IInv', [TurnsNext]_turnsVars PROVE TurnsInv'
    OBVIOUS
<1>. USE NProcAssumption
<1>0. TypeOK' /\ TypeOK
    BY DEF IInv
<1>1. CASE CountedTick
    BY <1>0, <1>1, TickTurns
<1>2. CASE AddFirst /\ UNCHANGED waited
  <2>1. ~ started /\ nextPid \in Proc /\ current' = nextPid /\ ticks' = [ticks EXCEPT ![nextPid] = Quantum(nextPid)]
      BY <1>0, <1>2 DEF AddFirst, TypeOK, Proc
  <2>2. ticks'[current'] = Quantum(current') /\ Quantum(current') \in 1 .. 4
      BY <1>0, <2>1, QuantumType DEF TypeOK
  <2>. QED
      BY <1>0, <1>2, <2>1, <2>2, BootTurns
<1>3. CASE AddLast /\ UNCHANGED waited
  <2>1. ~ started /\ nextPid \in Proc /\ current' = current /\ ticks' = [ticks EXCEPT ![nextPid] = Quantum(nextPid)]
      BY <1>0, <1>3 DEF AddLast, TypeOK, Proc
  <2>2. current \in Proc => ticks'[current] = ticks[current] \/ ticks'[current] = Quantum(current)
      BY <1>0, <2>1 DEF TypeOK
  <2>3. current \in Proc => Quantum(current) \in 1 .. 4
      BY QuantumType
  <2>4. current' \in Proc => ticks'[current'] <= Quantum(current')
      BY <2>1, <2>2, <2>3 DEF TurnsInv
  <2>. QED
      BY <1>0, <1>3, <2>1, <2>4, BootTurns
<1>4. CASE Start /\ UNCHANGED waited
  <2>1. ~ started /\ current' = current /\ ticks' = ticks
      BY <1>4 DEF Start
  <2>. QED
      BY <1>0, <1>4, <2>1, BootTurns DEF TurnsInv
<1>5. CASE Yield /\ UNCHANGED waited
  <2>1. current' = current /\ started' = started /\ state' = state /\ ticks' = [ticks EXCEPT ![current] = 0]
      BY <1>5 DEF Yield
  <2>2. current \in Proc => ticks'[current] = 0
      BY <1>0, <2>1 DEF TypeOK
  <2>. QED
      BY <1>5, <2>1, <2>2, QuietTurns
<1>6. CASE ReaperStep /\ UNCHANGED waited
  <2>1. current' = current /\ started' = started /\ state' = state /\ ticks' = ticks
      BY <1>6 DEF ReaperStep, ReaperBegins, ReaperPasses, ReaperChooses, ReaperUnlinks,
                  ReaperFreesStack, ReaperFreesPcb, ReaperSleeps, ReaperWakes, ringVars
  <2>. QED
      BY <1>6, <2>1, QuietTurns
<1>7. CASE (WalkBegins \/ Walking) /\ UNCHANGED waited
  <2>1. current' = current /\ started' = started /\ ticks' = ticks
        /\ (state' = state \/ state' = [state EXCEPT ![wcur] = "ZOMBIE"])
      BY <1>7 DEF WalkBegins, Walking, WalkPasses, WalkMatches, WalkKills, ringVars
  <2>2. \A p \in Proc : state'[p] = "READY" => state[p] = "READY"
      BY <1>0, <2>1 DEF TypeOK
  <2>. QED
      BY <1>7, <2>1, <2>2, QuietTurns
<1>8. CASE UNCHANGED turnsVars
  <2>1. current' = current /\ started' = started /\ state' = state /\ ticks' = ticks /\ waited' = waited
      BY <1>8 DEF turnsVars, vars, ringVars
  <2>. QED
      BY <2>1, QuietTurns
<1>. QED
    BY <1>1, <1>2, <1>3, <1>4, <1>5, <1>6, <1>7, <1>8 DEF TurnsNext

\* Whoever is READY is dispatched within one turn of each of the others, however
\* many processes there are, whatever their priorities, and although killed ones
\* leave the ring while it waits (schedular.c:149-181).
THEOREM EveryoneGetsATurn == TurnsSpec => []WaitIsBounded
<1>1. TurnsInit => IInv /\ TurnsInv
    BY IInvInit, TurnsInvInit DEF TurnsInit
<1>2. IInv /\ TurnsInv /\ [TurnsNext]_turnsVars => (IInv /\ TurnsInv)'
  <2>. SUFFICES ASSUME IInv, TurnsInv, [TurnsNext]_turnsVars PROVE IInv' /\ TurnsInv'
      OBVIOUS
  <2>1. [Next]_vars
      BY DEF TurnsNext, CountedTick, turnsVars, Next
  <2>2. IInv'
      BY <2>1, NextPreserves
  <2>. QED
      BY <2>2, TurnsPreserved
<1>3. IInv /\ TurnsInv => WaitIsBounded
    BY DEF TurnsInv
<1>. QED
    BY <1>1, <1>2, <1>3, PTL DEF TurnsSpec
=============================================================================
