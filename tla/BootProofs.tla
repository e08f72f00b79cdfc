------------------------------ MODULE BootProofs ------------------------------
(***************************************************************************)
(* Theorems about Boot, for every set of machines and kernel images and    *)
(* every size of counters, chunks and maps.                                *)
(***************************************************************************)
EXTENDS Boot, SequenceTheorems, WellFoundedInduction, TLAPS

\* A counter of any width stays in it (loopCounter, the lower words).
LEMMA ModRange ==
    ASSUME NEW a \in Int, NEW b \in Nat \ {0}
    PROVE  a % b \in 0 .. b - 1 /\ (a \in 0 .. b - 1 => a % b = a)
    OBVIOUS

\* The lower word of a number is no larger than the number.
LEMMA LowBelow ==
    ASSUME NEW a \in Nat
    PROVE  Low(a) \in Nat /\ Low(a) < Word /\ Low(a) <= a /\ (a < Word => Low(a) = a)
<1>1. Word \in Nat \ {0} /\ a \in Int
    BY BootAssumption
<1>2. a % Word \in 0 .. Word - 1 /\ (a \in 0 .. Word - 1 => a % Word = a)
    BY <1>1, ModRange
<1>3. a < Word => a \in 0 .. Word - 1
    BY <1>1
<1>. QED
    BY <1>1, <1>2, <1>3 DEF Low

\* Max of a bounded set of naturals is in the set (the sizes that E801 and
\* INT 12 report).
LEMMA MaxIsIn ==
    ASSUME NEW N \in Nat, NEW S \in SUBSET (0 .. N), S # {}
    PROVE  Max(S) \in S
<1>1. \E x \in S : \A y \in S : x >= y
    <2>. DEFINE Below == {t \in Nat : N - t \in S}
    <2>1. PICK s \in S : TRUE
        OBVIOUS
    <2>2. N - s \in Below
        BY <2>1
    <2>3. IsWellFoundedOn(OpToRel(<, Nat), Nat)
        BY NatLessThanWellFounded
    <2>4. PICK t \in Below : \A u \in Below : <<u, t>> \notin OpToRel(<, Nat)
        BY <2>2, <2>3, WFMin
    <2>5. \A u \in Below : ~ (u < t)
        BY <2>4 DEF OpToRel
    <2>6. ASSUME NEW y \in S PROVE N - t >= y
        <3>1. N - y \in Below
            OBVIOUS
        <3>2. ~ (N - y < t) /\ t \in Nat /\ y \in 0 .. N
            BY <2>5, <3>1
        <3>. QED
            BY <3>2
    <2>. QED
        BY <2>6
<1>. QED
    BY <1>1 DEF Max

-----------------------------------------------------------------------------
(***************************************************************************)
(* The inductive invariant.                                                *)
(***************************************************************************)

\* The sectors in memory are those from the start of the disk, in order.
InOrder == \A k \in 1 .. Len(mem) : mem[k].number = k - 1

\* UEFI reads the file in order, and no more of it than there are places; the
\* magic number is tested before anything else.
ReadInv ==
    /\ pc \in {"find", "pages"} => mem = <<>> /\ count = 0
    /\ pc = "read" => count = Len(mem) /\ count <= Size /\ count <= MaxSectors /\ InOrder
    /\ pc = "magic" => Whole
    /\ pc \in {"size", "map", "handle", "key", "exit", "again", "last"} => Whole /\ image.magic

\* A20 is on, or called on, from stage 2 on.
A20Inv ==
    pc \in {"stage2", "e820", "e801", "int12", "analyse", "cpu", "first", "load"} =>
        a20 \/ "a20" \in events

Before ==
    {"reset", "a20", "enable", "port", "stage2", "e820", "e801", "int12", "analyse", "cpu", "first"}

\* The value that loopCounter starts from, and how many times the loop runs.
Start == ((size % CounterMod) - 1) % CounterMod
Turns == IF Start = 0 THEN CounterMod ELSE Start

\* The sectors in memory and loopCounter go together.
CounterInv ==
    /\ pc \in Before => mem = <<>>
    /\ pc = "load" => /\ Len(mem) >= 1 /\ Len(mem) <= Turns
                      /\ count = IF Len(mem) = 1 THEN Start ELSE Turns - Len(mem) + 1
    /\ pc = "sum" => Len(mem) = Turns + 1

\* What came back right is in its place, with the size and the magic number.
OrderInv ==
    /\ pc \in {"load", "sum"} /\ events \cap {"misread", "a20"} = {} =>
           size = Size /\ image.magic /\ InOrder
    /\ pc \in {"load", "sum"} /\ "large" \notin events => size <= CounterMod + 1

LoadInv == A20Inv /\ CounterInv /\ OrderInv

\* What an entry of the map calls free is RAM, or below the guess of E801.
Truthful(e) ==
    \A a \in e.base .. e.base + e.length - 1 :
        e.free => IsRam(a) \/ ("fallback" \in events /\ a < LowGuess)

MapTruthful == \A k \in DOMAIN map : Truthful(map[k])
MapInv == "unread" \notin events => MapTruthful

\* The E820 map is a part of the machine's areas.
E820Inv ==
    /\ pc = "e820" => \A k \in DOMAIN map : \E j \in DOMAIN areas : map[k] = areas[j]
    /\ pc \in {"e801", "int12", "reset", "a20", "enable", "port", "stage2"} => map = <<>>

Below4GB == \A k \in DOMAIN areas : areas[k].base + areas[k].length <= Word

\* An entry that stage 2 would load the kernel into has RAM where the kernel
\* goes.
Targets ==
    pc = "analyse" =>
        \A k \in DOMAIN map : IsTarget(map[k]) => IsRam(KernelDst)

TargetInv ==
    pc \in {"cpu", "first", "load", "sum", "read", "magic", "size", "map", "handle",
            "key", "exit", "again", "last", "kernel"} => IsRam(KernelDst)

IInv == /\ TypeOK /\ ReadInv /\ LoadInv /\ MapInv /\ E820Inv
        /\ (Below4GB => Targets /\ TargetInv)
        /\ KernelIsWhole

\* Of the history, what the map is exempt by.
MapMarks == events \cap {"fallback", "unread"}

dataVars == <<machine, mem, map, MapMarks>>

\* The RAM and the map do not change.
LEMMA MapKept ==
    ASSUME IInv, UNCHANGED <<areas, map>>, MapMarks' = MapMarks
    PROVE  /\ MapInv' /\ Below4GB' = Below4GB
           /\ IsRam(KernelDst)' = IsRam(KernelDst)
           /\ DOMAIN map' = DOMAIN map
           /\ \A k \in DOMAIN map : IsTarget(map[k])' = IsTarget(map[k])
<1>1. \A a : IsRam(a)' = IsRam(a)
    BY DEF IsRam
<1>2. \A e \in {"fallback", "unread"} : e \in events' <=> e \in events
    BY DEF MapMarks
<1>3. MapInv'
    BY <1>1, <1>2 DEF IInv, MapInv, MapTruthful, Truthful
<1>. QED
    BY <1>1, <1>3 DEF Below4GB, IsTarget, Low

\* What is in memory does not change, either.
LEMMA DataKept ==
    ASSUME IInv, UNCHANGED dataVars
    PROVE  /\ Whole' = Whole /\ InOrder' = InOrder /\ Size' = Size
           /\ MapInv' /\ Below4GB' = Below4GB
           /\ IsRam(KernelDst)' = IsRam(KernelDst)
           /\ DOMAIN map' = DOMAIN map
           /\ \A k \in DOMAIN map : IsTarget(map[k])' = IsTarget(map[k])
<1>1. UNCHANGED <<areas, map>> /\ MapMarks' = MapMarks
    BY DEF dataVars, machine
<1>2. Whole' = Whole /\ InOrder' = InOrder /\ Size' = Size
    BY DEF dataVars, machine, Whole, InOrder, Size
<1>. QED
    BY <1>1, <1>2, MapKept

\* The initial states.
LEMMA InitIInv == Init => IInv
<1>. SUFFICES ASSUME Init PROVE IInv
    OBVIOUS
<1>1. TypeOK
    <2>1. areas \in Seq(Area) /\ Len(areas) \in Nat
        BY BootAssumption DEF Init
    <2>2. fw \in [n : Nat, key : Nat, sz : Nat, alloc : Nat, got : Int]
        BY <2>1 DEF Init
    <2>3. mem \in Seq(Sector) /\ map \in Seq(Area)
        BY DEF Init
    <2>. QED
        BY <2>2, <2>3 DEF Init, TypeOK, Labels
<1>2. ReadInv /\ LoadInv /\ MapInv /\ E820Inv /\ KernelIsWhole /\ Targets /\ TargetInv
    BY DEF Init, ReadInv, LoadInv, A20Inv, CounterInv, Before, OrderInv, MapInv, MapTruthful, E820Inv,
           KernelIsWhole, Targets, TargetInv
<1>. QED
    BY <1>1, <1>2 DEF IInv

\* Steps that read no sector and change no map.
LEMMA EarlyStep ==
    ASSUME IInv, ResetDisk \/ CheckA20 \/ EnableA20 \/ LoadStage2 \/ CheckCPU \/ FindKernel
    PROVE  IInv'
<1>. USE DEF OrHalt, Goto, Halt
<1>1. UNCHANGED <<machine, mem, map, size, handed, fw>> /\ events \subseteq events'
      /\ events' \subseteq events \cup {"a20"}
    BY DEF ResetDisk, CheckA20, EnableA20, LoadStage2, CheckCPU, FindKernel
<1>2. UNCHANGED dataVars
    BY <1>1 DEF dataVars, MapMarks
<1>3. \/ pc = "find" /\ pc' = "pages" /\ count' = count
      \/ /\ pc \in {"reset", "a20", "enable", "port", "stage2"}
         /\ pc' \in {"a20", "enable", "port"}
      \/ pc \in {"a20", "enable", "port"} /\ pc' = "stage2" /\ (a20' \/ "a20" \in events')
      \/ pc = "stage2" /\ pc' \in {"stage2", "e820"} /\ a20' = a20
      \/ pc = "cpu" /\ pc' = "first" /\ a20' = a20
      \/ pc' = "halt"
    <2>1. CASE CheckA20
        BY <2>1 DEF CheckA20
    <2>2. CASE EnableA20
        BY <2>2 DEF EnableA20
    <2>3. CASE ResetDisk \/ LoadStage2 \/ CheckCPU \/ FindKernel
        BY <2>3 DEF ResetDisk, LoadStage2, CheckCPU, FindKernel
    <2>. QED
        BY <2>1, <2>2, <2>3
<1>4. TypeOK'
    <2>1. count' \in {count, count + 1}
        BY DEF ResetDisk, CheckA20, EnableA20, LoadStage2, CheckCPU, FindKernel
    <2>2. a20' \in {a20, TRUE}
        BY Zenon DEF ResetDisk, CheckA20, EnableA20, LoadStage2, CheckCPU, FindKernel
    <2>3. a20' \in BOOLEAN
        BY <2>2, Zenon DEF IInv, TypeOK
    <2>4. events' \subseteq {"fallback", "unread", "a20", "misread", "large"}
        BY <1>1 DEF IInv, TypeOK
    <2>5. pc' \in Labels
        BY <1>3 DEF Labels
    <2>. QED
        BY <1>1, <2>1, <2>3, <2>4, <2>5 DEF IInv, TypeOK, machine, Sector, Sums
<1>5. ReadInv'
    BY <1>1, <1>2, <1>3, DataKept DEF IInv, ReadInv
<1>6. LoadInv'
    <2>1. A20Inv'
        BY <1>1, <1>3 DEF IInv, LoadInv, A20Inv
    <2>2. CounterInv' /\ OrderInv'
        BY <1>1, <1>3 DEF IInv, LoadInv, CounterInv, Before, OrderInv
    <2>. QED
        BY <2>1, <2>2 DEF LoadInv
<1>7. KernelIsWhole'
    BY <1>3 DEF KernelIsWhole
<1>8. E820Inv'
    BY <1>1, <1>3 DEF IInv, E820Inv, machine
<1>9. Below4GB' => Targets' /\ TargetInv'
    BY <1>2, <1>3, DataKept DEF IInv, Targets, TargetInv
<1>. QED
    BY <1>2, <1>4, <1>5, <1>6, <1>7, <1>8, <1>9, DataKept DEF IInv

\* What a counter of CounterMod values holds of a number (loopCounter).
Held(n) == n % CounterMod

\* One step outside of the counter's values is its other end.
LEMMA HeldRange ==
    /\ CounterMod \in Nat \ {0}
    /\ \A n \in Int : Held(n) \in 0 .. CounterMod - 1 /\ (n \in 0 .. CounterMod - 1 => Held(n) = n)
    /\ Held(-1) = CounterMod - 1 /\ Held(CounterMod) = 0
<1>1. CounterMod \in Nat \ {0}
    BY BootAssumption
<1>2. ASSUME NEW b \in Nat \ {0} PROVE (-1) % b = b - 1 /\ b % b = 0
    OBVIOUS
<1>3. \A n \in Int : n % CounterMod \in 0 .. CounterMod - 1
                     /\ (n \in 0 .. CounterMod - 1 => n % CounterMod = n)
    BY <1>1, ModRange
<1>. QED
    BY <1>1, <1>2, <1>3 DEF Held

\* The loop runs at least as often as there are sectors behind the first, of a
\* kernel that has no more of them than the counter counts.
LEMMA TurnsEnough ==
    ASSUME size \in Nat
    PROVE  /\ Turns \in Nat \ {0} /\ Start \in 0 .. CounterMod - 1
           /\ size <= CounterMod + 1 => Turns + 1 >= size
<1>1. PICK w : w = Held(size)
    OBVIOUS
<1>2. CounterMod \in Nat \ {0} /\ w \in 0 .. CounterMod - 1 /\ (size < CounterMod => w = size)
      /\ (size = CounterMod => w = 0)
    BY <1>1, HeldRange
<1>3. Start = Held(w - 1)
    BY <1>1 DEF Start, Held
<1>4. w # 0 => w - 1 \in 0 .. CounterMod - 1
    BY <1>2
<1>5. w - 1 \in Int /\ (w = 0 => w - 1 = -1)
    BY <1>2
<1>6. Start \in 0 .. CounterMod - 1 /\ (w # 0 => Start = w - 1) /\ (w = 0 => Start = CounterMod - 1)
    BY ONLY <1>3, <1>4, <1>5, HeldRange
<1>7. Turns = (IF Start = 0 THEN CounterMod ELSE Start)
    BY DEF Turns
<1>8. size = CounterMod + 1 => w \in {0, 1} /\ (w = 0 => CounterMod = 1)
    <2>1. ASSUME NEW b \in Nat \ {0} PROVE (b + 1) % b \in {0, 1} /\ ((b + 1) % b = 0 => b = 1)
        <3>1. CASE b = 1
            BY <3>1
        <3>2. CASE b # 1
            OBVIOUS
        <3>. QED
            BY <3>1, <3>2
    <2>. QED
        BY <1>1, <1>2, <2>1 DEF Held
<1>9. Turns \in Nat \ {0} /\ (size <= CounterMod + 1 => Turns + 1 >= size)
    <2>1. PICK m, s, t, k : m = CounterMod /\ s = Start /\ t = Turns /\ k = size
        OBVIOUS
    <2>2. /\ k \in Nat /\ m \in Nat \ {0} /\ s \in 0 .. m - 1 /\ t = (IF s = 0 THEN m ELSE s)
          /\ w \in 0 .. m - 1 /\ (w # 0 => s = w - 1) /\ (w = 0 => s = m - 1)
          /\ (k < m => w = k) /\ (k = m => w = 0)
          /\ (k = m + 1 => w \in {0, 1} /\ (w = 0 => m = 1))
        BY <1>2, <1>6, <1>7, <1>8, <2>1
    <2>3. t \in Nat \ {0} /\ (k <= m + 1 => t + 1 >= k)
        BY ONLY <2>2
    <2>. QED
        BY <2>1, <2>3
<1>. QED
    BY <1>6, <1>9

\* What the loop has read right is all of the kernel.
LEMMA LoadedWhole ==
    ASSUME IInv, pc = "sum", events \cap {"misread", "a20", "large"} = {}
    PROVE  image.magic /\ Whole
<1>1. /\ size = Size /\ image.magic /\ InOrder /\ size <= CounterMod + 1 /\ Len(mem) = Turns + 1
    BY DEF IInv, LoadInv, CounterInv, OrderInv
<1>2. size \in Nat
    BY DEF IInv, TypeOK
<1>3. Turns \in Nat /\ Turns + 1 >= size
    BY <1>1, <1>2, TurnsEnough
<1>4. Len(mem) >= Size /\ 1 .. Size \subseteq 1 .. Len(mem)
    BY ONLY <1>1, <1>2, <1>3
<1>. QED
    BY <1>1, <1>4 DEF Whole, InOrder

\* Steps that decide whether the loaders go on.
LEMMA DecideStep ==
    ASSUME IInv, Analyse \/ Checksum \/ AllocKernel \/ CheckMagic
    PROVE  IInv'
<1>. USE DEF OrHalt, Goto, Halt
<1>1. UNCHANGED <<machine, mem, map, events, a20, count, handed, fw>>
    BY DEF Analyse, Checksum, AllocKernel, CheckMagic
<1>2. \/ pc = "analyse" /\ (\E k \in DOMAIN map : IsTarget(map[k])) /\ pc' = "cpu"
      \/ pc = "sum" /\ pc' = "kernel"
      \/ pc = "pages" /\ IsRam(KernelDst) /\ pc' = "read"
      \/ pc = "magic" /\ image.magic /\ pc' = "size"
      \/ pc' = "halt"
    <2>1. KernelDst \in KernelDst .. KernelDst + KernelPages - 1
        BY BootAssumption
    <2>. QED
        BY <2>1 DEF Analyse, Checksum, AllocKernel, CheckMagic
<1>3. UNCHANGED dataVars
    BY <1>1 DEF dataVars, MapMarks
<1>4. Size \in Nat /\ MaxSectors \in Nat
    BY BootAssumption DEF IInv, TypeOK, Size
<1>5. TypeOK'
    <2>1. size' \in {size, Size}
        BY DEF Analyse, Checksum, AllocKernel, CheckMagic
    <2>2. size' \in Nat
        BY <1>4, <2>1 DEF IInv, TypeOK
    <2>3. pc' \in Labels
        BY <1>2 DEF Labels
    <2>. QED
        BY <1>1, <2>2, <2>3 DEF IInv, TypeOK, machine, Sector, Sums
<1>6. ReadInv'
    <2>1. pc = "pages" => InOrder /\ count = Len(mem) /\ count <= Size /\ count <= MaxSectors
        BY <1>4 DEF IInv, ReadInv, InOrder
    <2>. QED
        BY <1>1, <1>2, <1>3, <2>1, DataKept DEF IInv, ReadInv, machine
<1>7. LoadInv'
    BY <1>1, <1>2 DEF IInv, LoadInv, A20Inv, CounterInv, Before, OrderInv
<1>8. KernelIsWhole'
    <2>1. pc' = "kernel" => pc = "sum"
        BY <1>2
    <2>. QED
        BY <1>1, <1>3, <2>1, LoadedWhole, DataKept DEF KernelIsWhole, machine
<1>9. E820Inv'
    BY <1>2 DEF E820Inv
<1>10. Below4GB' => Targets' /\ TargetInv'
    BY <1>2, <1>3, DataKept DEF IInv, Targets, TargetInv
<1>. QED
    BY <1>3, <1>5, <1>6, <1>7, <1>8, <1>9, <1>10, DataKept DEF IInv

\* The record of the firmware's map and the loader's copy of its size and key.
FwType == [n : Nat, key : Nat, sz : Nat, alloc : Nat, got : Int]

\* New sizes and keys leave it a record of numbers (GetMemoryMap).
LEMMA FwKept ==
    ASSUME NEW f \in FwType, NEW a \in Nat, NEW b \in Nat
    PROVE  [f EXCEPT !.n = a, !.key = b] \in FwType /\ [f EXCEPT !.sz = a, !.alloc = b] \in FwType
    BY DEF FwType

\* Steps in which the firmware's memory map may change.
LEMMA FirmwareStep ==
    ASSUME IInv, GetSize \/ FindHandle \/ GetKey \/ Exit
    PROVE  IInv'
<1>. USE DEF OrHalt, Goto, Halt
<1>1. UNCHANGED <<machine, mem, map, events>> /\ UNCHANGED <<a20, count, size, handed>>
    BY DEF GetSize, FindHandle, GetKey, Exit
<1>0. UNCHANGED dataVars
    BY <1>1 DEF dataVars, MapMarks
<1>2. /\ pc \in {"size", "handle", "key", "exit", "again", "last"}
      /\ pc' \in {"map", "key", "exit", "again", "last", "kernel", "halt"}
    BY DEF GetSize, FindHandle, GetKey, Exit
<1>3. fw' \in FwType
    <2>1. fw \in FwType /\ fw.n \in Nat /\ fw.n + Slack \in Nat
        <3>1. Slack \in Nat
            BY BootAssumption
        <3>2. fw \in FwType /\ fw.n \in Nat
            BY DEF IInv, TypeOK, FwType
        <3>. QED
            BY <3>1, <3>2
    <2>2. areas \in Seq(Area) /\ Len(areas) \in Nat
        <3>1. \A m \in Machines : m \in Seq(Area)
            BY BootAssumption
        <3>2. areas \in Seq(Area)
            BY <3>1 DEF IInv, TypeOK
        <3>. QED
            BY <3>2
    <2>3. ASSUME NEW f \in FwType, NEW h \in Grown(f)
          PROVE  h \in FwType
        <3>1. PICK g \in 0 .. Len(areas) + MaxGrowth - f.n :
                  h = [f EXCEPT !.n = f.n + g, !.key = f.key + g]
            BY DEF Grown
        <3>2. f.n + g \in Nat /\ f.key + g \in Nat
            <4>1. MaxGrowth \in Nat /\ f.n \in Nat /\ f.key \in Nat
                BY BootAssumption DEF FwType
            <4>2. g \in Nat
                BY <2>2, <4>1
            <4>. QED
                BY <4>1, <4>2
        <3>. QED
            BY <3>1, <3>2, FwKept
    <2>4. CASE GetSize
        BY <2>1, <2>3, <2>4, FwKept DEF GetSize
    <2>5. CASE FindHandle
        BY <2>1, <2>3, <2>5 DEF FindHandle
    <2>6. CASE GetKey
        BY <2>1, <2>6 DEF GetKey, FwType
    <2>7. CASE Exit
        BY <2>1, <2>3, <2>7 DEF Exit
    <2>. QED
        BY <2>4, <2>5, <2>6, <2>7
<1>4. TypeOK'
    BY <1>1, <1>2, <1>3 DEF IInv, TypeOK, Labels, machine, FwType, Sector, Sums
<1>5. ReadInv' /\ KernelIsWhole'
    BY <1>0, <1>1, <1>2, DataKept DEF IInv, ReadInv, KernelIsWhole, machine
<1>6. LoadInv' /\ E820Inv'
    BY <1>2 DEF LoadInv, A20Inv, CounterInv, Before, OrderInv, E820Inv
<1>7. Below4GB' => Targets' /\ TargetInv'
    BY <1>0, <1>2, DataKept DEF IInv, Targets, TargetInv
<1>. QED
    BY <1>0, <1>4, <1>5, <1>6, <1>7, DataKept DEF IInv

\* What a read gives is a sector, the one asked for or a wrong one.
LEMMA SectorRead ==
    ASSUME TypeOK
    PROVE  /\ \A k \in Nat : OnDisk(k) \in Sector /\ OnDisk(k).number = k
           /\ \A m \in Misreads : m \in Sector /\ m.number = Wrong
<1>1. image.sums \in Seq(Sums) /\ 0 \in Sums /\ Sums \subseteq Nat
    <2>1. \A f \in Images : f.sums \in Seq(0 .. SumMod - 1) \ {<<>>}
        BY BootAssumption
    <2>2. {SumMod, CounterMod, Retries, MaxEntries, KernelPages, MaxSectors, ChunkSectors}
              \subseteq Nat \ {0}
        BY BootAssumption
    <2>3. SumMod \in Nat \ {0}
        BY ONLY <2>2
    <2>4. 0 \in 0 .. SumMod - 1 /\ 0 .. SumMod - 1 \subseteq Nat
        BY ONLY <2>3
    <2>5. image \in Images
        BY DEF TypeOK
    <2>6. image.sums \in Seq(0 .. SumMod - 1)
        BY ONLY <2>1, <2>5
    <2>. QED
        BY ONLY <2>4, <2>6 DEF Sums
<1>2. Len(image.sums) \in Nat /\ \A k \in 1 .. Len(image.sums) : image.sums[k] \in Sums
    BY <1>1
<1>3. ASSUME NEW k \in Nat PROVE OnDisk(k) \in Sector /\ OnDisk(k).number = k
    <2>1. k < Size => k + 1 \in 1 .. Len(image.sums)
        BY <1>2 DEF Size
    <2>2. (IF k < Size THEN image.sums[k + 1] ELSE 0) \in Sums
        BY <1>1, <1>2, <2>1
    <2>. QED
        BY <2>2 DEF OnDisk, Sector
<1>4. \A m \in Misreads : m \in Sector /\ m.number = Wrong
    BY DEF Misreads, Sector
<1>. QED
    BY <1>3, <1>4

\* A chunk behind the sectors before it leaves them all in their order
\* (read_kernel_file).
LEMMA ChunkAppended ==
    ASSUME TypeOK, NEW g \in Nat, InOrder,
           NEW r, r = mem \o [k \in 1 .. g |-> OnDisk(Len(mem) + k - 1)]
    PROVE  r \in Seq(Sector) /\ Len(r) = Len(mem) + g /\ \A k \in 1 .. Len(r) : r[k].number = k - 1
<1>. DEFINE t == [k \in 1 .. g |-> OnDisk(Len(mem) + k - 1)]
<1>1. mem \in Seq(Sector) /\ Len(mem) \in Nat
    BY DEF TypeOK
<1>2. \A k \in 1 .. g : /\ t[k] \in Sector /\ t[k].number = Len(mem) + k - 1
    <2>1. ASSUME NEW k \in 1 .. g PROVE Len(mem) + k - 1 \in Nat
        BY <1>1
    <2>. QED
        BY <2>1, SectorRead
<1>3. DOMAIN t = 1 .. g
    OBVIOUS
<1>. HIDE DEF t
<1>4. t \in Seq(Sector) /\ Len(t) = g
    <2>1. t = [k \in 1 .. g |-> t[k]]
        BY <1>3 DEF t
    <2>2. t \in [1 .. g -> Sector]
        BY <1>2, <2>1
    <2>3. t \in Seq(Sector)
        BY <2>2, SeqDef
    <2>. QED
        BY <1>3, <2>3, LenProperties
<1>5. /\ r \in Seq(Sector) /\ Len(r) = Len(mem) + g
      /\ \A k \in 1 .. Len(mem) + g : r[k] = IF k <= Len(mem) THEN mem[k] ELSE t[k - Len(mem)]
    BY <1>1, <1>4, ConcatProperties DEF t
<1>6. ASSUME NEW k \in 1 .. Len(mem) + g PROVE r[k].number = k - 1
    <2>1. CASE k <= Len(mem)
        <3>1. k \in 1 .. Len(mem) /\ r[k] = mem[k]
            BY <2>1, <1>1, <1>5
        <3>. QED
            BY <3>1 DEF InOrder
    <2>2. CASE k > Len(mem)
        <3>1. k - Len(mem) \in 1 .. g /\ r[k] = t[k - Len(mem)]
            BY <2>2, <1>1, <1>5
        <3>2. t[k - Len(mem)].number = Len(mem) + (k - Len(mem)) - 1
            BY <1>2, <3>1
        <3>. QED
            BY <3>1, <3>2, <1>1
    <2>. QED
        BY <2>1, <2>2, <1>1
<1>. QED
    BY <1>5, <1>6

\* A sector goes behind the others, as it is when A20 is on (.first_copy,
\* .copy_inner).
LEMMA CopiedBehind ==
    ASSUME TypeOK, NEW sector \in Sector, Copied(sector)
    PROVE  /\ mem' \in Seq(Sector) /\ Len(mem') = Len(mem) + 1
           /\ \A k \in 1 .. Len(mem) : mem'[k] = mem[k]
           /\ a20 => mem'[Len(mem) + 1] = sector
<1>1. mem \in Seq(Sector)
    BY DEF TypeOK
<1>2. [sector EXCEPT !.number = Wrong] \in Sector
    BY DEF Sector
<1>3. PICK s \in Sector : mem' = Append(mem, s) /\ (a20 => s = sector)
    BY <1>2 DEF Copied
<1>. QED
    BY <1>1, <1>3, AppendProperties

\* The other invariants do not look at what the loop works with.
LEMMA LoadKept ==
    ASSUME IInv, TypeOK', LoadInv', UNCHANGED <<machine, map>>, MapMarks' = MapMarks,
           pc \in {"first", "load"}, pc' \in {"load", "sum", "halt"}
    PROVE  IInv'
<1>1. UNCHANGED <<areas, map>>
    BY DEF machine
<1>. QED
    BY <1>1, MapKept DEF IInv, ReadInv, E820Inv, KernelIsWhole, Targets, TargetInv

\* Numbers that the BIOS loader works with.
LEMMA Counting ==
    ASSUME TypeOK
    PROVE  /\ CounterMod \in Nat \ {0} /\ size \in Nat /\ count \in Nat /\ Len(mem) \in Nat
           /\ Turns \in Nat \ {0} /\ Start \in 0 .. CounterMod - 1 /\ Turns <= CounterMod
<1>1. CounterMod \in Nat \ {0} /\ size \in Nat /\ count \in Nat /\ Len(mem) \in Nat
    BY BootAssumption DEF TypeOK
<1>2. Turns \in Nat \ {0} /\ Start \in 0 .. CounterMod - 1
    BY <1>1, TurnsEnough
<1>. QED
    BY <1>1, <1>2 DEF Turns

\* The first sector.
LEMMA LoadFirstStep ==
    ASSUME IInv, LoadFirst
    PROVE  IInv'
<1>. USE DEF Goto, Halt
<1>1. TypeOK /\ pc = "first" /\ UNCHANGED <<machine, a20, map, handed, fw>>
    BY DEF IInv, LoadFirst
<1>2. mem = <<>> /\ (a20 \/ "a20" \in events)
    BY <1>1 DEF IInv, LoadInv, CounterInv, Before, A20Inv
<1>3. CASE pc' = "halt" /\ UNCHANGED <<count, mem, size, events>>
    <2>1. TypeOK'
        BY <1>1, <1>3 DEF TypeOK, Labels, machine, Sector, Sums
    <2>2. LoadInv'
        BY <1>3 DEF LoadInv, A20Inv, CounterInv, Before, OrderInv
    <2>. QED
        BY <1>1, <1>3, <2>1, <2>2, LoadKept DEF MapMarks
<1>4. ASSUME NEW sector \in {OnDisk(0)} \cup Misreads,
             IF sector.number = 0 THEN image.magic /\ size' = Size
                                  ELSE size' \in {Len(f.sums) : f \in Images},
             Copied(sector),
             count' = ((size' % CounterMod) - 1) % CounterMod,
             events' = events \cup Misread(sector)
                           \cup (IF size' > CounterMod + 1 THEN {"large"} ELSE {}),
             pc' = "load"
      PROVE  IInv'
    <2>1. sector \in Sector /\ (sector.number = 0 \/ sector.number = Wrong)
        BY <1>1, <1>4, SectorRead
    <2>2. size' \in Nat
        <3>1. \A f \in Images : Len(f.sums) \in Nat
            BY BootAssumption
        <3>2. Size \in Nat
            BY <1>1, <3>1 DEF Size, TypeOK
        <3>. QED
            BY <1>4, <3>1, <3>2
    <2>3. mem' \in Seq(Sector) /\ Len(mem') = 1 /\ (a20 => mem'[1] = sector)
        BY <1>1, <1>2, <1>4, <2>1, CopiedBehind
    <2>4. count' = Start' /\ count' \in Nat
        <3>1. count' = Held(Held(size') - 1)
            BY <1>4 DEF Held
        <3>2. PICK w : w = Held(size')
            OBVIOUS
        <3>3. w \in Nat /\ w - 1 \in Int
            BY <2>2, <3>2, HeldRange
        <3>4. Held(w - 1) \in Nat
            BY <3>3, HeldRange
        <3>. QED
            BY <1>4, <3>1, <3>2, <3>4 DEF Start
    <2>5. events' \subseteq events \cup {"misread", "large"} /\ events \subseteq events'
        BY <1>4 DEF Misread
    <2>6. TypeOK'
        BY <1>1, <1>4, <2>2, <2>3, <2>4, <2>5 DEF TypeOK, Labels, machine, Sector, Sums
    <2>7. A20Inv'
        BY <1>1, <1>2, <2>5 DEF A20Inv
    <2>8. CounterInv'
        <3>1. Turns' \in Nat \ {0}
            <4>1. CounterMod \in Nat \ {0} /\ Start' \in Nat
                BY BootAssumption, <2>4
            <4>. QED
                BY <4>1 DEF Turns
        <3>. QED
            BY <1>4, <2>3, <2>4, <3>1 DEF CounterInv, Before
    <2>9. OrderInv'
        <3>1. ASSUME events' \cap {"misread", "a20"} = {}
              PROVE  size' = Size' /\ image'.magic /\ InOrder'
            <4>1. sector.number = 0 /\ a20
                <5>1. "misread" \notin events' /\ "a20" \notin events
                    BY <2>5, <3>1
                <5>2. sector.number = Wrong => "misread" \in events'
                    BY <1>4 DEF Misread
                <5>. QED
                    BY <1>2, <2>1, <5>1, <5>2
            <4>2. size' = Size' /\ image'.magic
                BY <1>1, <1>4, <4>1 DEF machine, Size
            <4>3. mem'[1].number = 1 - 1
                BY <2>3, <4>1
            <4>. QED
                BY <2>3, <4>2, <4>3 DEF InOrder
        <3>2. "large" \notin events' => size' <= CounterMod + 1
            <4>1. CounterMod \in Nat
                BY BootAssumption
            <4>2. ~ (size' > CounterMod + 1) => size' <= CounterMod + 1
                BY <2>2, <4>1
            <4>. QED
                BY <1>4, <4>2
        <3>. QED
            BY <3>1, <3>2 DEF OrderInv
    <2>10. MapMarks' = MapMarks
        BY <2>5 DEF MapMarks
    <2>. QED
        BY <1>1, <1>4, <2>6, <2>7, <2>8, <2>9, <2>10, LoadKept DEF LoadInv
<1>. QED
    BY <1>3, <1>4 DEF LoadFirst

\* The decremented counter says how many turns are left, also when the first
\* decrement has made 0 the largest number it holds (dec word [loopCounter]).
LEMMA CountedDown ==
    ASSUME NEW s \in 0 .. CounterMod - 1, NEW t, t = (IF s = 0 THEN CounterMod ELSE s),
           NEW l \in Nat \ {0}, l <= t,
           NEW c, c = (IF l = 1 THEN s ELSE t - l + 1)
    PROVE  Held(c - 1) = t - l
<1>1. t \in 1 .. CounterMod /\ CounterMod \in Nat \ {0}
    BY HeldRange
<1>2. CASE l = 1 /\ s = 0
    <2>1. c - 1 = -1 /\ t - l = CounterMod - 1
        BY <1>1, <1>2
    <2>. QED
        BY <2>1, HeldRange
<1>3. CASE ~ (l = 1 /\ s = 0)
    <2>1. c = t - l + 1
        BY <1>1, <1>3
    <2>2. c - 1 = t - l /\ t - l \in 0 .. CounterMod - 1 /\ t - l \in Int
        BY <1>1, <2>1
    <2>. QED
        BY <2>2, HeldRange
<1>. QED
    BY <1>2, <1>3

\* The next sector.
LEMMA LoadNextStep ==
    ASSUME IInv, LoadNext
    PROVE  IInv'
<1>. USE DEF Goto, Halt
<1>1. TypeOK /\ pc = "load" /\ UNCHANGED <<machine, a20, size, map, handed, fw>>
    BY DEF IInv, LoadNext, Loaded
<1>2. /\ Len(mem) >= 1 /\ Len(mem) <= Turns
      /\ count = (IF Len(mem) = 1 THEN Start ELSE Turns - Len(mem) + 1)
      /\ a20 \/ "a20" \in events
    BY <1>1 DEF IInv, LoadInv, CounterInv, A20Inv
<1>3. CASE pc' = "halt" /\ UNCHANGED <<count, mem, events>>
    <2>1. TypeOK'
        BY <1>1, <1>3 DEF TypeOK, Labels, machine, Sector, Sums
    <2>2. LoadInv'
        BY <1>3 DEF LoadInv, A20Inv, CounterInv, Before, OrderInv
    <2>. QED
        BY <1>1, <1>3, <2>1, <2>2, LoadKept DEF MapMarks
<1>4. ASSUME NEW sector \in {OnDisk(Len(mem))} \cup Misreads,
             Copied(sector), events' = events \cup Misread(sector),
             count' = (count - 1) % CounterMod,
             pc' = (IF count' = 0 THEN "sum" ELSE "load")
      PROVE  IInv'
    <2>1. /\ CounterMod \in Nat \ {0} /\ Len(mem) \in Nat \ {0} /\ Len(mem) <= Turns
          /\ Turns \in Nat \ {0} /\ Start \in 0 .. CounterMod - 1
          /\ Turns = (IF Start = 0 THEN CounterMod ELSE Start)
        BY <1>1, <1>2, Counting DEF Turns
    <2>2. count' = Turns - Len(mem)
        <3>1. PICK s, t, l, c : s = Start /\ t = Turns /\ l = Len(mem) /\ c = count
            OBVIOUS
        <3>2. /\ s \in 0 .. CounterMod - 1 /\ t = (IF s = 0 THEN CounterMod ELSE s)
              /\ l \in Nat \ {0} /\ l <= t /\ c = (IF l = 1 THEN s ELSE t - l + 1)
            BY <1>2, <2>1, <3>1
        <3>3. Held(c - 1) = t - l
            BY ONLY <3>2, CountedDown
        <3>. QED
            BY <1>4, <3>1, <3>3 DEF Held
    <2>3. sector \in Sector /\ (sector.number = Len(mem) \/ sector.number = Wrong)
        BY <1>1, <1>4, <2>1, SectorRead
    <2>4. /\ mem' \in Seq(Sector) /\ Len(mem') = Len(mem) + 1
          /\ \A k \in 1 .. Len(mem) : mem'[k] = mem[k]
          /\ a20 => mem'[Len(mem) + 1] = sector
        BY <1>1, <1>4, <2>3, CopiedBehind
    <2>5. Turns' = Turns /\ Start' = Start
        BY <1>1 DEF Turns, Start
    <2>6. events' \subseteq events \cup {"misread"} /\ events \subseteq events'
        BY <1>4 DEF Misread
    <2>7. pc' \in {"load", "sum"}
        BY <1>4
    <2>8. TypeOK'
        <3>1. count' \in Nat
            BY ONLY <2>1, <2>2
        <3>. QED
            BY <1>1, <2>4, <2>6, <2>7, <3>1 DEF TypeOK, Labels, machine, Sector, Sums
    <2>9. A20Inv'
        BY <1>1, <1>2, <2>6 DEF A20Inv
    <2>10. CounterInv'
        <3>1. pc' = "load" => count' # 0
            BY <1>4
        <3>2. pc' = "sum" => count' = 0
            BY <1>4
        <3>3. CASE count' = 0
            <4>1. Len(mem') = Turns + 1
                BY ONLY <2>1, <2>2, <2>4, <3>3
            <4>. QED
                BY <2>5, <2>7, <3>1, <3>3, <4>1 DEF CounterInv, Before
        <3>4. CASE count' # 0
            <4>1. /\ Len(mem') >= 1 /\ Len(mem') # 1 /\ Len(mem') <= Turns
                  /\ count' = Turns - Len(mem') + 1
                BY ONLY <2>1, <2>2, <2>4, <3>4
            <4>. QED
                BY <2>5, <2>7, <3>2, <3>4, <4>1 DEF CounterInv, Before
        <3>. QED
            BY <3>3, <3>4
    <2>11. OrderInv'
        <3>1. ASSUME events' \cap {"misread", "a20"} = {}
              PROVE  size' = Size' /\ image'.magic /\ InOrder'
            <4>1. /\ events \cap {"misread", "a20"} = {} /\ "misread" \notin events'
                BY <2>6, <3>1
            <4>2. sector.number = Len(mem) /\ a20
                <5>1. sector.number = Wrong => "misread" \in events'
                    BY <1>4 DEF Misread
                <5>. QED
                    BY <1>2, <2>3, <4>1, <5>1
            <4>3. size = Size /\ image.magic /\ InOrder
                BY <1>1, <4>1 DEF IInv, LoadInv, OrderInv
            <4>4. ASSUME NEW k \in 1 .. Len(mem) + 1 PROVE mem'[k].number = k - 1
                <5>1. CASE k = Len(mem) + 1
                    BY <2>1, <2>4, <4>2, <5>1
                <5>2. CASE k \in 1 .. Len(mem)
                    BY <2>4, <4>3, <5>2 DEF InOrder
                <5>. QED
                    BY <2>1, <5>1, <5>2
            <4>. QED
                BY <1>1, <2>4, <4>3, <4>4 DEF machine, Size, InOrder
        <3>2. "large" \notin events' => size' <= CounterMod + 1
            BY <1>1, <2>6 DEF IInv, LoadInv, OrderInv
        <3>. QED
            BY <3>1, <3>2 DEF OrderInv
    <2>12. MapMarks' = MapMarks
        BY <2>6 DEF MapMarks
    <2>. QED
        BY <1>1, <2>7, <2>8, <2>9, <2>10, <2>11, <2>12, LoadKept DEF LoadInv
<1>. QED
    BY <1>3, <1>4 DEF LoadNext, Loaded

\* The next chunk, or none.
LEMMA ReadChunkStep ==
    ASSUME IInv, ReadChunk
    PROVE  IInv'
<1>. USE DEF Goto, Halt
<1>. DEFINE got == Smaller(Smaller(MaxSectors - count, ChunkSectors), Size - count)
<1>1. /\ TypeOK /\ pc = "read" /\ pc' \in {"read", "magic", "halt"}
      /\ UNCHANGED <<machine, a20, size, map, handed, fw, events>>
    BY DEF IInv, ReadChunk
<1>2. /\ mem \in Seq(Sector) /\ Len(mem) \in Nat /\ count \in Nat /\ Size \in Nat
      /\ MaxSectors \in Nat /\ ChunkSectors \in Nat \ {0}
    <2>1. MaxSectors \in Nat /\ ChunkSectors \in Nat \ {0}
        BY BootAssumption
    <2>2. image.sums \in Seq(Sums)
        BY <1>1, BootAssumption DEF TypeOK, Sums
    <2>3. mem \in Seq(Sector) /\ count \in Nat
        BY <1>1 DEF TypeOK
    <2>. QED
        BY <2>1, <2>2, <2>3 DEF Size
<1>3. count = Len(mem) /\ count <= Size /\ count <= MaxSectors /\ InOrder
    BY <1>1 DEF IInv, ReadInv
<1>4. got \in Nat /\ count + got <= Size /\ count + got <= MaxSectors
    BY <1>2, <1>3 DEF Smaller
<1>5. ASSUME TypeOK', ReadInv' PROVE IInv'
    <2>1. MapMarks' = MapMarks /\ UNCHANGED <<areas, map>>
        BY <1>1 DEF MapMarks, machine
    <2>2. LoadInv'
        BY <1>1 DEF LoadInv, A20Inv, CounterInv, Before, OrderInv
    <2>. QED
        BY <1>1, <1>5, <2>1, <2>2, MapKept DEF IInv, E820Inv, KernelIsWhole, Targets, TargetInv
<1>6. CASE pc' = "read"
    <2>1. mem' = mem \o [k \in 1 .. got |-> OnDisk(count + k - 1)] /\ count' = count + got
        BY <1>1, <1>6 DEF ReadChunk
    <2>2. mem' = mem \o [k \in 1 .. got |-> OnDisk(Len(mem) + k - 1)]
        BY <1>3, <2>1
    <2>. HIDE DEF got
    <2>3. /\ mem' \in Seq(Sector) /\ Len(mem') = Len(mem) + got
          /\ \A k \in 1 .. Len(mem') : mem'[k].number = k - 1
        BY <1>1, <1>3, <1>4, <2>2, ChunkAppended
    <2>4. count' \in Nat /\ count' = Len(mem') /\ count' <= Size /\ count' <= MaxSectors
        BY <1>2, <1>3, <1>4, <2>1, <2>3
    <2>5. TypeOK'
        BY <1>1, <1>6, <2>3, <2>4 DEF TypeOK, Labels, machine, Sector, Sums
    <2>6. ReadInv'
        BY <1>1, <1>6, <2>3, <2>4 DEF ReadInv, InOrder, machine, Size
    <2>. QED
        BY <1>5, <2>5, <2>6
<1>7. CASE pc' # "read"
    <2>1. UNCHANGED <<mem, count>>
        BY <1>1, <1>7 DEF ReadChunk
    <2>2. pc' = "magic" => Len(mem) = Size
        BY <1>2, <1>3, <1>7 DEF ReadChunk, Smaller
    <2>3. pc' = "magic" => Whole'
        BY <1>1, <1>2, <1>3, <2>1, <2>2 DEF Whole, InOrder, machine, Size
    <2>4. TypeOK'
        BY <1>1, <2>1 DEF TypeOK, Labels, machine, Sector, Sums
    <2>5. ReadInv'
        BY <1>1, <1>7, <2>3 DEF ReadInv
    <2>. QED
        BY <1>5, <2>4, <2>5
<1>. QED
    BY <1>6, <1>7

\* An area of the machine tells the truth about itself (E820, Converted).
LEMMA AreaTruthful ==
    ASSUME TypeOK, NEW k \in DOMAIN areas
    PROVE  Truthful(areas[k])
<1>1. areas \in Seq(Area)
    BY BootAssumption DEF TypeOK
<1>2. areas[k] \in Area
    BY <1>1
<1>3. areas[k].base \in Nat /\ areas[k].length \in Nat
    BY <1>2 DEF Area
<1>. QED
    BY <1>3 DEF Truthful, IsRam, IsIn

\* Where an area ends below 4 GB, its lower words look like a target only when
\* the target lies in it (analyze_memory).
LEMMA TargetInArea ==
    ASSUME NEW e \in Area, e.base + e.length <= Word, IsTarget(e)
    PROVE  IsIn(KernelDst, e)
<1>1. /\ e.base \in Nat /\ e.length \in Nat /\ e.free /\ Word \in Nat \ {0} /\ KernelDst \in Nat
    BY BootAssumption DEF Area, IsTarget
<1>2. /\ Low(e.base) \in Nat /\ Low(e.base) <= e.base /\ (e.base < Word => Low(e.base) = e.base)
      /\ Low(e.length) \in Nat /\ Low(e.length) <= e.length
    BY <1>1, LowBelow
<1>3. Low(e.base) + Low(e.length) \in Nat
    BY <1>2
<1>4. Low(Low(e.base) + Low(e.length)) <= Low(e.base) + Low(e.length)
      /\ Low(Low(e.base) + Low(e.length)) \in Nat
    BY <1>3, LowBelow
<1>5. Low(e.base) <= KernelDst /\ Low(Low(e.base) + Low(e.length)) > KernelDst
    BY DEF IsTarget
<1>6. KernelDst < Low(e.base) + Low(e.length)
    BY <1>1, <1>2, <1>4, <1>5
<1>7. e.base < Word
    BY <1>1, <1>2, <1>5, <1>6
<1>. QED
    BY <1>1, <1>2, <1>5, <1>6, <1>7 DEF IsIn

\* E820: the areas are copied, until the BIOS ends the map.
LEMMA E820Step ==
    ASSUME IInv, E820
    PROVE  IInv'
<1>. USE DEF Goto
<1>1. UNCHANGED <<machine, areas, mem, events>> /\ UNCHANGED <<a20, count, size, fw>> /\ pc = "e820"
    BY DEF E820, machine
<1>0. LoadInv'
    <2>1. pc' \in {"e820", "analyse", "e801"}
        BY DEF E820
    <2>. QED
        BY <1>1, <2>1 DEF IInv, LoadInv, A20Inv, CounterInv, Before, OrderInv
<1>2. areas \in Seq(Area) /\ map \in Seq(Area) /\ handed \in BOOLEAN
    BY BootAssumption DEF IInv, TypeOK
<1>3. \A k \in DOMAIN map : \E j \in DOMAIN areas : map[k] = areas[j]
    BY <1>1 DEF IInv, E820Inv
<1>4. CASE pc' = "e820"
    <2>1. Len(map) < Len(areas) /\ map' = Append(map, areas[Len(map) + 1]) /\ handed' = handed
        BY <1>4 DEF E820
    <2>2. Len(map) + 1 \in DOMAIN areas /\ areas[Len(map) + 1] \in Area
        BY <1>2, <2>1
    <2>3. /\ map' \in Seq(Area) /\ Len(map') = Len(map) + 1
          /\ \A k \in 1 .. Len(map) : map'[k] = map[k]
          /\ map'[Len(map) + 1] = areas[Len(map) + 1]
        BY <1>2, <2>1, <2>2, AppendProperties
    <2>4. \A k \in DOMAIN map' : \E j \in DOMAIN areas : map'[k] = areas[j]
        <3>. SUFFICES ASSUME NEW k \in 1 .. Len(map) + 1
                      PROVE  \E j \in DOMAIN areas : map'[k] = areas[j]
            BY <2>3
        <3>1. CASE k = Len(map) + 1
            BY <3>1, <2>2, <2>3
        <3>2. CASE k \in 1 .. Len(map)
            BY <3>2, <1>2, <1>3, <2>3
        <3>. QED
            BY <3>1, <3>2, <1>2
    <2>5. \A a : IsRam(a)' = IsRam(a)
        BY <1>1 DEF IsRam
    <2>6. \A k \in DOMAIN map' : Truthful(map'[k])
        BY <2>4, AreaTruthful DEF IInv
    <2>7. MapInv'
        BY <1>1, <2>5, <2>6 DEF MapInv, MapTruthful, Truthful
    <2>8. TypeOK'
        BY <1>1, <1>2, <1>4, <2>1, <2>3 DEF IInv, TypeOK, Labels, machine, Sector, Sums
    <2>9. E820Inv'
        BY <1>1, <1>4, <2>4 DEF E820Inv
    <2>. QED
        BY <1>0, <1>4, <2>7, <2>8, <2>9 DEF IInv, ReadInv, KernelIsWhole, Targets, TargetInv
<1>5. CASE pc' # "e820"
    <2>1. UNCHANGED dataVars /\ handed' \in BOOLEAN
        BY <1>1, <1>5 DEF E820, dataVars, MapMarks
    <2>2. pc' = "analyse" \/ (pc' = "e801" /\ map = <<>>)
        BY <1>5 DEF E820
    <2>3. TypeOK'
        BY <1>1, <2>1, <2>2 DEF IInv, TypeOK, Labels, dataVars, machine, Sector, Sums
    <2>4. Below4GB => \A k \in DOMAIN map : IsTarget(map[k]) => IsRam(KernelDst)
        <3>. SUFFICES ASSUME Below4GB, NEW k \in DOMAIN map, IsTarget(map[k])
                      PROVE  IsRam(KernelDst)
            OBVIOUS
        <3>1. PICK j \in DOMAIN areas : map[k] = areas[j]
            BY <1>3
        <3>2. areas[j] \in Area /\ areas[j].base + areas[j].length <= Word
            BY <1>2, <3>1 DEF Below4GB
        <3>3. IsIn(KernelDst, areas[j])
            BY <3>1, <3>2, TargetInArea
        <3>. QED
            BY <3>1, <3>3 DEF IsRam
    <2>5. E820Inv'
        BY <2>1, <2>2 DEF E820Inv, dataVars
    <2>. QED
        BY <1>0, <2>1, <2>2, <2>3, <2>4, <2>5, DataKept
        DEF IInv, ReadInv, KernelIsWhole, Targets, TargetInv
<1>. QED
    BY <1>4, <1>5

\* E801 and INT 12 tell how far the RAM reaches from 1 MB and from 0 on; the
\* map of two areas, or one, is made from that.
LEMMA FallbackStep ==
    ASSUME IInv, E801 \/ Int12
    PROVE  IInv'
<1>. USE DEF Goto
<1>1. UNCHANGED <<machine, areas, mem>> /\ UNCHANGED <<a20, count, size, handed, fw>>
    BY DEF E801, Int12, machine
<1>0. LoadInv'
    <2>1. pc \in {"e801", "int12"} /\ pc' \in {"int12", "analyse"} /\ events \subseteq events'
        BY DEF E801, Int12
    <2>. QED
        BY <1>1, <2>1 DEF IInv, LoadInv, A20Inv, CounterInv, Before, OrderInv
<1>2. /\ KernelDst \in Nat \ {0} /\ LowGuess \in 0 .. KernelDst
      /\ E801Max \in Nat /\ LowGuess \in Nat
    BY BootAssumption
<1>3. \A a : IsRam(a)' = IsRam(a)
    BY <1>1 DEF IsRam
<1>4. CASE pc' = "int12"
    <2>1. pc = "e801" /\ map = <<>> /\ UNCHANGED <<map, events>>
        BY <1>4 DEF E801, Int12, IInv, E820Inv
    <2>2. TypeOK'
        BY <1>1, <1>4, <2>1 DEF IInv, TypeOK, Labels, machine, Sector, Sums
    <2>. QED
        BY <1>0, <1>1, <1>4, <2>1, <2>2, MapKept
        DEF MapMarks, IInv, ReadInv, E820Inv, KernelIsWhole, Targets, TargetInv
<1>5. ASSUME pc' = "analyse", events' = events \cup {"fallback"}, map' \in Seq(Area),
             MapTruthful',
             \A k \in DOMAIN map' : IsTarget(map'[k]) => IsRam(KernelDst)
      PROVE  IInv'
    <2>1. TypeOK'
        BY <1>1, <1>5 DEF IInv, TypeOK, Labels, machine, Sector, Sums
    <2>2. MapInv'
        BY <1>5 DEF MapInv
    <2>3. Targets'
        BY <1>3, <1>5 DEF Targets, IsTarget, Low
    <2>. QED
        BY <1>0, <1>5, <2>1, <2>2, <2>3
        DEF IInv, ReadInv, E820Inv, KernelIsWhole, TargetInv
<1>6. CASE E801 /\ pc' # "int12"
    <2>1. PICK m \in Nat :
              /\ \A a \in KernelDst .. KernelDst + m - 1 : IsRam(a)
              /\ map' = <<Free(0, LowGuess), Free(KernelDst, m)>>
        <3>. DEFINE above == {n \in 0 .. E801Max : \A a \in KernelDst .. KernelDst + n - 1 : IsRam(a)}
        <3>1. 0 \in above /\ above \in SUBSET (0 .. E801Max)
            BY <1>2
        <3>2. map' = <<Free(0, LowGuess), Free(KernelDst, Max(above))>>
            BY <1>6 DEF E801
        <3>3. \A n \in above : n \in Nat /\ \A a \in KernelDst .. KernelDst + n - 1 : IsRam(a)
            OBVIOUS
        <3>. HIDE DEF above
        <3>4. Max(above) \in above
            BY <1>2, <3>1, MaxIsIn
        <3>. QED
            BY <3>2, <3>3, <3>4
    <2>2. events' = events \cup {"fallback"} /\ pc' = "analyse"
        BY <1>6 DEF E801
    <2>3. \A a \in KernelDst .. KernelDst + m - 1 : IsRam(a)
        BY <2>1
    <2>4. Free(0, LowGuess) \in Area /\ Free(KernelDst, m) \in Area
        BY <1>2, <2>3 DEF Free, Area
    <2>5. map' \in Seq(Area) /\ DOMAIN map' = {1, 2}
        BY <2>1, <2>4
    <2>6. Truthful(Free(0, LowGuess))' /\ Truthful(Free(KernelDst, m))'
        BY <1>2, <1>3, <2>2, <2>3 DEF Truthful, Free
    <2>7. ~ IsTarget(Free(0, LowGuess))
        <3>1. Low(0) \in Nat /\ Low(0) <= 0 /\ Low(LowGuess) \in Nat /\ Low(LowGuess) <= LowGuess
            BY <1>2, LowBelow
        <3>2. Low(0) + Low(LowGuess) \in Nat
            BY <3>1
        <3>3. /\ Low(Low(0) + Low(LowGuess)) \in Nat
              /\ Low(Low(0) + Low(LowGuess)) <= Low(0) + Low(LowGuess)
            BY <3>2, LowBelow
        <3>. QED
            BY <1>2, <3>1, <3>3 DEF IsTarget, Free
    <2>8. IsTarget(Free(KernelDst, m)) => IsRam(KernelDst)
        <3>1. Low(KernelDst) \in Nat /\ Low(KernelDst) <= KernelDst /\ Low(m) \in Nat /\ Low(m) <= m
            BY <1>2, <2>3, LowBelow
        <3>2. Low(KernelDst) + Low(m) \in Nat
            BY <3>1
        <3>3. /\ Low(Low(KernelDst) + Low(m)) \in Nat
              /\ Low(Low(KernelDst) + Low(m)) <= Low(KernelDst) + Low(m)
            BY <3>2, LowBelow
        <3>4. IsTarget(Free(KernelDst, m)) => m > 0
            BY <1>2, <2>3, <3>1, <3>3 DEF IsTarget, Free
        <3>. QED
            BY <1>2, <2>3, <3>4
    <2>9. map'[1] = Free(0, LowGuess) /\ map'[2] = Free(KernelDst, m)
        BY <2>1
    <2>10. MapTruthful'
        BY <2>5, <2>6, <2>9 DEF MapTruthful, Truthful
    <2>11. \A k \in DOMAIN map' : IsTarget(map'[k]) => IsRam(KernelDst)
        BY <2>5, <2>7, <2>8, <2>9
    <2>. QED
        BY <1>5, <2>2, <2>5, <2>10, <2>11
<1>7. CASE Int12
    <2>1. PICK m \in 0 .. KernelDst - 1 : (\A a \in 0 .. m - 1 : IsRam(a)) /\ map' = <<Free(0, m)>>
        <3>. DEFINE below == {n \in 0 .. KernelDst - 1 : \A a \in 0 .. n - 1 : IsRam(a)}
        <3>1. 0 \in below /\ below \in SUBSET (0 .. KernelDst - 1) /\ KernelDst - 1 \in Nat
            BY <1>2
        <3>2. map' = <<Free(0, Max(below))>>
            BY <1>7 DEF Int12
        <3>3. \A n \in below : n \in 0 .. KernelDst - 1 /\ \A a \in 0 .. n - 1 : IsRam(a)
            OBVIOUS
        <3>. HIDE DEF below
        <3>4. Max(below) \in below
            BY <3>1, MaxIsIn
        <3>. QED
            BY <3>2, <3>3, <3>4
    <2>2. events' = events \cup {"fallback"} /\ pc' = "analyse"
        BY <1>7 DEF Int12
    <2>3. m \in Nat /\ m < KernelDst
        BY <1>2
    <2>4. Free(0, m) \in Area
        BY <2>3 DEF Free, Area
    <2>5. map' \in Seq(Area) /\ DOMAIN map' = {1} /\ map'[1] = Free(0, m)
        BY <2>1, <2>4
    <2>6. MapTruthful'
        BY <1>3, <2>1, <2>5 DEF MapTruthful, Truthful, Free
    <2>7. ~ IsTarget(Free(0, m))
        <3>1. Low(0) \in Nat /\ Low(0) <= 0 /\ Low(m) \in Nat /\ Low(m) <= m
            BY <2>3, LowBelow
        <3>2. Low(0) + Low(m) \in Nat
            BY <3>1
        <3>3. Low(Low(0) + Low(m)) \in Nat /\ Low(Low(0) + Low(m)) <= Low(0) + Low(m)
            BY <3>2, LowBelow
        <3>. QED
            BY <1>2, <2>3, <3>1, <3>3 DEF IsTarget, Free
    <2>. QED
        BY <1>5, <2>2, <2>5, <2>6, <2>7
<1>. QED
    BY <1>4, <1>6, <1>7

\* The conversion of an entry keeps it (the loop over the UEFI map).
LEMMA ConvertedKept ==
    ASSUME NEW e \in Area
    PROVE  Converted(e) = e
    BY DEF Converted, ConvertedType, Area

\* GetMemoryMap: the map is that of the machine, or it is known as unread.
LEMMA GetMapStep ==
    ASSUME IInv, GetMap
    PROVE  IInv'
<1>. USE DEF Goto
<1>1. /\ UNCHANGED <<machine, areas, image, a20, count, mem, size>>
      /\ pc = "map" /\ pc' = "handle" /\ handed' = TRUE
    BY DEF GetMap, machine
<1>0. LoadInv'
    BY <1>1 DEF LoadInv, A20Inv, CounterInv, Before, OrderInv
<1>2. areas \in Seq(Area) /\ Len(areas) \in Nat /\ MaxEntries \in Nat
    BY BootAssumption DEF IInv, TypeOK
<1>3. fw' \in FwType /\ fw.n \in Nat
    BY DEF GetMap, IInv, TypeOK, FwType
<1>4. Whole' = Whole /\ \A a : IsRam(a)' = IsRam(a)
    BY <1>1 DEF Whole, IsRam, Size
<1>5. ASSUME map' \in Seq(Area), events' \subseteq events \cup {"unread"}, MapInv'
      PROVE  IInv'
    <2>1. TypeOK'
        BY <1>1, <1>3, <1>5 DEF IInv, TypeOK, Labels, FwType, machine, Sector, Sums
    <2>2. Below4GB' = Below4GB
        BY <1>1 DEF Below4GB
    <2>. QED
        BY <1>0, <1>1, <1>4, <1>5, <2>1, <2>2
        DEF IInv, ReadInv, E820Inv, KernelIsWhole, Targets, TargetInv
<1>6. CASE fw.n <= fw.sz
    <2>. DEFINE n == Smaller(Len(areas), MaxEntries)
    <2>1. n \in Nat /\ n <= Len(areas)
        BY <1>2 DEF Smaller
    <2>2. map' = [k \in 1 .. n |-> Converted(areas[k])] /\ events' = events
        BY <1>3, <1>6 DEF GetMap, IInv, TypeOK
    <2>. HIDE DEF n
    <2>3. \A k \in 1 .. n : k \in DOMAIN areas /\ areas[k] \in Area
        BY <1>2, <2>1
    <2>4. map' = [k \in 1 .. n |-> areas[k]]
        BY <2>2, <2>3, ConvertedKept
    <2>5. map' \in Seq(Area) /\ DOMAIN map' = 1 .. n
        BY <2>1, <2>3, <2>4
    <2>6. \A k \in 1 .. n : Truthful(areas[k])
        BY <2>3, AreaTruthful DEF IInv
    <2>7. MapInv'
        BY <1>4, <2>2, <2>4, <2>5, <2>6 DEF MapInv, MapTruthful, Truthful
    <2>. QED
        BY <1>5, <2>2, <2>5, <2>7 DEF IInv, TypeOK
<1>7. CASE ~ (fw.n <= fw.sz)
    <2>. DEFINE n == Smaller(fw.n, MaxEntries)
    <2>1. n \in Nat
        BY <1>2, <1>3 DEF Smaller
    <2>2. PICK e \in Leftover : map' = [k \in 1 .. n |-> Converted(e)]
        BY <1>7 DEF GetMap
    <2>3. events' = events \cup {"unread"}
        BY <1>7 DEF GetMap
    <2>. HIDE DEF n
    <2>4. e \in Area
        <3>1. \A d \in Range(areas) : d \in Area
            BY <1>2 DEF Range
        <3>2. \A d \in Area, f \in BOOLEAN : [d EXCEPT !.free = f] \in Area
            BY DEF Area
        <3>3. Free(0, 0) \in Area
            BY DEF Free, Area
        <3>. QED
            BY <3>1, <3>2, <3>3 DEF Leftover
    <2>5. map' \in Seq(Area)
        BY <2>1, <2>2, <2>4, ConvertedKept
    <2>6. MapInv'
        BY <2>3 DEF MapInv
    <2>. QED
        BY <1>5, <2>3, <2>5, <2>6 DEF IInv, TypeOK
<1>. QED
    BY <1>6, <1>7

\* A step that changes nothing keeps the invariant.
LEMMA StutterStep ==
    ASSUME IInv, UNCHANGED vars
    PROVE  IInv'
<1>1. UNCHANGED <<pc, machine, a20, count, mem, size, map, handed, fw, events>>
    BY DEF vars
<1>2. UNCHANGED dataVars
    BY <1>1 DEF dataVars, MapMarks
<1>3. TypeOK'
    BY <1>1 DEF IInv, TypeOK, machine, Sector, Sums
<1>4. LoadInv'
    BY <1>1, <1>2, DataKept
    DEF IInv, LoadInv, A20Inv, CounterInv, Before, OrderInv, Start, Turns, machine
<1>5. ReadInv' /\ KernelIsWhole'
    BY <1>1, <1>2, DataKept DEF IInv, ReadInv, KernelIsWhole, machine
<1>6. E820Inv'
    BY <1>1 DEF IInv, E820Inv, machine
<1>7. Below4GB' => Targets' /\ TargetInv'
    BY <1>1, <1>2, DataKept DEF IInv, Targets, TargetInv
<1>. QED
    BY <1>2, <1>3, <1>4, <1>5, <1>6, <1>7, DataKept DEF IInv

-----------------------------------------------------------------------------

\* Every step of the loaders keeps the invariant.
THEOREM IInvInvariant == Spec => []IInv
<1>1. Init => IInv
    BY InitIInv
<1>2. IInv /\ [Step]_vars => IInv'
    <2>. SUFFICES ASSUME IInv, [Step]_vars PROVE IInv'
        OBVIOUS
    <2>1. CASE ResetDisk \/ CheckA20 \/ EnableA20 \/ LoadStage2 \/ CheckCPU \/ FindKernel
        BY <2>1, EarlyStep
    <2>2. CASE Analyse \/ Checksum \/ AllocKernel \/ CheckMagic
        BY <2>2, DecideStep
    <2>3. CASE GetSize \/ FindHandle \/ GetKey \/ Exit
        BY <2>3, FirmwareStep
    <2>4. CASE LoadFirst \/ LoadNext \/ ReadChunk
        BY <2>4, LoadFirstStep, LoadNextStep, ReadChunkStep
    <2>5. CASE E820
        BY <2>5, E820Step
    <2>6. CASE E801 \/ Int12
        BY <2>6, FallbackStep
    <2>7. CASE GetMap
        BY <2>7, GetMapStep
    <2>8. CASE UNCHANGED vars
        BY <2>8, StutterStep
    <2>. QED
        BY <2>1, <2>2, <2>3, <2>4, <2>5, <2>6, <2>7, <2>8 DEF Step
<1>. QED
    BY <1>1, <1>2, PTL DEF Spec

\* Whatever firmware, disk and image are like, the variables keep their types
\* (the counters of stage2.asm do not fall below 0).
THEOREM TypeCorrect == Spec => []TypeOK
<1>1. IInv => TypeOK
    BY DEF IInv
<1>. QED
    BY <1>1, IInvInvariant, PTL

\* Where A20 is on and every sector came back right, the kernel is entered only with
\* all of its sectors in their order, for images of every size up to one more than
\* loopCounter counts, and counters of every width: whatever the checksum is worth
\* (read_sectors_loop, read_kernel_file).
THEOREM KernelEnteredWhole == Spec => []KernelIsWhole
<1>1. IInv => KernelIsWhole
    BY DEF IInv
<1>. QED
    BY <1>1, IInvInvariant, PTL

\* The kernel takes nothing for free memory that is no RAM, except for what
\* FreeIsRam names (get_memory_map of stage2.asm, the map of uefi_boot.c).
THEOREM FreeMemoryIsRam == Spec => []FreeIsRam
<1>1. IInv => FreeIsRam
    BY DEF IInv, MapInv, MapTruthful, Truthful, FreeIsRam
<1>. QED
    BY <1>1, IInvInvariant, PTL

\* The kernel is entered in RAM when no area reaches over 4 GB
\* (analyze_memory of stage2.asm, AllocatePages in uefi_boot.c).
THEOREM KernelEnteredInRam == Spec => []TargetIsRam
<1>1. IInv => TargetIsRam
    BY DEF IInv, TargetInv, TargetIsRam, Below4GB
<1>. QED
    BY <1>1, IInvInvariant, PTL
===============================================================================
