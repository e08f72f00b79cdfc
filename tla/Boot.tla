--------------------------------- MODULE Boot ---------------------------------
(***************************************************************************)
(* From power-on to the jump into the kernel, on either way: BIOS with     *)
(* src/boot/stage1.asm and src/boot/stage2.asm, or the UEFI loader         *)
(* src/boot/UEFI/uefi_boot.c. A step is one firmware call with what the    *)
(* loader makes of the answer, or one turn of a loop.                      *)
(*                                                                         *)
(* Firmware is external: its calls fail, the line A20 stays off and is     *)
(* called on, a sector comes back wrong, and a UEFI memory map changes, as *)
(* they like; a UEFI file is read right or not at all. Memory is measured  *)
(* in units, the kernel in sectors, a UEFI map in descriptors. Of what is  *)
(* in a sector, there is where it belongs and what its words add up to.    *)
(* Messages, CPU flags, video modes and the mode switches are left out.    *)
(***************************************************************************)
EXTENDS Integers, SequencesExt

CONSTANTS
    Machines,     \* sequences of memory areas
    Images,       \* kernel.bin: its sectors' sums, whether its magic number is right
    KernelDst,    \* 0x100000, and the least RAM
    LowGuess,     \* 0x9F000
    E801Max,      \* 15 MB: what the AX of E801 can say
    Word,         \* 2^32
    SumMod,       \* 2^32, of the checksum
    CounterMod,   \* 2^16
    Retries,      \* 3
    MaxEntries,   \* E820_MAX_ENTRIES
    KernelPages,  \* KERNEL_MAX_PAGES, in units
    MaxSectors,   \* KERNEL_MAX_PAGES, in sectors
    ChunkSectors, \* 1 MB, in sectors
    Slack,        \* descriptors a map may grow by, 4
    MaxGrowth     \* bound: descriptors that the firmware adds

Area == [base : Nat, length : Nat, free : BOOLEAN]

ASSUME BootAssumption ==
    /\ \A m \in Machines : m \in Seq(Area)
    /\ \A f \in Images : f.sums \in Seq(0 .. SumMod - 1) \ {<<>>} /\ f.magic \in BOOLEAN
    /\ KernelDst \in Nat \ {0} /\ LowGuess \in 0 .. KernelDst /\ Word \in Nat \ 0 .. KernelDst
    /\ E801Max \in Nat
    /\ {SumMod, CounterMod, Retries, MaxEntries, KernelPages, MaxSectors, ChunkSectors} \subseteq Nat \ {0}
    /\ Slack \in Nat /\ MaxGrowth \in Nat

VARIABLES
    pc,
    areas,     \* the machine's memory
    image,     \* kernel.bin on the disk
    ram,       \* what the words of a sector of memory add up to before it is loaded
    a20,       \* the address line is on
    count,     \* .retry, loopCounter, and total of read_kernel_file
    mem,       \* the sectors from 0x100000 on
    size,      \* kernelSize, kernel_size, in sectors
    map,       \* the map built for the kernel
    handed,    \* e820_map_addr is its address
    fw,        \* UEFI: descriptors in the map and its key; mmap_sz, mmap_alloc, mmap_key
    events     \* history: what makes memory and map differ from disk and machine

machine == <<areas, image, ram>>
vars == <<pc, machine, a20, count, mem, size, map, handed, fw, events>>

Low(n) == n % Word

\* A sector is the one with that number of the disk, or a wrong one.
Wrong == -1
Sums == 0 .. SumMod - 1
Sector == [number : Nat \cup {Wrong}, sum : Sums]
Size == Len(image.sums)
OnDisk(k) == [number |-> k, sum |-> IF k < Size THEN image.sums[k + 1] ELSE 0]
Misreads == [number : {Wrong}, sum : Sums]

Free(base, length) == [base |-> base, length |-> length, free |-> TRUE]
IsIn(a, e) == e.free /\ e.base <= a /\ a < e.base + e.length
IsRam(a) == \E k \in DOMAIN areas : IsIn(a, areas[k])

Goto(l) == pc' = l
Halt == Goto("halt")
\* The firmware call succeeds, or the loader gives up.
OrHalt(l) == Goto(l) \/ Halt

Init ==
    /\ pc \in {"reset", "find"}
    /\ areas \in Machines /\ image \in Images
    /\ a20 \in BOOLEAN /\ ram \in Sums
    /\ count = 0 /\ mem = <<>> /\ size = 0 /\ map = <<>> /\ handed = FALSE
    /\ fw = [n |-> Len(areas), key |-> 0, sz |-> 0, alloc |-> 0, got |-> -1]
    /\ events = {}

-----------------------------------------------------------------------------
(* BIOS, stage 1.                                                          *)

ResetDisk ==
    /\ pc = "reset" /\ OrHalt("a20")
    /\ UNCHANGED <<machine, a20, count, mem, size, map, handed, fw, events>>

\* The BIOS says that the line is on, right or wrong, or that it is off, or nothing.
CheckA20 ==
    /\ pc = "a20"
    /\ \/ Goto("enable") /\ UNCHANGED events
       \/ Goto("stage2") /\ events' = events \cup (IF a20 THEN {} ELSE {"a20"})
    /\ UNCHANGED <<machine, a20, count, mem, size, map, handed, fw>>

\* The BIOS, then port 0x92, with a look at the memory after each.
EnableA20 ==
    /\ pc \in {"enable", "port"}
    /\ a20' \in {a20, TRUE}
    /\ \/ a20' /\ Goto("stage2")
       \/ ~a20' /\ Goto(IF pc = "enable" THEN "port" ELSE "halt")
       \/ pc = "enable" /\ Goto("port")
    /\ UNCHANGED <<machine, count, mem, size, map, handed, fw, events>>

\* As LoadStage2, with the attempts counted anew after every reset.
LoadStage2Forever ==
    /\ pc = "stage2"
    /\ \/ OrHalt("e820") /\ UNCHANGED count
       \/ count' = 1 - count /\ OrHalt("stage2")
    /\ UNCHANGED <<machine, a20, mem, size, map, handed, fw, events>>

\* An attempt succeeds, with the magic number of stage 2 or another one, or
\* fails and the disk is reset.
LoadStage2 ==
    /\ pc = "stage2"
    /\ \/ OrHalt("e820") /\ UNCHANGED count
       \/ count' = count + 1 /\ (IF count' = Retries THEN Halt ELSE OrHalt("stage2"))
    /\ UNCHANGED <<machine, a20, mem, size, map, handed, fw, events>>

-----------------------------------------------------------------------------
(* BIOS, stage 2: the memory map.                                          *)

\* The BIOS returns one area after the other. An error after the first one
\* ends the map.
E820 ==
    /\ pc = "e820"
    /\ \/ Len(map) < Len(areas) /\ map' = Append(map, areas[Len(map) + 1]) /\ UNCHANGED <<pc, handed>>
       \/ /\ UNCHANGED map
          /\ handed' = (map # <<>>)
          /\ Goto(IF map # <<>> THEN "analyse" ELSE "e801")
    /\ UNCHANGED <<machine, a20, count, mem, size, fw, events>>

\* The BIOS says how much memory there is from 0x100000 on, up to 16 MB in AX;
\* what is behind them, in BX, is not used. The lower area is a guess, and
\* e820_map_addr is not set.
E801 ==
    /\ pc = "e801"
    /\ LET above == {n \in 0 .. E801Max : \A a \in KernelDst .. KernelDst + n - 1 : IsRam(a)}
       IN  \/ Goto("int12") /\ UNCHANGED <<map, events>>
           \/ /\ map' = <<Free(0, LowGuess), Free(KernelDst, Max(above))>>
              /\ events' = events \cup {"fallback"}
              /\ Goto("analyse")
    /\ UNCHANGED <<machine, a20, count, mem, size, handed, fw>>

Int12 ==
    /\ pc = "int12"
    /\ LET below == {n \in 0 .. KernelDst - 1 : \A a \in 0 .. n - 1 : IsRam(a)}
       IN  map' = <<Free(0, Max(below))>>
    /\ events' = events \cup {"fallback"}
    /\ Goto("analyse")
    /\ UNCHANGED <<machine, a20, count, mem, size, handed, fw>>

\* As IsTarget, without a look at the end of the area.
IsTargetBase(e) == e.free /\ Low(e.base) <= KernelDst

\* Whether the kernel may be loaded, by the lower words of base and length.
IsTarget(e) == e.free /\ Low(e.base) <= KernelDst /\ Low(Low(e.base) + Low(e.length)) > KernelDst

\* The RAM is counted by lower words, too.
Analyse ==
    /\ pc = "analyse"
    /\ LET total == FoldLeft(LAMBDA n, e : IF e.free THEN n + Low(e.length) ELSE n, 0, map)
       IN  Goto(IF (\E k \in DOMAIN map : IsTarget(map[k])) /\ total >= KernelDst
                THEN "cpu" ELSE "halt")
    /\ UNCHANGED <<machine, a20, count, mem, size, map, handed, fw, events>>

CheckCPU ==
    /\ pc = "cpu" /\ OrHalt("first")
    /\ UNCHANGED <<machine, a20, count, mem, size, map, handed, fw, events>>

-----------------------------------------------------------------------------
(* BIOS, stage 2: the kernel.                                              *)

\* The next sector is copied behind the ones before. With A20 off it goes 1 MB
\* lower, where the checksum reads it as well.
Copied(sector) == mem' = Append(mem, IF a20 THEN sector ELSE [sector EXCEPT !.number = Wrong])

Misread(sector) == IF sector.number = Wrong THEN {"misread"} ELSE {}

\* The first sector has magic number and size, and one that is wrong elsewhere may
\* have another size. The counter has 16 bits.
LoadFirst ==
    /\ pc = "first"
    /\ \/ Halt /\ UNCHANGED <<count, mem, size, events>>
       \/ \E sector \in {OnDisk(0)} \cup Misreads :
              /\ IF sector.number = 0 THEN image.magic /\ size' = Size
                                      ELSE size' \in {Len(f.sums) : f \in Images}
              /\ Copied(sector)
              /\ count' = ((size' % CounterMod) - 1) % CounterMod
              /\ events' = events \cup Misread(sector)
                                  \cup (IF size' > CounterMod + 1 THEN {"large"} ELSE {})
              /\ Goto("load")
    /\ UNCHANGED <<machine, a20, map, handed, fw>>

Loaded(last) ==
    /\ pc = "load"
    /\ \/ Halt /\ UNCHANGED <<count, mem, events>>
       \/ /\ \E sector \in {OnDisk(Len(mem))} \cup Misreads :
                 Copied(sector) /\ events' = events \cup Misread(sector)
          /\ count' = (count - 1) % CounterMod
          /\ Goto(IF count' = last THEN "sum" ELSE "load")
    /\ UNCHANGED <<machine, a20, size, map, handed, fw>>

\* As LoadNext, with a counter that is taken for the last sector's number.
LoadNextShort == Loaded(1)

\* The other sectors, each of them in less than ten seconds. The counter is
\* tested after it was decremented.
LoadNext == Loaded(0)

\* As Checksum, with the jump to .checksum_skip that was there for a while.
ChecksumSkipped ==
    /\ pc = "sum" /\ OrHalt("kernel")
    /\ UNCHANGED <<machine, a20, count, mem, size, map, handed, fw, events>>

\* What the k-th sector from 0x100000 adds up to.
SumInMemory(k) == IF k <= Len(mem) THEN mem[k].sum ELSE ram

\* All of the words add up to 0, in whatever order. Then only an entry point of 0
\* keeps stage 2 from the jump.
Checksum ==
    /\ pc = "sum"
    /\ LET sum == FoldLeft(LAMBDA n, k : (n + SumInMemory(k)) % SumMod, 0, [k \in 1 .. size |-> k])
       IN  IF sum = 0 THEN OrHalt("kernel") ELSE Halt
    /\ UNCHANGED <<machine, a20, count, mem, size, map, handed, fw, events>>

-----------------------------------------------------------------------------
(* UEFI.                                                                   *)

\* The firmware allocates, and the map may change.
Grown(f) == {[f EXCEPT !.n = @ + g, !.key = @ + g] : g \in 0 .. Len(areas) + MaxGrowth - f.n}

FindKernel ==
    /\ pc = "find" /\ OrHalt("pages")
    /\ UNCHANGED <<machine, a20, count, mem, size, map, handed, fw, events>>

AllocKernel ==
    /\ pc = "pages"
    /\ IF \A a \in KernelDst .. KernelDst + KernelPages - 1 : IsRam(a) THEN OrHalt("read") ELSE Halt
    /\ UNCHANGED <<machine, a20, count, mem, size, map, handed, fw, events>>

Smaller(a, b) == IF a < b THEN a ELSE b

\* A chunk of the file; nothing is left when the chunk is empty.
ReadChunk ==
    /\ pc = "read"
    /\ LET chunk == Smaller(MaxSectors - count, ChunkSectors)
           got == Smaller(chunk, Size - count)
       IN  \/ Halt /\ UNCHANGED <<count, mem>>
           \/ chunk # 0 /\ got = 0 /\ Goto("magic") /\ UNCHANGED <<count, mem>>
           \/ /\ got # 0 /\ UNCHANGED pc
              /\ mem' = mem \o [k \in 1 .. got |-> OnDisk(count + k - 1)]
              /\ count' = count + got
    /\ UNCHANGED <<machine, a20, size, map, handed, fw, events>>

CheckMagic ==
    /\ pc = "magic"
    /\ \/ ~image.magic /\ Halt /\ UNCHANGED size
       \/ image.magic /\ Goto("size") /\ size' = Size
    /\ UNCHANGED <<machine, a20, count, mem, map, handed, fw, events>>

\* The buffer is larger than the map, but GetMemoryMap is not told so.
GetSize ==
    /\ pc = "size"
    /\ fw' \in Grown([fw EXCEPT !.sz = fw.n, !.alloc = fw.n + Slack])
    /\ Goto("map")
    /\ UNCHANGED <<machine, a20, count, mem, size, map, handed, events>>

\* As ConvertedType, with types it does not know taken as free.
ConvertedTypeFree(e) == TRUE

ConvertedType(e) == e.free
Converted(e) == [e EXCEPT !.free = ConvertedType(e)]

\* What an allocated buffer may hold: nothing, or some area free or not.
Leftover == {Free(0, 0)} \cup {[e EXCEPT !.free = f] : e \in Range(areas), f \in BOOLEAN}

\* GetMemoryMap fills the buffer when the map has not grown meanwhile; the
\* buffer is converted in any case.
GetMap ==
    /\ pc = "map"
    /\ \/ /\ fw.n <= fw.sz
          /\ map' = [k \in 1 .. Smaller(Len(areas), MaxEntries) |-> Converted(areas[k])]
          /\ fw' = [fw EXCEPT !.got = fw.key]
          /\ UNCHANGED events
       \/ /\ fw.n > fw.sz
          /\ \E e \in Leftover : map' = [k \in 1 .. Smaller(fw.n, MaxEntries) |-> Converted(e)]
          /\ events' = events \cup {"unread"}
          /\ UNCHANGED fw
    /\ handed' = TRUE
    /\ Goto("handle")
    /\ UNCHANGED <<machine, a20, count, mem, size>>

\* The firmware allocates the list of handles.
FindHandle ==
    /\ pc = "handle"
    /\ fw' \in Grown(fw) /\ OrHalt("key")
    /\ UNCHANGED <<machine, a20, count, mem, size, map, handed, events>>

\* A key is got unless the map has outgrown its buffer.
GetKey ==
    /\ pc \in {"key", "again"}
    /\ fw' = [fw EXCEPT !.got = IF fw.n > fw.alloc THEN @ ELSE fw.key]
    /\ Goto(IF pc = "key" THEN "exit" ELSE "last")
    /\ UNCHANGED <<machine, a20, count, mem, size, map, handed, events>>

\* ExitBootServices takes the key of the present map only. The message
\* before it, and a refused call, may change the map.
Exit ==
    /\ pc \in {"exit", "last"}
    /\ fw' \in (IF pc = "exit" THEN Grown(fw) ELSE {fw})
    /\ IF fw'.got = fw'.key THEN Goto("kernel")
       ELSE Goto(IF pc = "exit" THEN "again" ELSE "halt")
    /\ UNCHANGED <<machine, a20, count, mem, size, map, handed, events>>

-----------------------------------------------------------------------------

Step ==
    \/ ResetDisk \/ CheckA20 \/ EnableA20 \/ LoadStage2
    \/ E820 \/ E801 \/ Int12 \/ Analyse \/ CheckCPU
    \/ LoadFirst \/ LoadNext \/ Checksum
    \/ FindKernel \/ AllocKernel \/ ReadChunk \/ CheckMagic
    \/ GetSize \/ GetMap \/ FindHandle \/ GetKey \/ Exit

\* The loaders run, and firmware calls return.
Spec == Init /\ [][Step]_vars /\ WF_vars(Step)

-----------------------------------------------------------------------------
(* Properties.                                                             *)

Labels ==
    {"reset", "a20", "enable", "port", "stage2", "e820", "e801", "int12", "analyse", "cpu",
     "first", "load", "sum", "find", "pages", "read", "magic", "size", "map", "handle",
     "key", "exit", "again", "last", "kernel", "halt"}

\* Types: in particular the sectors still to be loaded are never negative,
\* and what is handed to the kernel is a sequence of areas (stage2.asm,
\* uefi_boot.c).
TypeOK ==
    /\ pc \in Labels
    /\ areas \in Machines /\ image \in Images
    /\ a20 \in BOOLEAN /\ handed \in BOOLEAN /\ ram \in Sums
    /\ count \in Nat /\ mem \in Seq(Sector) /\ size \in Nat /\ map \in Seq(Area)
    /\ fw \in [n : Nat, key : Nat, sz : Nat, alloc : Nat, got : Int]
    /\ events \subseteq {"fallback", "unread", "a20", "misread", "large"}

Whole == Len(mem) >= Size /\ \A k \in 1 .. Size : mem[k].number = k - 1

\* The kernel is entered only with all of kernel.bin in memory in its order and with
\* its magic number, although the BIOS way counts sectors with 16 bits and tests the
\* counter after it has gone from 0 to 65535, and UEFI reads the file in chunks
\* (loadKernel of stage2.asm, read_kernel_file). Known exceptions on the BIOS way: a
\* sector that came back wrong, A20 off and called on, and a kernel of more than
\* 65537 sectors, of which only a part is loaded. They have only the checksum
\* against them.
KernelIsWhole ==
    pc = "kernel" /\ events \cap {"misread", "a20", "large"} = {} => image.magic /\ Whole

\* The kernel's sectors that memory has with another sum.
Differing == {k \in 1 .. Size : SumInMemory(k) # image.sums[k]}

\* What the checksum gives: a kernel of which one sector differs by its sum is not
\* entered, be it one that came back wrong or one that the counter has left out, as
\* long as the size in its header is right (checksum_loop of stage2.asm, "FEHLER:
\* Kernel korrupt!"). Two may cancel each other, and order does not matter to it.
OneErrorIsTold == pc = "kernel" /\ size = Size => Cardinality(Differing) # 1

\* What the kernel may take for free memory is RAM, on every way to a map
\* (E820, E801, INT 12, UEFI). Known exceptions: the lower area of E801 is a
\* guess, and the UEFI loader converts a buffer that GetMemoryMap refused to
\* fill.
FreeIsRam ==
    pc = "kernel" /\ "unread" \notin events =>
        \A k \in DOMAIN map : \A a \in map[k].base .. map[k].base + map[k].length - 1 :
            map[k].free => IsRam(a) \/ ("fallback" \in events /\ a < LowGuess)

\* The kernel is entered only where its first unit is RAM (analyze_memory,
\* AllocatePages), as long as no area lies above 4 GB: stage 2 compares lower
\* words.
TargetIsRam ==
    pc = "kernel" /\ (\A k \in DOMAIN areas : areas[k].base + areas[k].length <= Word)
        => IsRam(KernelDst)

\* Every loop of the loaders ends (.retry of stage 1, e820_loop and
\* read_sectors_loop of stage 2, the chunks of the UEFI loader and its second
\* try of ExitBootServices): the kernel runs or the loader has given up, with a message
\* or, as UEFI's in four places, without one.
BootEnds == <>(pc \in {"kernel", "halt"})
=============================================================================
