# A TLA+ model of LivlyOS

LivlyOS is a small x86-64 kernel: one CPU, one address space, everything in
ring 0, pre-emptive scheduling by a 1000 Hz timer, and three processes: the
shell, an idle loop and a reaper. Paths below are relative to `src/` of the
repository, so `src/mm/pmm.c` is `src/src/mm/pmm.c` in PROJECT.json.

Contents: 1 inventory, 2 plan, 3 the modules and the code, 4 the runs,
5 fairness, 6 what is proved, 7 what disagrees with the code's comments and
tests, 8 what is only model-checked, what is left out.

## 1. Inventory

Who calls whom: the boot chain loads the kernel and hands it a `BootInfo` with
the memory map. `Kernel_main` initialises console, GDT, PMM, VMM, heap, IDT,
timer, keyboard, process list and FAT *with interrupts off*, adds the three
processes, and jumps into the first one with `iretq`; from then on interrupts
are on everywhere except inside interrupt handlers. There are no locks and no
`cli` sections anywhere in the kernel: what two processes share, or a process
and a handler, is shared access by access.

| component | state | operations | hard part | correct when |
|---|---|---|---|---|
| process list, scheduler (`proc/`) | ring of PCBs, `head`, `current`, per PCB `next`, `state`, `ticks_remaining` | `create_process`, `scheduler_add`, `schedule` (timer), `process_yield`, `kill_process`, `schedular_remove`, `reaper_process`, `cmd_ps` | three parties on one unlocked list; PCBs freed under a walk; the reaper's locals outlive its turns | the ring stays whole, a dead or freed PCB is never dispatched, nobody starves, every killed process is reaped once |
| timer, interrupt dispatch (`kernel/idt.c`, `timer.c`, `boot/interrupts.asm`) | `system_ticks`, the saved frame | IRQ0 → `schedule`, IRQ1 → keyboard, exceptions → halt | it comes between any two instructions | handlers are atomic, everything else is not |
| PMM (`mm/pmm.c`) | bitmap, `total_pages`, `free_pages`, where bitmap and heap lie | `pmm_init`, `pmm_reserve_range`, `pmm_alloc`, `pmm_free` | rounding at both ends of map entries, ranges behind the bitmap, double frees; read-modify-write on bytes shared by eight pages, with interrupts on | only whole RAM pages are free, reserved pages never are, one holder per page, counter = number of 0 bits |
| heap (`mm/kmalloc.c`) | list of block headers in the heap itself | `kmalloc_init`, `kmalloc`, `kfree`, `merge_blocks` | splitting and merging over a long history; two callers at once | the blocks tile the heap, areas do not overlap, nothing is lost, every call ends |
| VMM (`mm/vmm.c`) | four levels of page tables | `map_page`, `unmap_page`, `virt_to_phys`, `vmm_init` | new tables are not zeroed; missing levels | a translation is what was last mapped |
| keyboard (`drivers/keyboard.c`) | `extended`, `shift_gedrueckt`, `ctrl_gedrueckt`, ring of 1096 bytes | IRQ1 `keyboard_handler`, `keyboard_push`, `keyboard_read` | interrupt against reader; a full ring; two shift keys; scancodes behind the tables | keys come out in order and once; a flag is set while its key is down |
| FAT32 (`drivers/fs/fat.c`) | on disk: FAT and directories; in memory: one cached FAT sector with a dirty flag, `cwd_cluster`, `cwd_path` | list, write, create, open, cd, delete, rename, read, write data, allocate and extend chains | the cache against direct sector writes; a full disk; power-off between two sectors; the path and the cluster it stands for | every chain ends and belongs to one entry, the cache never shows a used cluster as free, saved text is read back, `cd ..` goes up |
| ATA (`drivers/fs/ata.c`) | the controller | read, write, flush by polling | time-outs by a clock that stands still with interrupts off | a call ends, and says whether it worked |
| editor (`Apps/Editor/editor.c`) | lines, cursor, selection, clipboard, undo and redo rings, dirty marks | insert, newline, backspace, delete/copy/paste, undo, redo, scroll, load, save | many fields changed together, limits on lines and columns | load after save gives the lines back, undo undoes, cursor and lines stay in their arrays, the screen shows the text |
| shell (`kernel/shell/shell.c`) | input line, history ring, where the prompt stands | line editing, history, parsing, about 20 commands | the line is redrawn by hand; the ring's boundary; number parsing | the screen shows the line that is executed; the history recalls lines in their order |
| consoles (`kernel/vga.c`, `console.c`, `drivers/graphics/`) | cursor, colours, back-end | put, newline, scroll, set position | last line and last column | output stays inside the screen |
| boot (`boot/`) | registers, loaded sectors, map, page tables | A20 ladder, disk retries, E820 loop, chunked load; UEFI map and `ExitBootServices` | retries and counts down to 0; a UEFI map that changes while it is read | the kernel is complete in memory, in RAM, and gets a map of RAM; what the checksum tells; booting ends |
| GDT, port I/O, font, build files | tables | | | data without control |

The stress tests (`kernel/stress_test.c`) are clients of PMM and heap. They say
in words what the project takes as claims of the code about itself.

## 2. Plan

The order is by how much of the system rests on a part, and by how little a
test can reach of it.

| step | modules | abstract specification | theorems | state |
|---|---|---|---|---|
| 1 | Scheduler, SchedulerTurns | Lifecycle | ring, dispatch, no write after free, refinement, bound on waiting | done |
| 2 | PmmState, Pmm, PmmPreempted | (the bitmap as a set of pages) | counter, RAM only, reservations, one holder, damage in one byte | done |
| 3 | KmallocState, Kmalloc, KmallocPreempted | Allocator | tiling, areas apart, NULL, refinement; interrupted calls | done |
| 4 | Keyboard: scancode machine, on KeyRing: the ring between IRQ1 and reader | KeyStream | positions, refinement for every ring size, keys mean what was held | done |
| 5 | Fat: FAT entries, cache, directories, sector by sector; a crash between any two writes | (the texts saved through each entry, as history) | CacheHidesOnlyFrees, ChainsApart, SavedIsRead, where `cd ..` leads, the path, names | done |
| 6 | Editor: lines, cursor, selection, clipboard, undo, screen, file | (the texts before each change, as history) | lines and cursor, screen, undo, save and open | done |
| 7 | Console, and Shell on it: line editing, history, dispatch | (the lines executed, as history) | line and history, RecallsInOrder, the screen | done |
| 8 | Boot: BIOS and UEFI from power-on to the kernel | | types, KernelIsWhole, FreeIsRam, TargetIsRam | done |

Shell extends Console. Fat takes the file commands of the shell and the save of
the editor as its operations; Editor has a file of its own. Parameters (sizes,
numbers of processes, maps, layouts) are CONSTANTS with named assumptions as weak
as the code allows. Loops that need it are recursive functions; no module declares a
RECURSIVE operator, so that all of them can be proved about.

## 3. Modules and code

Conventions. A definition keeps the name the code has for its idea. Definitions
that begin with a comment "As X, …" are variants of X with a fault that is easy
to make there; nothing uses them, they are there to show that each property can
fail. `events`, `saved`, `past`, `ahead`, `log`, `tidy` are history variables: the
program has no such state, and no guard reads them.

### Scheduler

A PCB is its pid: `create_process` counts pids from 0 and no pid is used twice.
NULL is `Nil`. `next`, `state`, `ticks` are functions of the pid, and stay
defined for a PCB that was freed, because `kfree` writes to block headers only
and the walks really do read freed PCBs. (That a freed PCB keeps its contents
until the walk has left it needs that nobody allocates meanwhile: after
boot only the shell calls `kmalloc`, and it is busy walking.)

* Boot: `AddFirst`, `AddLast`, `Start` are `scheduler_add` and the end of
  `Kernel_main`. `scheduler_add`'s return on a failed `create_process` is left
  out: at boot neither heap nor PMM is exhausted.
* Timer: `Tick` is the whole of `schedule()` and the count of `system_ticks`,
  atomic because handlers run with interrupts off. `TickKeeps` is the early
  return, `TickSwitches` the switch, `TickFindsNobody` the return after a loop
  that ended on a ZOMBIE. The selection loop is stated as a set: `Inspected` is
  what the loop looks at, `Candidates` the one it can end with. The counters
  `checked` and `total` are `uint8_t` in the code and would wrap at 256
  processes, which nothing in the kernel can create.
* Reaper: `rprev`, `rcur`, `rself`, `rfree`, `rsafety` are its locals `prev`,
  `cur`, `current`, `to_free`, `safety`; one action per access to shared memory that
  another process could notice: begin, test and pass, test and choose, unlink, free
  the page, free the PCB, sleep, wake. Each requires that the reaper has the CPU, and
  `Tick` may fall between any two. The unlinking itself (load of `cur->next`, store to
  `prev->next`, reload) is one action, since after boot nobody but the reaper writes a
  `next`.
* Shell: `WalkBegins`, `WalkPasses`, `WalkMatches`, `WalkKills` are
  `schedular_remove(pid)` with `kill_process` inside, and with a pid that
  matches nothing also `cmd_ps`. The test in `kill_process` and the write after
  it are two steps.
* `process_yield` is called by nobody in this kernel; `Yielders` says who does in
  an instance.

`SchedulerTurns` adds a history variable, for how many ticks each process has
been waiting. `Lifecycle` is what the list promises, without a list.

### PmmState, Pmm and PmmPreempted

`PmmState` declares the variables that the other two share.

`Pmm` is the PMM for a caller who is alone. The bitmap is the set `used` of pages
with bit 1. `pmm_init` is one action per loop iteration: highest address
(`Scan`), bitmap filled (`Fill`), entries (`SkipEntry`, `TakeEntry`, `ClearPage`,
`EntryDone`), five reservations page by page (`ReservePage`, `RangeDone`).
`ReservedAddr` and `ReservedLength` are the arguments of the five calls. Numbers
are unbounded: addresses of real maps stay far below 2^64. `Free` is also called
with pages that are free already, with page 0, and with the first page number
behind the bitmap, for the ones the out-of-memory value leads to.

`PmmPreempted` takes `pmm_alloc` and `pmm_free` apart into the loads and stores
of the unoptimised build (`-O0`), for two tasks: the shell in the stress test and
the reaper that frees one page. The bitmap's bytes hold `ByteBits` pages, and a
store writes the whole byte back.

### KmallocState, Kmalloc and KmallocPreempted

`KmallocState` declares what the other two share.

`Kmalloc` has one action per iteration of the two loops: `SearchPasses`,
`SearchFails`, and the two ends of a successful search, `Splits` and `TakesWhole`;
`FreeBegins`, `Merges`, `MergeDone`. Addresses count from `heap_start`. `heap` is
the memory as it looks through a `Block *`, at every address. `blocks`, the
addresses that are on the list, is not in the program; `HeapTiled` ties it to the
pointers. `kmalloc(0)` is not modelled, nobody calls it; `kfree(NULL)` returns at
once.

`KmallocPreempted` goes down to single accesses to the headers, for the shell in
the heap stress test and the reaper's one `kfree`, on the heap as boot leaves it.
A call is interrupted at most once (`cut`): a turn is at least a millisecond and a
call takes microseconds. Nothing else is assumed of where a call is interrupted, or
of what begins inside it. `split` is a history variable: kmalloc has split the block
of a `kfree` that is not over. `Allocator` is the abstract heap; that `Kmalloc`
implements it is about calls that do not overlap in time.

### KeyRing and Keyboard

`KeyRing` is `keyboard_push` and `keyboard_read` with the ring between them. The
push runs in the interrupt handler and is atomic; `keyboard_read` has three steps,
the test, the load and the advance, and pushes may fall between them. A key is
its number in the order of typing: `typed`, `delivered` and these numbers are
history, the program has bytes. `KeyStream` is what the reader may rely on.

`Keyboard` extends it with the handler: one action per branch of
`keyboard_handler`, each for one byte from the wire. The keyboard itself (`Strike`,
`Make`, `Break`, `Pause`: external) sends scancode set 1 as the controller's
translation delivers it: prefixed codes, the fake release and press of shift
around an arrow, repeats, and Pause with its make and break in one. Of keys that
the driver treats alike there is one: A for letters, S for the five keys with a
Ctrl code, Tab for keys the tables have 0 for, Num Lock for those beyond the
tables, up for the arrows. Beyond the tables the code reads some other byte,
which is modelled as any character or none. `keyboard_init` is left out, as is
`letztes_zeichen`, which nothing reads.

### Fat

`fat` and `disk` are what is on the disk; `cache` is `cached_fat_sector_nr` with
`cached_fat_buf`, or `NoCache`; the dirty flag is left out because every function
that changes the cached sector flushes it before it returns, in the same step.
`op` is the command under way: its program counter and the locals of the
functions it is in. `Create`, `MkDir`, `CdTo`, `Remove`, `Move`, `Cat`, `List`,
`Save` begin the shell's commands and the editor's save, `CdRoot` and `CdBack` do
not touch the FAT and are one step. Then a step writes at most one sector: `Check`
(the search for the name), `Place` (a slot and a cluster), `Entry`, `Dots`
(`fat_init_dir_cluster`), `Mark`, `Zero`, `Link` (`fat_extend_chain`), `Open`,
`Unlink`, `Free` (`fat_delete_file`), `Rename`, `Locate`, `Data`
(`fat_write_data`), `Read`, `Chain`, `Dir`. `Crash` is the power going off before
any of them, and `fat_init` afterwards.

What a user types as a name (`Typed`) is a short name (`Names`), a longer one
(`LongNames`), "." or "..". An entry keeps eight characters (`Stored`, with `Cut` for
the beginning of a longer name), and `str_equal_fat` finds no entry for a name of more
than eight (`Matches`). "." and ".." are words like others to `create`, `mkdir`, `rm`,
`cat`, `mv` and the editor, and match the entries that `fat_init_dir_cluster` has
written; only `cd` takes whatever begins with ".." for `cd ..`, so no name here does
else. The empty word, which mv accepts, is there. Extensions are left out: the
comparison does not look at them. A text is a version and a length in clusters. A cluster is one sector, as on the image the Makefile builds. A
directory may be overwritten by a text (`/edit` does not look at the
attributes); after that its slots hold bytes of the text, and a cluster number
from them is `Astray`, behind the volume, where the model stops.

`events` notes what nothing recovers from or what voids one property: "zero" (an
entry for cluster 0, which stands for a sector in front of the data area), "torn"
(power off between the entry and the first sector of a directory), "dotted" (an
entry "." or ".." was removed, renamed, written or saved to, so that the chain of a
directory that is still entered may be free), "deep" (mkdir in the later cluster of a
directory), "cut" (a longer name was stored), "here" (`cd .` has put a word into the
path; over with the next `cd`), "renamed", "overwritten". Which property depends on
which is in the property; `CacheHidesOnlyFrees` on none.

A volume to start with (`WholeAssumption`) is one that this driver has written and
nothing went wrong with ("zero"): its slots hold records of the right kind, no
name is empty, no cluster follows two others or a free one, and every entry has a
first cluster of its own, which is in use. That includes entries in sectors that
are free now, of directories that were removed: the driver never clears them.
A freshly formatted volume is one. `TextsAssumption` adds that no mkdir has run on
it in the later cluster of a directory: `..` in each directory leads to the one
its entry is in (`Upward`), and each text the history `saved` has lies in the chain
of its file (`Holds`). It speaks of the clusters by an owner, the file or directory
whose chain they are in (`Divides`), 0 for those in none; where nothing was saved
yet, only the directories matter. `NamesAssumption` adds that mv has given no name
twice, and that a directory ends at the first slot that was never used, as it does
where only `create` and `mkdir` have filled it (`Tidy`): the search for a name stops
there. It is about the clusters `Behind` the first one of the root and of every
directory with an entry, found or not. `DotsAssumption` says that an entry "." is in the
first cluster of a chain and names it. TLC evaluates all four assumptions for the volumes of
MCFat.

### Editor

One step is one key of the loop in `fat_edit_file`: the handler, then
`ed_scroll_to_cursor` and `ed_render`. `ed` is the record `EditorState`; the
handlers are operators on it under their names without the prefix `ed_`. `shown`
is what was last drawn in each row. `file` is the file: `CtrlS` is
`ed_lines_to_buf` and the write, `Reopen` is Escape and opening it again with
`ed_buf_to_lines`. Saving also writes how long it took into row 1. Where the code
would write behind a line or the last line, `ok` becomes FALSE and the model
stops. Clipboard and old lines survive `Reopen`, as the static state does. At first
the clipboard holds what the memory from `kmalloc` does (`Clips`): nothing clears
`clipboard_len` before the first copy. A length below 0 is an empty clipboard, and
one beyond the array is a longer one. That `fat_read_file` copies whole sectors into
a buffer of 15600 bytes, so that a file of more than 15360 bytes is written past it
(`fat.c:702`, `editor.c:464`), is not modelled: here the buffer is as long as the
file.

### Console and Shell

`Console` is a record with operators: cells, column, row, and which of the two
back-ends. VGA scrolls; the framebuffer's scroll is a stub, so its last row is
written over (`over`). VGA takes any cursor position (`off` notes a character
behind the last cell), the framebuffer keeps its own for one out of range.

In `Shell` a step is one key in `shell_run`. `input` and `cur` are the line and the
cursor, `history` with its two counters the ring, `prompt` the position read
after the prompt was printed. `Draw` is the redrawing that typing, backspace and
the recall of a line share. `Executed` is `shell_execute` with `shell_execute_slash`:
the console a line leaves behind, where a command's output is one of `Commands`.

### Boot

A step is one firmware call with what the loader makes of its answer, or one turn
of a loop; `pc` says which loader is where. Both write the same variables: `mem`,
the sectors from 0x100000 on, and `map`, the memory map for the kernel; `count` is
`loopCounter`, `size` the size that the kernel's header gives. Of a sector the model
keeps which one of the disk it is and what its words (those of the kernel) add up
to. Firmware is external: a call fails or succeeds as it likes, A20 may be off and
called on, a disk read may return a wrong sector (also a first one with the right
magic number and another size, of those of the images), and a UEFI map may gain
descriptors with every allocation (`Grown`), which changes its key; UEFI reads a
file right or reports an error. A free area of the UEFI map that the loader itself
allocates from is not split; descriptors for it only count. The disk's time-out
appears as a read that fails. With A20 off a sector goes 1 MB lower, and the checksum
reads it there, too; that it overwrites the loader there is not modelled.

`Checksum` is what `checksum_loop` does: it adds up what memory holds, of as many
sectors as the header says, whether they were loaded or not (`ram`). The sum does
not see the order, nor two errors that cancel. What it is worth is therefore a
property of its own, `OneErrorIsTold`; `KernelIsWhole` is about the counting and
excepts three events: "misread" (a wrong sector), "a20" (A20 off and called on) and
"large" (more than 65537 sectors: `kernelSectors` has 16 bits, so only the rest of a
division by 65536 is loaded).

## 4. Runs

| run | shows | bounds, and why they are enough |
|---|---|---|
| scheduler | ring order, dispatch, no write on freed PCBs, taskkill reaches its target, refinement of Lifecycle, nobody waits longer than one turn of each other process, walks end, ZOMBIEs are reaped | 4 processes, priorities of all classes, the reaper last and one that yields before it: there are two neighbouring ZOMBIEs with a live process behind them, and a walk on a freed PCB that leads to another freed PCB. Two processes can be reaped while a third keeps running; the safety properties are proved for any number |
| pmm_maps | counter, RAM only, reservations, one holder | six maps over 13 or 14 pages of 4 bytes: ends aligned and not, entries out of order, overlapping, without a whole page, RAM that ends below the heap. Kernel, bitmap and heap lie behind one another as linked |
| pmm_drift | the harm of preemption is confined to one byte of the bitmap | 8 pages in two bytes, reserved pages in both |
| pmm_twice | (violation) `pmm_alloc` returns a page twice | the same |
| kmalloc_heap | tiling, used = held, NULL only if nothing fits, calls return, refinement of Allocator | 12 units with headers of 2: up to four blocks, so a merge of two and of three, exact fits, fits with less than a header left, and a full heap |
| kmalloc_preempted | calls interrupted anywhere, also by one another, do no harm before kmalloc splits the block of a `kfree` that is not over: every area in use has a block of its own | boot's three PCBs, two request sizes that fit into a PCB's block, three areas at a time; the states up to such a split (`UntilSplit`), of which the property speaks |
| keyboard | keys mean what was held, the ring is a KeyStream, keys arrive | a ring of 3 and 7 keys: the ring overflows twice; both shift and both Ctrl keys, one arrow, one key of each other kind |
| fat | chains apart, the cache hides frees only, saved text is read back, names unique, path and `cd ..` right, commands end | six clusters in two FAT sectors, so that the cache holds the wrong one; three slots per directory cluster, two of them `.` and `..`, so that the second entry extends the directory; texts of up to two clusters; two short names, a longer one that begins like one of them, "." and ".."; three commands and one crash, on a formatted volume and on two with files and a directory in a directory, one of them deep enough for `cd`, `cd` and `cd ..`; the disk gets full. Without "dotted", "cut", "here", "renamed", "overwritten" or "zero" in the premises TLC refutes the properties within these bounds; "deep" takes a fourth command (fat_deep), "torn" more than three |
| fat_deep | (violation) `cd ..` leads one directory up, as the comment says | the same, with four commands and without a crash |
| editor | lines, cursor and selection stay in their arrays, the screen shows the text, save and open are inverse, undo and redo are exact within lines | three lines of three characters, a view of two rows (so that it scrolls), an undo ring of two (so that it overwrites), six keys, files that are empty, full, and too long in a line; a clipboard that is empty at first or holds a line too long and more newlines than lines fit |
| shell | the screen shows the line, the history recalls in order | three rows of seven columns, a history of two, nine keys: the line wraps, the screen scrolls, the ring overwrites; both back-ends |
| boot | the kernel is whole whatever the counter goes through, one wrong sum is told, the kernel is in RAM, with a map of RAM; booting ends | a unit is a quarter MB, 4 GB is 16 units, a counter has 4 values where it has 65536; machines with a hole, with RAM up to 4 GB, with RAM only above 4 GB, with less low memory than E801 guesses, with too little; kernels of one and two sectors, of one more than the counter has values, the most that are loaded whole, and of two more, which is also as many as UEFI refuses; sums modulo 3, so that errors cancel |

Every property of a passing run is known to fail under a fault of the modelled
code, listed under "mutants" in PROJECT.json.

## 5. Fairness

* `Scheduler!Fairness`: weak fairness of the boot steps (the CPU executes
  `Kernel_main`) and of `Tick` (the PIT is programmed once and keeps firing,
  interrupts are on). Strong fairness of the reaper's and the shell's steps: they
  are enabled only during their process's turns, but a turn is at least one tick,
  thousands of instructions, so a process that gets turns again and again
  executes again and again. None of `Yield`, `WalkBegins`: whether somebody types
  a command is nobody's obligation. Whether the processes do get turns is a
  property (`WaitIsBounded`), not an assumption.
* `Keyboard!Spec`: weak fairness of the handler (an interrupt is served) and of
  the reader: the shell process is never blocked, gets its turns, and comes back to
  `keyboard_read` from every command. No obligation to type.
* `Kmalloc!FairSpec`: a call that has begun runs on. Nothing obliges anybody to
  call.
* `Fat!Spec`: weak fairness of the steps of a command (the shell executes it,
  transfers return). Nothing obliges anybody to type a command, nor the power to
  go off.
* `Boot!Spec`: weak fairness of the loaders' steps: a firmware call returns, with
  whatever result.

## 6. What is proved

All theorems hold for every value of the constants allowed by the assumptions,
and are checked by TLAPS to the last leaf.

**SchedulerProofs**, for any number of processes, any priorities, any two
processes as shell and reaper. Assumed: `NProcAssumption`, `ProcessAssumption`
(priorities are bytes, shell and reaper are two different processes). Proved:
`TypeOK`, `RingInOrder`, `RunsOnlyLinked`, `OneRunning`, `KillsOnlyLinked`,
`FreedUntouched`, `TaskkillReaches`, and that the list implements `Lifecycle`.
None of them is inductive. `IInv` adds what keeps the ring whole between two
turns of the reaper: `prev` is linked and `cur` is what it leads to; the chosen
victim is a ZOMBIE, not the head and not current, and ZOMBIEs never come back; and
what keeps a walk sane on freed PCBs: the stale `next` of a freed PCB leads
forward in creation order and skips nothing that is still linked
(`LeadsForward`). The lemma that carries most is `InspectsTheRing`: a selection
that finds nobody has seen the whole ring.

`WaitIsBounded` is proved for `SchedulerTurns`. Its invariant `TurnsInv` relates what
a READY process has waited to where the CPU is: `Ahead` adds up the turns that lie
between a process and the running one, `Left` is what the running one still has,
and each tick moves as much from the one to the other as it adds to the wait
(`TickTurns`). A switch goes to the next READY process and so passes nobody who
waits (`PassesNobody`).

**PmmProofs**, for any page size, any set of maps, any layout. Proved: `TypeOK`,
`FreeCountIsBitmap` (for maps whose usable entries are disjoint), `HeldIsUsed`,
`ReservedStays`, `OnlyRamIsFree`. The invariant says, for each loop of `pmm_init`,
which pages it has done: during the entries loop the free pages are those of the
entries before `i` and those of entry `i` below `p`. The lemmas on division and
rounding are where the page arithmetic is.

**PmmProofs**, its last part, about `PmmPreempted`, for any number of pages, width of
a byte and victim. Proved: `DamageInOneByte`. The invariant `RaceInv` says that a byte the shell has loaded holds every
page in use of it, unless it is the byte that the reaper writes.

**KmallocProofs**, for any heap and header size and any set of positive requests.
Proved: `TypeOK` (so no size underflows), `HeapTiled`, `UsedIsHeld`, `HeldApart`,
`NullOnlyIfNothingFits`, and that the heap implements `Allocator`. `HeldApart` is
a consequence of tiling and of `UsedIsHeld`; `NullOnlyIfNothingFits` needs the
search's own invariant, that no block before `current` would do.

**KmallocProofs**, its last part, about `KmallocPreempted`, for any size of a PCB and
any number of areas. Proved: `HarmNeedsSplit`. Here no variable knows the blocks.
`CallsInv` says that there is a set of blocks that tile the heap, and what it looks
like in the middle of a call: the store of a size makes two blocks of one
(`CutKeeps`) or one of two (`GrowsKeeps`), and until the next store one `next` is
behind the times (`Relinked`); what the shell has loaded or tested is still so
(`Searches`, `Releases`). It stays so although the reaper's `kfree` goes on meanwhile,
because that one only finds a PCB in use behind the victim's block and merges nothing
(`Waits`), unless the shell has given the block another `next`: the one step that is
excepted. What happens after it is `NoOverlap` in section 7.

**KeyboardProofs**, for any size of the ring. Proved: `RingTypeOK`, and that both the
ring alone and the whole driver implement `KeyStream`. The invariant gives the two
positions their meaning: each place holds the last key pushed into it, and from
the key that is due to the last one typed there are as many as between the
positions and some whole rings (`LapInv`). `KeysAreMeant` is proved from
`FlagsInv`: the flags lag behind the keys by the codes that are under way, and
these are few: after each one that may be, `FlagsInv` says what the flags will be.

**BootProofs**, for any machines, images, widths of words and counters, sizes of
chunks and of the map, and any growth of the UEFI map. Assumed: `BootAssumption`
(the target is above 0 and below 4 GB, the guess of E801 not above the target).
Proved: `TypeOK`, `KernelIsWhole`, `FreeIsRam`, `TargetIsRam`. `IInv` says for each
label what is known there: which sectors UEFI has read (`ReadInv`); that A20 is on
or was called on (`A20Inv`); that `loopCounter` and the sectors in memory go
together, also around the counter's end (`CounterInv`), and that these are in order
as long as none came back wrong (`OrderInv`); that every entry of the map tells the
truth (`MapInv`), that the E820 map is a part of the machine's (`E820Inv`), and
where the first unit of the kernel is RAM (`TargetInv`). That the loop runs often
enough for up to one sector more than the counter has values is `TurnsEnough`; the
proof of `KernelIsWhole` makes no use of the checksum. That the lower words of an
area that ends below 4 GB cannot feign a target is `TargetInArea`.

**ShellProofs**, for any size of the line, the history and the screen, any
characters, prompts and commands. Assumed: `ShellAssumption`. Proved: the line
stays shorter than its buffer and the cursor in it (`LineInv`), and
`RecallsInOrder`. The invariant says that each of the last `HistorySize` lines is
at the place its number has in the ring (`RingInv`) and that `history_pos` is the
number of one of them (`CountInv`); that a new line covers the oldest and no other
is the lemma `PlacesApart` on remainders.

`InputIsShown` rests on `ScreenInv`: while no line has outgrown its row (`tidy`), the
cells from the prompt on hold the line, nothing is behind it, and the cursor is
where `cur` is. For each operation of the console there is a lemma on what it writes
and what it leaves alone, with and without the end of a row and a scroll; that
printing a text of any length leaves nothing behind the position
(`PrintTextFresh`) follows by looking at the first character at which it would fail.

**EditorProofs**, for any number and length of lines, size of the undo rings and of
the view, any characters, any files and any first clipboard. Assumed: `EditorAssumption`. Proved:
`StaysInText`, `ScreenShowsText`, `UndoIsExact`, `SavedIsOpened`. `IInv` has three
parts: `EdInv`, of the state between two keys, which says that each slot of the two
rings leads from one remembered text to the one before it (`Leads`), as long as no
undo has met another number of lines; `ShownInv`, that each row shows its line; and,
proved of each handler, `Tracks`: every line that a key has changed is marked as
dirty when it comes to drawing. That saving and opening are inverse is about two
loops, one over lines and one over characters: `Buffers` and `Partly` say where each
is after every line and every character.

**FatProofs**, for any volume, any sizes, names and texts. Assumed:
`VolumeAssumption`, `WholeAssumption`, `TextsAssumption`, `DotsAssumption` and
`NamesAssumption` (section 3; the third and fourth for the texts and where the
directories lead, the last only for the names). Proved: `CacheHidesOnlyFrees`,
and from it that the search for a free cluster finds none that is in use
(`FoundIsFree`), although `fat_delete_file` frees clusters behind the cache and
the search may look at the cached sector; and `ChainsApart`, at every step of
every command and after a power failure anywhere. `CacheInv` says that the cache
holds exactly the entries of the sector whose number it keeps. `IInv` is about two
tables, the one on the disk and the one the driver sees (`View`): flushing the
cached sector makes the second the first, which brings back links from clusters
that were freed, so `Joined` has to hold of both. Entries count wherever they lie
(`Named`), also in sectors no path leads to, because such a sector may become a
part of a directory again. `OpInv` says what a command owes between two of its
steps: nothing leads to the cluster it has taken (`Fresh`), nor any more to the one
it is about to free (`Doomed`). That all this gives chains that end and do not meet
needs no induction over their length: a shortest walk to a common cluster is led
back to a shorter one (`ReachApart`), and a chain that did not end would have more
members than there are clusters (`ChainEnds`, by the pigeonhole principle).

`SavedIsRead` is proved on top of `IInv`. That other chains stay apart from that of a
file is not enough: nothing may be written into its clusters, and what `Unlink`,
`Free`, `Entry`, `Zero` and `Dots` write to depends on the working directory being one,
and so on where `cd ..` has led before. `TextInv` therefore says that there is a
function `own` from clusters to the file or directory they belong to (`Fits`):

- links of both tables stay within one owner, and every head owns itself
  (`Divides`); that also holds of free sectors that still have entries in them;
- `..` in a directory names the owner of the sector its entry is in (`Upward`);
- what is in use and belongs to a directory is in its chain (`Attached`): it lies in
  every set that holds the heads of directories and is closed under the table;
- there are finitely many directories between the root and the working one, each
  with an entry in the one above (`Lineage`), so that rm, which finds its entries in
  the working directory, never takes one of them away. `Line` numbers them by depth
  and says where in the prompt's path the name and the slash of each one stand;
- each text lies in the chain of its file, and its entry in no file (`Texts`);
- of the command under way, its sector belongs to the working directory (`Walks`),
  the cluster it has taken to nobody else (`NewInv`), and of the text being saved the
  blocks so far are written (`Saving`).

`cd .` must not lead elsewhere: `DotInv`, which is proved together with `TextInv`, says
that an entry "." names the cluster it is in, to which no entry of either table leads,
so that it is in the first cluster of a directory; the working directory stays what it
was. The path is another matter: `Trail`, which `Lineage` speaks of, is the path as
long as `cd .` has put no word into it, and says nothing after that.

`own` is not a history variable: each step names the new one (`VolTake`, `VolLink`;
most leave it alone). What may happen to a sector is stated of any table and any
disk first (`VolTake` to `VolDots`, `Lineage...`), then each step of the code is an
instance. Without `Upward` or without the premise on "deep" it is not inductive; that
is how the case of section 7 was found: when two `cd ..` have led to the cluster of a
text, the next entry is written into it.

`BackIsUp` and `PromptNamesCwd` speak of entries that the driver can reach, and
`Lineage` of entries on the disk. What lies between is that the walks of `ChainOf`
and `DirClusters` go far enough. Each is a set that grows with every step, and one
that grows must stop before it has more members than there are clusters
(`Saturates`), so it is closed: the next cluster of every member is a member
(`ChainClosed`), the chain of every directory found is searched too
(`DirClustersClosed`). With `Attached`, the sector with the entry of a directory is
then in the chain of its owner (`OwnedIsInChain`), and by least depth every directory
of the lineage is reachable (`LineIsSeen`). For `cd ..`, `Upward` gives that `..`
names that owner. For the path, the walk along its words (`PathIsWalked`) is at the directory of depth n after 2n words, or one more
when the path starts with a slash (`PathLeads`).

`NamesUnique` is proved from `NamesInv`, which is about all clusters with one owner,
not only those a walk finds, and about every directory but the one whose first sector
mkdir has not filled yet (`Filled`; that sector holds what was there before). It says:

- in each of them names are distinct, and nothing lies behind a slot that was never
  used (`Listed`);
- the search has been through the clusters from the first one of the working
  directory to the present one, and none of them has the name (`Sought`);
- once it has ended, no cluster of the working directory has the name (`Absent`), until
  the entry is written, and the slots passed over on the way to a free one were used
  (`Seeks`).

The step from `Sought` to `Absent` is where the code could be wrong: the search ends at
the first slot never used, or at the end of the chain. By `Tidy` no cluster follows the
former, so what was seen is closed under the table, and by `Attached` it holds every
cluster of the directory. `Tidy` itself needs that a new cluster is linked only to a
full sector, that a new entry goes to the first free slot, and that rm marks a slot as
deleted and never as unused.

The lemmas on least and greatest elements (`LeastElement`, `GreatestElement`) take
the place of induction.

## 7. Disagreements with comments and tests

Some are runs. `stress_test.c:76` calls two allocations of one address impossible. When the
reaper's `pmm_free` is interrupted between the load and the store of
`bit_loeschen`, its store takes back the bit that a `pmm_alloc` has set meanwhile,
and the next `pmm_alloc` returns that page again (pmm_twice).

Another: `fat.c:540` says that `fat_cd_back` goes one directory up. `fat_create_dir`
enters the cluster that holds the new entry as the parent (`fat.c:310`), which is
not the first one when the parent has grown: `cd ..` then leads into the middle of
the parent (fat_deep). There a second `cd ..` takes the second entry's cluster for
the parent's, which may be a file's: what is created next is written into its
text. `SavedIsRead` therefore holds only until "deep"; without that premise TLC
needs five commands on a root directory of two clusters to refute it.

These are stated in the modules, where TLC refutes them, without a run of their
own; each line says how to see it.

* `process.c:62` says the reaper frees the stack; the reaper starts behind the
  head, so a killed pid 0 keeps its stack for good. `EveryStackFreed` under
  `TurnsSpec`, with the constants of Scheduler.cfg, but `NProc` 3, `Reaper` 2 and no
  `Yielders`.
* `stress_test.c:132` takes changed data in an area of `kmalloc` for an error. When
  the reaper's `kfree` is interrupted between `used = 0` and its merge, kmalloc takes
  and splits the block; the merge takes in the rest, which the next kmalloc has
  found free already, and a third kmalloc hands out bytes of an area that is held.
  `NoOverlap` with KmallocPreempted.cfg without its CONSTRAINT.
* `fat.c:149` announces a check for duplicate names. A name of more than eight characters
  is stored cut to eight, and the comparison then finds it under no name
  (`fat.c:789`): `create` twice gives two equal entries, or one equal to a short
  name's. `NamesUnique` without "cut", with Fat.cfg.
* `fat.c:568` says that `fat_delete_file` deletes the chosen file. `rm .` and `rm ..`
  free the chain of the working directory or of the one above, which stay entered;
  what is created next may get their clusters. `ChainsApart` without "dotted",
  or the others with `Sound` without it, with Fat.cfg.
* `fat.c:540` says that `fat_cd_back` goes from home/user to home/. After `cd .` in
  home/user the path is home/user/./, and `cd ..` leaves home/user/ in the prompt while
  the cluster is that of home. `PromptNamesCwd` without "here", with Fat.cfg.
* `pmm.c:169` says the kernel is reserved up to `__kernel_end`; the length used is
  the size of the image, without .bss. `KernelReserved` with PmmMaps.cfg and
  `KernelEnd` 39.
* `stress_test.c:155` says that two freed neighbours become one block; only if the
  upper one goes first. `NeighboursMerged` with KmallocHeap.cfg.
* `stage2.asm:16` documents the address of the memory map in the boot
  information; the E801 and INT 12 fallbacks never write it, so that the kernel
  reads a map at 0. `handed` is FALSE in those behaviours of Boot.

What else was seen while modelling, and is excepted in the premises of the
properties: `mv` gives a name that exists already, and a missing word turns the
end of a directory into an entry; saving under a name that is not found or is a
directory writes to cluster 0 or over the directory; a file that is saved again
leaks the rest of its old chain; after `cd` without a word and `cd a`, `cd ..`
leaves the first letter of a in the path. In the editor, deleting a selection
that was made forwards over several lines, undoing a change of the number of
lines, and undo, redo or a pasted newline under a selection leave cursor or
selection outside the text; opening a file adds an empty line. In the shell a
line longer than its row, or a recalled one longer than 60 characters, is not
redrawn correctly, and the framebuffer's last row is written over. In the loaders
areas above 4 GB count by their lower words; an area that ends at 4 GB exactly is
refused; the lower area of E801 is a guess, and its upper one ends at 16 MB; of a
kernel of more than 65537 sectors only a part is loaded; the UEFI loader converts a buffer that
`GetMemoryMap` has refused to fill, gives the kernel a map older than the one
whose key it uses, and checks no checksum.

## 8. Limits

Only model-checked: liveness under fairness (`WalkEnds`, `ZombieReaped`,
`CallsReturn`, `KeysArrive`, `CommandsEnd`, `BootEnds`), which the prover cannot do,
and `OneErrorIsTold`, which needs induction over the sum of the sectors. Every other
invariant and every action property of the runs is also proved, but for those of the
runs that show a disagreement.

Not modelled, and why:

* VMM: `map_page`, `unmap_page` and `virt_to_phys` are called by nobody, and
  `vmm_init` loads the address of tables that stage 2 built.
* ATA: polling with time-outs against a clock that stands still while interrupts
  are off; whether a drive answers is the hardware's. Fat assumes that transfers
  succeed, so a write that fails half-way is seen only as a power-off.
* Commands that only print, colours, the status bar of the editor, pixels and
  glyphs, number formatting and parsing (`str_to_int` adds up in a byte, so pid 256
  is pid 0).
* Programming of PIC, PIT, GDT, page tables and video modes; exceptions, which halt
  the machine; the build, but for what section 3 uses of it.
