--------------------------------- MODULE Fat ---------------------------------
(***************************************************************************)
(* The FAT32 driver, src/drivers/fs/fat.c, with the shell commands that    *)
(* call it. The shell is its only caller, so commands do not interleave;   *)
(* but a command writes several sectors one after the other, and the power *)
(* may go off between two of them. A step writes at most one sector, and a *)
(* walk along a chain takes one step per cluster.                          *)
(*                                                                         *)
(* A cluster is one sector, as on the image the Makefile builds. Cluster 0 *)
(* stands for the sector the driver computes for the number 0, which lies  *)
(* in front of the data area. Transfers succeed (see ata.c).               *)
(***************************************************************************)
EXTENDS Integers, Sequences, FiniteSetsExt, Functions

CONSTANTS
    LastCluster,       \* total_clusters + 1
    EntriesPerSector,  \* entries in a sector of the FAT, 128
    SlotsPerSector,    \* directory entries in a sector, 16
    Names,             \* the names of up to eight characters a user types
    LongNames,         \* and the longer ones
    Cut,               \* the first eight characters of each of these
    Versions,          \* the texts a user saves
    MaxBlocks,         \* the longest text, in clusters
    Volumes,           \* the tables, sectors and texts a volume may start with
    MaxCalls,          \* bound: commands
    MaxCrashes         \* bound: times the power goes off

Root == 2
Eoc == LastCluster + 1          \* 0x0FFFFFF8 and above
Astray == LastCluster + 2       \* a number behind the volume
Nul == "nul"                    \* name[0] = 0x00, never used
Deleted == "deleted"            \* name[0] = 0xE5
Blank == "blank"                \* eight blanks, which the empty word names
Dot == "."
DotDot == ".."
Letter == "letter"              \* the first letter of a name, cut off it
Slash == "/"

ASSUME VolumeAssumption ==
    /\ LastCluster \in Nat /\ LastCluster > Root
    /\ EntriesPerSector \in Nat /\ EntriesPerSector > Root
    /\ SlotsPerSector \in Nat /\ SlotsPerSector > 2
    /\ MaxBlocks \in Nat \ {0}
    /\ (Names \cup LongNames) \cap {Nul, Deleted, Blank, Dot, DotDot, Letter, Slash, "text", ""} = {}
    /\ Names \cap LongNames = {} /\ Cut \in [LongNames -> Names]
    /\ Versions \cap {"", "dir"} = {}

VARIABLES
    fat,      \* the table on the disk: 0 is free, Eoc the end of a chain
    disk,     \* the slots of every cluster
    cache,    \* cached_fat_sector_nr and cached_fat_buf
    cwd,      \* cwd_cluster
    path,     \* cwd_path, cut into names and slashes
    op,       \* the command under way and its local variables
    saved,    \* history: the text last saved through a directory entry
    events,   \* history: what happened that nothing recovers from
    calls, crashes

vars == <<fat, disk, cache, cwd, path, op, saved, events, calls, crashes>>

\* '.' and '..' are words like others, but for cd .. .
Typed == Names \cup LongNames \cup {Dot, DotDot}

\* The name that an entry gets.
Stored(w) == IF w \in LongNames THEN Cut[w] ELSE w

Clusters == 2 .. LastCluster
Slots == 1 .. SlotsPerSector
Places == (0 .. LastCluster) \X Slots

Slot(name, attr, cl, size) == [name |-> name, attr |-> attr, cl |-> cl, size |-> size]
EmptySector == [i \in Slots |-> Slot(Nul, "none", 0, 0)]

\* A block of a saved text, read as entries: bytes of the text where the
\* attributes and the cluster would be. The last block is padded with 0.
TextSector(v, b, last) ==
    [i \in Slots |-> IF last /\ i > 1 THEN EmptySector[i]
                     ELSE Slot("text", v, Astray, b)]

\* What fat_init_dir_cluster writes.
DirSector(cluster, parent) ==
    [EmptySector EXCEPT ![1] = Slot(Dot, "dir", cluster, 0),
                        ![2] = Slot(DotDot, "dir", parent, 0)]

\* The entries of all sectors, whether a path leads there or not, and the first
\* clusters they name.
Named(d) == {p \in Places : d[p[1]][p[2]].name \in Names \cup {Blank}}
Heads(d) == {Root} \cup {d[p[1]][p[2]].cl : p \in Named(d)}

\* No cluster follows two others, none in use is followed by a free one, and
\* none by the first cluster of a file or directory.
Joined(t, heads) ==
    /\ \A x \in DOMAIN t : t[x] \in Clusters => t[t[x]] # 0
    /\ \A x, y \in DOMAIN t : t[x] \in Clusters /\ t[x] = t[y] => x = y
    /\ \A x \in DOMAIN t : t[x] \notin heads

Whole(t, d) ==
    /\ Joined(t, Heads(d))
    /\ \A h \in Heads(d) : h \in Clusters /\ t[h] # 0
    /\ \A p, q \in Named(d) :
          d[p[1]][p[2]].cl # Root /\ (d[p[1]][p[2]].cl = d[q[1]][q[2]].cl => p = q)

FatEntry == {0, Eoc} \cup Clusters

IsSlot(s) ==
    /\ s = Slot(s.name, s.attr, s.cl, s.size)
    /\ s.cl \in 0 .. LastCluster \/ (s.cl = Astray /\ s.name = "text")
    /\ s.name # "" /\ (s.name = Nul => s.cl = 0)

IsSector(s) == s = [i \in Slots |-> s[i]] /\ \A i \in Slots : IsSlot(s[i])
AreSectors(d) == d = [c \in 0 .. LastCluster |-> d[c]] /\ \A c \in 0 .. LastCluster : IsSector(d[c])

\* The volume was written by this driver: an entry is the only one of its cluster,
\* also in a sector that is free, of a directory that was removed.
ASSUME WholeAssumption ==
    \A v \in Volumes :
        /\ v.fat \in [0 .. LastCluster -> FatEntry] /\ AreSectors(v.disk)
        /\ Whole(v.fat, v.disk)

NoText == [v |-> "", len |-> 0]

\* The first cluster that an entry names, and the entries of each kind.
ClusterOf(d, p) == d[p[1]][p[2]].cl
FileEntries(d) == {p \in Named(d) : d[p[1]][p[2]].attr = "file"}
DirEntries(d) == {p \in Named(d) : d[p[1]][p[2]].attr = "dir"}

\* The first clusters of the root and of the directories of some entries.
HeadsOf(d, dirs) == {Root} \cup {ClusterOf(d, p) : p \in dirs}

\* Behind a slot that was never used a directory ends.
Tidy(t, d, x) ==
    \A i \in Slots : d[x][i].name = Nul =>
        t[x] \notin Clusters /\ \A j \in Slots : i < j => <<x, j>> \notin Named(d)

\* Cluster h and those that follow it.
Behind(t, h) ==
    {x \in DOMAIN t : \A S \in SUBSET DOMAIN t :
        h \in S /\ (\A y \in S : t[y] \in Clusters => t[y] \in S) => x \in S}

\* The volume was written by this driver, and mv has given no name twice.
ASSUME NamesAssumption ==
    \A v \in Volumes : \A h \in HeadsOf(v.disk, DirEntries(v.disk)) :
        /\ \A x \in Behind(v.fat, h) : Tidy(v.fat, v.disk, x)
        /\ \A p, q \in {r \in Named(v.disk) : r[1] \in Behind(v.fat, h)} :
              v.disk[p[1]][p[2]].name = v.disk[q[1]][q[2]].name => p = q

\* Where cd .. leads to from the directory that starts in c.
Parent(d, c) == IF d[c][2].cl = 0 THEN Root ELSE d[c][2].cl

\* Each cluster of a chain belongs to the file or directory it starts with.
Divides(own, t, d) ==
    /\ \A x \in DOMAIN t : t[x] \in Clusters => own[t[x]] = own[x]
    /\ \A h \in Heads(d) : own[h] = h

\* The entry '..' of the directories of some entries is for the one that the entry
\* is in.
Upward(own, d, dirs) ==
    \A p \in dirs :
        own[p[1]] \in {Root} \cup {ClusterOf(d, q) : q \in dirs} =>
            /\ d[ClusterOf(d, p)][2].name = DotDot
            /\ Parent(d, ClusterOf(d, p)) = own[p[1]]

\* The clusters s[1], ..., s[n] of a file, the first m of them written.
LiesIn(own, t, d, head, s, n, text, m) ==
    /\ s[1] = head
    /\ \A b \in 1 .. n : own[s[b]] = head /\ t[s[b]] # 0 /\ (b < n => t[s[b]] = s[b + 1])
    /\ \A b \in 1 .. m : d[s[b]] = TextSector(text.v, b, b = text.len)

\* A text is in the chain of a file, whose entry is in a directory.
Holds(own, t, d, p, text) ==
    /\ p \in FileEntries(d) /\ t[p[1]] # 0
    /\ \A q \in FileEntries(d) : own[p[1]] # ClusterOf(d, q)
    /\ text.len \in 1 .. MaxBlocks
    /\ \E s \in [1 .. text.len -> Clusters] :
          LiesIn(own, t, d, ClusterOf(d, p), s, text.len, text, text.len)

\* The volume was written by this driver, and by no mkdir in the later cluster of
\* a directory: texts are where they were saved, and '..' leads up.
ASSUME TextsAssumption ==
    \A v \in Volumes :
        /\ v.saved = [p \in Places |-> v.saved[p]]
        /\ \A p \in Named(v.disk) : v.disk[p[1]][p[2]].attr \in {"dir", "file"}
        /\ \E own \in [0 .. LastCluster -> {0} \cup Heads(v.disk)] :
              /\ Divides(own, v.fat, v.disk)
              /\ Upward(own, v.disk, DirEntries(v.disk))
              /\ \A p \in Places :
                    v.saved[p] = NoText \/ Holds(own, v.fat, v.disk, p, v.saved[p])

\* The volume was written by this driver: the entry '.' of a directory is in its
\* first cluster, and names it.
ASSUME DotsAssumption ==
    \A v \in Volumes : \A x \in Clusters : \A i \in Slots :
        v.disk[x][i].name = Dot => v.disk[x][i].cl = x /\ \A y \in 0 .. LastCluster : v.fat[y] # x

Idle == [pc |-> "idle", cmd |-> "", name |-> "", word |-> "", at |-> 0, slot |-> 1,
         found |-> FALSE, file |-> 0, new |-> 0, off |-> 0, text |-> NoText]
NoCache == [nr |-> -1, buf |-> <<>>]

-----------------------------------------------------------------------------
(* The FAT and its one-sector cache, which is clean between two steps.     *)

FatSector(c) == c \div EntriesPerSector
EntriesOf(nr) == {c \in 0 .. LastCluster : FatSector(c) = nr}
Sector(nr) == [nr |-> nr, buf |-> [c \in EntriesOf(nr) |-> fat[c]]]

\* The cache once the sector of entry c is in it, and the entry.
Loaded(c) == IF cache.nr = FatSector(c) THEN cache ELSE Sector(FatSector(c))
Following(c) == Loaded(c).buf[c]

\* The table after the cached sector is flushed.
Flushed(ch) == [c \in 0 .. LastCluster |-> IF c \in EntriesOf(ch.nr) THEN ch.buf[c] ELSE fat[c]]

\* The search for a free entry starts at entry 2: it reads every sector
\* anew, except the first one when that one is in the cache.
Scanned(nr) == IF nr = FatSector(Root) /\ nr = cache.nr THEN cache ELSE Sector(nr)
FreeSeen == {c \in Clusters : Scanned(FatSector(c)).buf[c] = 0}

Take(c) ==
    /\ cache' = [Scanned(FatSector(c)) EXCEPT !.buf[c] = Eoc]
    /\ fat' = Flushed(cache')

FindNone == cache' = Scanned(FatSector(LastCluster)) /\ UNCHANGED fat

-----------------------------------------------------------------------------

\* A freshly formatted volume.
Formatted ==
    [fat |-> [c \in 0 .. LastCluster |-> IF c \in 0 .. Root THEN Eoc ELSE 0],
     disk |-> [c \in 0 .. LastCluster |-> EmptySector],
     saved |-> [p \in Places |-> NoText]]

Init ==
    /\ \E v \in Volumes : fat = v.fat /\ disk = v.disk /\ saved = v.saved
    /\ cache = NoCache /\ cwd = Root /\ path = <<Slash>>
    /\ op = Idle
    /\ events = {} /\ calls = 0 /\ crashes = 0

Start(o) ==
    /\ op.pc = "idle" /\ calls < MaxCalls /\ cwd # Astray
    /\ op' = o
    /\ calls' = calls + 1
    /\ UNCHANGED <<fat, disk, cache, cwd, path, saved, events, crashes>>

Command(pc, cmd, name) == [Idle EXCEPT !.pc = pc, !.cmd = cmd, !.name = name, !.at = cwd]

Create(n) == Start(Command("check", "create", n))
MkDir(n) == Start(Command("check", "mkdir", n))
CdTo(n) == Start(Command("open", "cd", n))
Remove(n) == Start(Command("remove", "rm", n))
Cat(n) == Start(Command("read", "cat", n))
List == Start(Command("list", "dir", ""))
\* mv checks neither of its words: a missing one is the empty string.
Move(n, w) == Start([Command("rename", "mv", n) EXCEPT !.word = w])
\* The editor saves under any name, whether it read a file of it or not.
Save(n, v, len) ==
    Start([Command("locate", "save", n) EXCEPT !.text = [v |-> v, len |-> len]])

CdRoot ==
    /\ op.pc = "idle" /\ calls < MaxCalls
    /\ cwd' = Root /\ path' = <<>>
    /\ calls' = calls + 1
    /\ events' = events \ {"here"}
    /\ UNCHANGED <<fat, disk, cache, op, saved, crashes>>

\* As CutPath, had the code not stepped over the slash at the end first.
CutPathEarly ==
    LET slashes == {i \in DOMAIN path : path[i] = Slash}
    IN  IF slashes # {} THEN SubSeq(path, 1, Max(slashes)) ELSE path

\* cwd_path up to the last slash before its last character, or its first
\* character when there is none.
CutPath ==
    LET n == Len(path)
        slashes == {i \in 1 .. n - 1 : path[i] = Slash}
    IN  IF slashes # {} THEN SubSeq(path, 1, Max(slashes))
        ELSE IF n = 0 THEN <<>>
        ELSE <<IF path[1] = Slash THEN Slash ELSE Letter>>

CdBack ==
    /\ op.pc = "idle" /\ calls < MaxCalls /\ cwd \notin {Root, Astray}
    /\ cwd' = Parent(disk, cwd)
    /\ path' = CutPath
    /\ calls' = calls + 1
    /\ UNCHANGED <<fat, disk, cache, op, saved, events, crashes>>

-----------------------------------------------------------------------------
(* The steps of a command.                                                 *)

At == disk[op.at]

\* str_equal_fat: a name of more than eight characters is no entry's.
Matches(i, w) == (At[i].name = w /\ w \notin LongNames) \/ (w = "" /\ At[i].name \in {Blank, Nul})
Hits == {i \in op.slot .. SlotsPerSector : Matches(i, op.name)}
Used == {i \in Slots : \A j \in 1 .. i : At[j].name # Nul}

\* The walk goes to the next cluster of the directory, or ends with pc.
WalkOn(end) ==
    /\ cache' = Loaded(op.at)
    /\ op' = IF Following(op.at) = Eoc THEN end ELSE [op EXCEPT !.at = Following(op.at)]

\* As Check, had the search ended with the first cluster.
CheckFirst ==
    /\ op.pc = "check"
    /\ op' = IF Hits # {} THEN Idle ELSE [op EXCEPT !.pc = "place"]
    /\ UNCHANGED <<fat, disk, cache, cwd, path, saved, events, calls, crashes>>

\* create looks up to the first unused slot of each cluster for the name,
\* mkdir stops for good there.
SearchEnds == op.cmd = "mkdir" /\ Used # Slots

Check ==
    /\ op.pc = "check"
    /\ LET place == [op EXCEPT !.pc = "place", !.at = cwd]
       IN  IF Used \cap Hits # {} THEN op' = Idle /\ UNCHANGED cache
           ELSE IF SearchEnds THEN op' = place /\ UNCHANGED cache
           ELSE WalkOn(place)
    /\ UNCHANGED <<fat, disk, cwd, path, saved, events, calls, crashes>>

OpenSlots == {i \in Slots : At[i].name \in {Nul, Deleted}}

\* The first slot to take, and a cluster for it: 0 when the disk is full.
Place ==
    /\ op.pc = "place"
    /\ LET entry(c) == [op EXCEPT !.pc = "entry", !.slot = Min(OpenSlots), !.file = c]
       IN  \/ /\ OpenSlots # {} /\ FreeSeen # {}
              /\ Take(Min(FreeSeen))
              /\ op' = entry(Min(FreeSeen))
           \/ OpenSlots # {} /\ FreeSeen = {} /\ FindNone /\ op' = entry(0)
           \/ /\ OpenSlots = {} /\ UNCHANGED fat
              /\ WalkOn([op EXCEPT !.pc = "mark", !.file = op.at])
    /\ UNCHANGED <<disk, cwd, path, saved, events, calls, crashes>>

\* What the history keeps of an entry '.' or '..' that is written, renamed or
\* removed, or of another one that gets such a name.
Dotted(words) == IF words \cap {Dot, DotDot} # {} THEN {"dotted"} ELSE {}

Entry ==
    /\ op.pc = "entry"
    /\ disk' = [disk EXCEPT ![op.at][op.slot] =
                    Slot(Stored(op.name), IF op.cmd = "mkdir" THEN "dir" ELSE "file", op.file, 0)]
    /\ op' = IF op.cmd = "mkdir" THEN [op EXCEPT !.pc = "dots"] ELSE Idle
    /\ events' = events \cup (IF op.file = 0 THEN {"zero"} ELSE {})
                       \cup (IF op.name \in LongNames THEN {"cut"} ELSE {})
                       \cup Dotted({op.name})
    /\ UNCHANGED <<fat, cache, cwd, path, saved, calls, crashes>>

\* As Dots, with the two arguments of fat_init_dir_cluster swapped.
DotsSwapped ==
    /\ op.pc = "dots"
    /\ disk' = [disk EXCEPT ![op.file] = DirSector(op.at, op.file)]
    /\ op' = Idle
    /\ events' = IF op.at # cwd THEN events \cup {"deep"} ELSE events
    /\ UNCHANGED <<fat, cache, cwd, path, saved, calls, crashes>>

\* The parent is the cluster that holds the entry, which need not be the
\* first one of the parent directory.
Dots ==
    /\ op.pc = "dots"
    /\ disk' = [disk EXCEPT ![op.file] = DirSector(op.file, op.at)]
    /\ op' = Idle
    /\ events' = IF op.at # cwd THEN events \cup {"deep"} ELSE events
    /\ UNCHANGED <<fat, cache, cwd, path, saved, calls, crashes>>

\* As Mark, without the mark.
MarkNone ==
    /\ op.pc = "mark"
    /\ op' = IF FreeSeen = {} THEN Idle ELSE [op EXCEPT !.pc = "zero", !.new = Min(FreeSeen)]
    /\ UNCHANGED <<fat, cache, disk, cwd, path, saved, events, calls, crashes>>

\* fat_extend_chain: a free cluster is marked, filled with 0 and linked.
Mark ==
    /\ op.pc = "mark"
    /\ \/ /\ FreeSeen # {}
          /\ Take(Min(FreeSeen))
          /\ op' = [op EXCEPT !.pc = "zero", !.new = Min(FreeSeen)]
       \/ FreeSeen = {} /\ FindNone /\ op' = Idle
    /\ UNCHANGED <<disk, cwd, path, saved, events, calls, crashes>>

\* As Zero, with the previous cluster in place of the new one.
ZeroPrevious ==
    /\ op.pc = "zero"
    /\ disk' = [disk EXCEPT ![op.file] = EmptySector]
    /\ op' = [op EXCEPT !.pc = "link"]
    /\ UNCHANGED <<fat, cache, cwd, path, saved, events, calls, crashes>>

Zero ==
    /\ op.pc = "zero"
    /\ disk' = [disk EXCEPT ![op.new] = EmptySector]
    /\ op' = [op EXCEPT !.pc = "link"]
    /\ UNCHANGED <<fat, cache, cwd, path, saved, events, calls, crashes>>

\* As Link, with a chain that bites its tail.
LinkLoop ==
    /\ op.pc = "link"
    /\ cache' = [Loaded(op.file) EXCEPT !.buf[op.file] = op.file]
    /\ fat' = Flushed(cache')
    /\ op' = IF op.cmd = "save" THEN [op EXCEPT !.pc = "data", !.file = op.new]
             ELSE [op EXCEPT !.pc = "place", !.at = op.new]
    /\ UNCHANGED <<disk, cwd, path, saved, events, calls, crashes>>

\* As Link, with the cached sector not written.
LinkUnflushed ==
    /\ op.pc = "link"
    /\ cache' = [Loaded(op.file) EXCEPT !.buf[op.file] = op.new]
    /\ UNCHANGED fat
    /\ op' = IF op.cmd = "save" THEN [op EXCEPT !.pc = "data", !.file = op.new]
             ELSE [op EXCEPT !.pc = "place", !.at = op.new]
    /\ UNCHANGED <<disk, cwd, path, saved, events, calls, crashes>>

Link ==
    /\ op.pc = "link"
    /\ cache' = [Loaded(op.file) EXCEPT !.buf[op.file] = op.new]
    /\ fat' = Flushed(cache')
    /\ op' = IF op.cmd = "save" THEN [op EXCEPT !.pc = "data", !.file = op.new]
             ELSE [op EXCEPT !.pc = "place", !.at = op.new]
    /\ UNCHANGED <<disk, cwd, path, saved, events, calls, crashes>>

Entered(n) == path \o <<n, Slash>>

\* fat_next_cluster is called before the loop looks whether it is done.
Open ==
    /\ op.pc = "open"
    /\ LET dirs == {i \in Hits : At[i].attr = "dir"}
       IN  \/ dirs = {} /\ WalkOn(Idle) /\ UNCHANGED <<cwd, path, events>>
           \/ /\ dirs # {}
              /\ cwd' = At[Min(dirs)].cl
              /\ path' = Entered(op.name)
              /\ cache' = Loaded(op.at) /\ op' = Idle
              /\ events' = events \cup (IF op.name = Dot THEN {"here"} ELSE {})
    /\ UNCHANGED <<fat, disk, saved, calls, crashes>>

\* Every entry of the name in the sector goes, one after the other.
Unlink ==
    /\ op.pc = "remove"
    /\ \/ /\ Hits # {}
          /\ LET i == Min(Hits)
             IN  /\ disk' = [disk EXCEPT ![op.at][i].name = Deleted]
                 /\ saved' = [saved EXCEPT ![<<op.at, i>>] = NoText]
                 /\ op' = [op EXCEPT !.pc = "free", !.file = At[i].cl,
                                     !.slot = i + 1, !.found = TRUE]
          /\ events' = events \cup Dotted({op.name})
          /\ UNCHANGED cache
       \/ /\ Hits = {} /\ ~op.found
          /\ WalkOn(Idle) /\ UNCHANGED <<disk, saved, events>>
       \/ /\ Hits = {} /\ op.found
          /\ op' = Idle /\ UNCHANGED <<cache, disk, saved, events>>
    /\ UNCHANGED <<fat, cwd, path, calls, crashes>>

\* The chain is read through the cache, and given back on the disk only.
Free ==
    /\ op.pc = "free"
    /\ cache' = Loaded(op.file)
    /\ fat' = [fat EXCEPT ![op.file] = 0]
    /\ op' = IF Following(op.file) = Eoc THEN [op EXCEPT !.pc = "remove"]
             ELSE [op EXCEPT !.file = Following(op.file)]
    /\ saved' = [p \in Places |-> IF p[1] = op.file THEN NoText ELSE saved[p]]
    /\ UNCHANGED <<disk, cwd, path, events, calls, crashes>>

\* A slot never used matches the empty word, and becomes an entry without
\* a cluster.
Rename ==
    /\ op.pc = "rename"
    /\ \/ Hits = {} /\ WalkOn(Idle) /\ UNCHANGED <<disk, events>>
       \/ /\ Hits # {}
          /\ LET i == Min(Hits)
             IN  /\ disk' = [disk EXCEPT ![op.at][i].name =
                                 IF op.word = "" THEN Blank ELSE Stored(op.word)]
                 /\ events' = events \cup {"renamed"}
                        \cup (IF At[i].cl = 0 THEN {"zero"} ELSE {})
                        \cup Dotted({op.name, op.word})
          /\ op' = Idle /\ UNCHANGED cache
    /\ UNCHANGED <<fat, cwd, path, saved, calls, crashes>>

\* fat_write_data writes the size first; a name it does not find leaves
\* cluster 0 as the file's.
Locate ==
    /\ op.pc = "locate"
    /\ \/ /\ Hits # {}
          /\ LET i == Min(Hits)
             IN  /\ disk' = [disk EXCEPT ![op.at][i].size = op.text.len]
                 /\ saved' = [saved EXCEPT ![<<op.at, i>>] = NoText]
                 /\ op' = [op EXCEPT !.pc = "data", !.file = At[i].cl,
                                     !.slot = i, !.found = TRUE]
                 /\ events' = events \cup (IF At[i].attr = "dir" THEN {"overwritten"} ELSE {})
                                    \cup Dotted({op.name})
          /\ UNCHANGED cache
       \/ /\ Hits = {}
          /\ WalkOn([op EXCEPT !.pc = "data"])
          /\ events' = IF op'.pc = "data" THEN events \cup {"zero"} ELSE events
          /\ UNCHANGED <<disk, saved>>
    /\ UNCHANGED <<fat, cwd, path, calls, crashes>>

\* A block is written to the file's first cluster and to new ones behind
\* it: the rest of the old chain is never followed.
Data ==
    /\ op.pc = "data"
    /\ LET b == op.off + 1
           last == b = op.text.len
       IN  /\ disk' = [disk EXCEPT ![op.file] = TextSector(op.text.v, b, last)]
           /\ op' = IF last THEN Idle ELSE [op EXCEPT !.pc = "mark", !.off = b]
           /\ saved' = IF last /\ op.found
                       THEN [saved EXCEPT ![<<op.at, op.slot>>] = op.text] ELSE saved
    /\ UNCHANGED <<fat, cache, cwd, path, events, calls, crashes>>

\* cat and the editor read the whole chain, whatever the size.
Read ==
    /\ op.pc = "read"
    /\ \/ Hits = {} /\ WalkOn(Idle)
       \/ /\ Hits # {} /\ UNCHANGED cache
          /\ op' = IF At[Min(Hits)].size = 0 THEN Idle
                   ELSE [op EXCEPT !.pc = "chain", !.file = At[Min(Hits)].cl]
    /\ UNCHANGED <<fat, disk, cwd, path, saved, events, calls, crashes>>

Chain ==
    /\ op.pc = "chain"
    /\ cache' = Loaded(op.file)
    /\ op' = IF Following(op.file) = Eoc THEN Idle ELSE [op EXCEPT !.file = Following(op.file)]
    /\ UNCHANGED <<fat, disk, cwd, path, saved, events, calls, crashes>>

Dir ==
    /\ op.pc = "list"
    /\ IF \E i \in Slots : At[i].name = Nul THEN op' = Idle /\ UNCHANGED cache ELSE WalkOn(Idle)
    /\ UNCHANGED <<fat, disk, cwd, path, saved, events, calls, crashes>>

\* The power goes off, and fat_init runs again.
Crash ==
    /\ crashes < MaxCrashes
    /\ cache' = NoCache /\ cwd' = Root /\ path' = <<Slash>> /\ op' = Idle
    /\ events' = (events \ {"here"}) \cup (IF op.pc = "dots" THEN {"torn"} ELSE {})
    /\ crashes' = crashes + 1
    /\ UNCHANGED <<fat, disk, saved, calls>>

Step ==
    \/ Check \/ Place \/ Entry \/ Dots \/ Mark \/ Zero \/ Link \/ Open
    \/ Unlink \/ Free \/ Rename \/ Locate \/ Data \/ Read \/ Chain \/ Dir

Call ==
    \/ \E n \in Typed : Create(n) \/ MkDir(n) \/ Remove(n) \/ Cat(n)
    \/ \E n \in Typed \ {DotDot} : CdTo(n)
    \/ \E n, w \in Typed \cup {""} : Move(n, w)
    \/ \E n \in Typed, v \in Versions, len \in 1 .. MaxBlocks : Save(n, v, len)
    \/ List \/ CdRoot \/ CdBack

Next == Call \/ Step \/ Crash

\* A command runs on while the power is on: the shell is a process the
\* scheduler always gets back to.
Spec == Init /\ [][Next]_vars /\ WF_vars(Step)
-----------------------------------------------------------------------------
(* The tree on the disk.                                                   *)

\* The clusters from c to the end of its chain.
ChainOf(c) ==
    LET r[n \in 0 .. LastCluster] ==
            IF n = 0 THEN {c}
            ELSE LET s == r[n - 1] IN s \cup {fat[x] : x \in s \ {Eoc}}
    IN  r[LastCluster] \ {Eoc}

Ends(c) == \E x \in ChainOf(c) \cap Clusters : fat[x] = Eoc

IsEntry(p) == disk[p[1]][p[2]].name \in Names \cup {Blank}
ClusterAt(p) == disk[p[1]][p[2]].cl
IsDirectory(p) == IsEntry(p) /\ disk[p[1]][p[2]].attr = "dir"

\* The directory that mkdir is about to fill is not a directory yet.
Unfilled == IF op.pc = "dots" THEN {op.file} ELSE {}

\* The clusters of the directories that can be reached from the root.
DirClusters ==
    LET Below(ds) == (UNION {ChainOf(ClusterAt(p)) :
                                p \in {q \in ds \X Slots : IsDirectory(q)}}) \ Unfilled
        d[n \in 0 .. LastCluster] ==
            IF n = 0 THEN ChainOf(Root) \cap Clusters
            ELSE LET s == d[n - 1] IN s \cup (Below(s) \cap Clusters)
    IN  d[LastCluster]

Entries == {p \in DirClusters \X Slots : IsEntry(p)}
DirHeads == {Root} \cup {ClusterAt(p) : p \in {q \in Entries : IsDirectory(q)}}

\* What no command recovers from: an entry for cluster 0, a directory whose first
\* sector was never written, and an entry '.' or '..' that a command has taken for a
\* file's: rm . frees the clusters of a directory that is still entered.
Sound == events \cap {"zero", "torn", "dotted"} = {}

\* fat_alloc_cluster, fat_extend_chain, fat_delete_file: no cluster is in
\* two chains, and none that an entry can reach is free, on the disk or in
\* the cached sector; nor when a power failure has left a directory without its
\* first sector.
ChainsApart ==
    events \cap {"zero", "dotted"} = {} =>
      /\ \A c \in {Root} \cup {ClusterAt(p) : p \in Entries} :
            /\ Ends(c) /\ ChainOf(c) \subseteq Clusters
            /\ \A x \in ChainOf(c) :
                  fat[x] # 0 /\ (x \in DOMAIN cache.buf => cache.buf[x] # 0)
      /\ \A p \in Entries :
            /\ ChainOf(ClusterAt(p)) \cap ChainOf(Root) = {}
            /\ \A q \in Entries \ {p} :
                  ChainOf(ClusterAt(p)) \cap ChainOf(ClusterAt(q)) = {}

\* cached_fat_buf: the cached sector differs from the disk only where
\* fat_delete_file has freed an entry behind its back, so that it may hide
\* free clusters and never shows one in use as free.
CacheHidesOnlyFrees ==
    \A c \in DOMAIN cache.buf : cache.buf[c] = fat[c] \/ fat[c] = 0

\* fat_write_data, fat_read_file: a text that was saved is read back, until
\* its file is removed or saved again, whatever is done to other files and
\* wherever the power goes off. Not so once mkdir has run in the later cluster of
\* a directory ("deep"): two cd .. may then lead to the cluster of a file, and the
\* next entry is written over its text.
BlockOf(p, b) ==
    LET r[n \in 1 .. MaxBlocks] ==
            IF n = 1 THEN ClusterAt(p)
            ELSE IF r[n - 1] \in Clusters THEN fat[r[n - 1]] ELSE Eoc
    IN  r[b]

SavedIsRead ==
    Sound /\ events \cap {"deep", "overwritten"} = {} =>
      \A p \in Places : LET t == saved[p] IN \A b \in 1 .. t.len :
          /\ BlockOf(p, b) \in Clusters
          /\ disk[BlockOf(p, b)] = TextSector(t.v, b, b = t.len)

\* fat_write_file, fat_create_dir: no directory has two entries of a name,
\* until mv, which does not look whether a name is taken, has renamed one, or a name
\* of more than eight characters, which no search finds, was cut to these ("cut").
NamesUnique ==
    Sound /\ events \cap {"renamed", "cut", "deep", "overwritten"} = {} =>
      \A d \in DirHeads : \A p, q \in (ChainOf(d) \X Slots) \cap Entries :
          disk[p[1]][p[2]].name = disk[q[1]][q[2]].name => p = q

\* fat_open_dir, fat_cd_back: the path in the prompt leads from the root to
\* the directory commands work on; until cd . has put a word into the path that the
\* next cd .. takes for a directory's ("here"), and again after cd.
PromptNamesCwd ==
    LET Child(ds, n) == {ClusterAt(p) : p \in {q \in Entries :
                            /\ q[1] \in UNION {ChainOf(d) : d \in ds}
                            /\ IsDirectory(q) /\ disk[q[1]][q[2]].name = n}}
        to[i \in 0 .. Len(path)] ==
            IF i = 0 THEN {Root}
            ELSE IF path[i] = Slash THEN to[i - 1] ELSE Child(to[i - 1], path[i])
    IN  \/ ~Sound \/ events \cap {"deep", "overwritten", "here"} # {}
        \/ Letter \in Range(path)
        \/ cwd \in to[Len(path)]

\* The present directory has an entry in the one that cd .. leads to.
GoesUp ==
    \E p \in Entries : /\ IsDirectory(p) /\ ClusterAt(p) = cwd
                       /\ p[1] \in ChainOf(cwd') /\ cwd' \in DirHeads

\* fat_cd_back: cd .. leads to the directory that holds the entry of the present
\* one, unless mkdir has run in the later cluster of a directory ("deep"): then
\* the entry '..' names that cluster.
BackIsUp ==
    [][CdBack /\ Sound /\ events \cap {"deep", "overwritten"} = {} => GoesUp]_vars

\* fat_cd_back as its comment has it, "geht ein ordner zurueck": always one
\* directory up. It does not hold, see BackIsUp.
BackIsOneUp ==
    [][CdBack /\ Sound /\ "overwritten" \notin events => GoesUp]_vars

\* A command that has started ends: no walk runs in a circle.
CommandsEnd == (op.pc # "idle" /\ Sound) ~> (op.pc = "idle" \/ ~Sound)
=============================================================================
