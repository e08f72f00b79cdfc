------------------------------- MODULE FatProofs -------------------------------
(***************************************************************************)
(* Theorems about Fat, for every size of volume, sector and directory,     *)
(* every set of names and every volume to start with: what the cached      *)
(* sector of the FAT may hide, that the chains of files and directories    *)
(* stay apart, that a text that was saved is read back, and where cd ..    *)
(* leads.                                                                  *)
(*                                                                         *)
(* fat.c writes the table through one cached sector, which hides what      *)
(* fat_delete_file has freed. So there are two tables to speak of, the one *)
(* on the disk and the one the driver sees (View), and a step may make     *)
(* either of them the other. The invariant IInv says of both that no chain *)
(* leads into another, and of the command under way which clusters it has  *)
(* taken, and which it still has to give back.                             *)
(*                                                                         *)
(* The second half builds TextInv on it. A function own, which the code    *)
(* does not have, tells of each cluster the file or directory it belongs   *)
(* to: steps of other commands, even on a free sector that still has       *)
(* entries in it, leave the clusters of a file alone. '..' in a directory  *)
(* must lead to the owner of the sector its entry is in, since cd ..       *)
(* follows it and rm of an entry found in a wrong directory would be of a  *)
(* text.                                                                   *)
(*                                                                         *)
(* The next part shows that a walk from the root finds the working         *)
(* directory and those above it: where cd .. leads, and that the path in   *)
(* the prompt names it.                                                    *)
(*                                                                         *)
(* Then NamesInv: the search that create and mkdir begin with has seen the *)
(* whole directory when it ends, so no name comes twice.                   *)
(***************************************************************************)
EXTENDS Fat, FiniteSetTheorems, WellFoundedInduction, TLAPS

\* Slots and clusters are numbers that the loops count up: the one they stop at
\* is the least (fat.c:255, 383).
LEMMA LeastElement ==
    ASSUME NEW S \in SUBSET Nat, S # {}
    PROVE  \E x \in S : \A y \in S : x <= y
<1>1. IsWellFoundedOn(OpToRel(<, Nat), Nat)  BY NatLessThanWellFounded
<1>2. PICK x \in S : \A y \in S : <<y, x>> \notin OpToRel(<, Nat)  BY <1>1, WFMin
<1>3. \A y \in S : ~ (y < x)  BY <1>2 DEF OpToRel
<1>. QED  BY <1>3

\* And the one they stop at from the other end is the greatest.
LEMMA GreatestElement ==
    ASSUME NEW N \in Nat, NEW S \in SUBSET (0 .. N), S # {}
    PROVE  \E x \in S : \A y \in S : y <= x
<1>. DEFINE T == {t \in Nat : N - t \in S}
<1>1. PICK s \in S : TRUE  OBVIOUS
<1>2. N - s \in T  BY <1>1
<1>3. PICK t \in T : \A y \in T : t <= y  BY <1>2, LeastElement
<1>4. \A y \in S : N - y \in T  OBVIOUS
<1>5. ASSUME NEW y \in S PROVE y <= N - t
  <2>1. t <= N - y /\ y \in 0 .. N /\ t \in Nat  BY <1>3, <1>4
  <2>. QED  BY <2>1
<1>. QED  BY <1>3, <1>5

-----------------------------------------------------------------------------

\* A sector, cached or on its way into the cache, that shows the entries of a
\* table, but for those that are free.
Shows(ch, table) ==
    /\ ch = [nr |-> ch.nr, buf |-> ch.buf]
    /\ ch.buf = [c \in DOMAIN ch.buf |-> ch.buf[c]]
    /\ DOMAIN ch.buf = EntriesOf(ch.nr)
    /\ \A c \in DOMAIN ch.buf : ch.buf[c] = table[c] \/ table[c] = 0

CacheInv ==
    /\ fat = [c \in 0 .. LastCluster |-> fat[c]]
    /\ Shows(cache, fat)

\* What the search for a free cluster may answer is free on the disk.
FoundIsFree == \A c \in FreeSeen : fat[c] = 0

-----------------------------------------------------------------------------

\* A sector that is read shows what is on the disk (fat_next_cluster,
\* fat_alloc_cluster).
LEMMA SectorShows ==
    ASSUME NEW nr
    PROVE  Shows(Sector(nr), fat)
    BY DEF Shows, Sector

\* What a look at the FAT leaves in the cache.
LEMMA LookShows ==
    ASSUME CacheInv, NEW c
    PROVE  Shows(Loaded(c), fat) /\ Shows(Scanned(c), fat)
    BY SectorShows DEF CacheInv, Loaded, Scanned

\* An entry that is changed in the cache and flushed: afterwards the sector on
\* the disk is the cached one, hidden entries and all.
LEMMA FlushShows ==
    ASSUME CacheInv, NEW ch, Shows(ch, fat), NEW c, NEW v,
           cache' = [ch EXCEPT !.buf[c] = v], fat' = Flushed(cache')
    PROVE  CacheInv'
<1>1. /\ cache' = [nr |-> ch.nr, buf |-> [ch.buf EXCEPT ![c] = v]]
      /\ cache'.nr = ch.nr /\ cache'.buf = [ch.buf EXCEPT ![c] = v]
    BY DEF Shows
<1>2. DOMAIN cache'.buf = EntriesOf(ch.nr) /\ cache'.buf = [x \in DOMAIN cache'.buf |-> cache'.buf[x]]
    BY <1>1 DEF Shows
<1>3. fat' = [x \in 0 .. LastCluster |-> IF x \in EntriesOf(ch.nr) THEN cache'.buf[x] ELSE fat[x]]
    BY <1>1 DEF Flushed
<1>4. EntriesOf(ch.nr) \subseteq 0 .. LastCluster  BY DEF EntriesOf
<1>5. \A x \in EntriesOf(ch.nr) : fat'[x] = cache'.buf[x]  BY <1>3, <1>4
<1>6. fat' = [x \in 0 .. LastCluster |-> fat'[x]]  BY <1>3
<1>7. cache' = [nr |-> cache'.nr, buf |-> cache'.buf]  BY <1>1
<1>8. EntriesOf(ch.nr) = EntriesOf(cache'.nr)  BY <1>1
<1>9. Shows(cache, fat)'  BY <1>2, <1>5, <1>7, <1>8 DEF Shows, EntriesOf, FatSector
<1>. QED  BY <1>6, <1>9 DEF CacheInv

\* The cache is empty after fat_init: no sector has the number -1.
LEMMA EmptyShows ==
    ASSUME NEW table
    PROVE  Shows(NoCache, table)
<1>1. ASSUME NEW c \in 0 .. LastCluster PROVE FatSector(c) # -1
    <2>1. EntriesPerSector \in Nat /\ EntriesPerSector > Root /\ LastCluster \in Nat
        BY VolumeAssumption, Zenon
    <2>2. c \in Nat /\ EntriesPerSector \in Nat \ {0}  BY <2>1 DEF Root
    <2>3. c \div EntriesPerSector \in Nat  BY <2>2
    <2>. QED  BY <2>3 DEF FatSector
<1>2. EntriesOf(-1) = {}  BY <1>1 DEF EntriesOf
<1>3. NoCache.nr = -1 /\ NoCache.buf = <<>> /\ NoCache = [nr |-> NoCache.nr, buf |-> NoCache.buf]
    BY DEF NoCache
<1>4. DOMAIN <<>> = {} /\ <<>> = [c \in DOMAIN <<>> |-> <<>>[c]]  OBVIOUS
<1>. QED  BY <1>2, <1>3, <1>4 DEF Shows

\* Steps that leave table and cache alone: the start of a command, and those
\* that write to the data area only.
LEMMA AloneStep ==
    ASSUME CacheInv, UNCHANGED <<fat, cache>>
    PROVE  CacheInv'
    BY DEF CacheInv, Shows, EntriesOf, FatSector

\* A look at the FAT writes nothing.
LEMMA LookStep ==
    ASSUME CacheInv, UNCHANGED fat, NEW c, cache' = Loaded(c) \/ cache' = Scanned(c)
    PROVE  CacheInv'
<1>1. Shows(cache', fat)  BY LookShows
<1>. QED  BY <1>1 DEF CacheInv, Shows, EntriesOf, FatSector

\* Steps along a directory or a chain of clusters.
LEMMA WalkStep ==
    ASSUME CacheInv,
           Check \/ Open \/ Unlink \/ Rename \/ Locate \/ Read \/ Chain \/ Dir
    PROVE  CacheInv'
<1>1. UNCHANGED fat /\ (cache' = cache \/ \E c : cache' = Loaded(c))
    BY DEF Check, Open, Unlink, Rename, Locate, Read, Chain, Dir, WalkOn
<1>. QED  BY <1>1, AloneStep, LookStep

\* Steps that look for a free cluster, and may take it.
LEMMA TakeStep ==
    ASSUME CacheInv, Place \/ Mark
    PROVE  CacheInv'
<1>1. \/ \E c : Take(c)
      \/ UNCHANGED fat /\ \E c : cache' = Loaded(c) \/ cache' = Scanned(c)
    BY DEF Place, Mark, FindNone, WalkOn
<1>2. ASSUME NEW c, Take(c) PROVE CacheInv'  BY <1>2, FlushShows, LookShows DEF Take
<1>. QED  BY <1>1, <1>2, LookStep

\* fat_extend_chain links a cluster to the chain.
LEMMA LinkStep ==
    ASSUME CacheInv, Link
    PROVE  CacheInv'
    BY FlushShows, LookShows DEF Link

\* fat_delete_file frees a cluster behind the cache.
LEMMA FreeStep ==
    ASSUME CacheInv, Free
    PROVE  CacheInv'
<1>1. cache' = Loaded(op.file) /\ fat' = [fat EXCEPT ![op.file] = 0]  BY DEF Free
<1>2. Shows(cache', fat)  BY <1>1, LookShows
<1>3. fat' = [c \in 0 .. LastCluster |-> fat'[c]]  BY <1>1 DEF CacheInv
<1>4. \A c \in 0 .. LastCluster : fat'[c] = fat[c] \/ fat'[c] = 0  BY <1>1 DEF CacheInv
<1>5. EntriesOf(cache'.nr) \subseteq 0 .. LastCluster  BY DEF EntriesOf
<1>. QED  BY <1>2, <1>3, <1>4, <1>5 DEF CacheInv, Shows, EntriesOf, FatSector

\* The volume is read for the first time, and nothing is cached (fat_init).
LEMMA CacheInvInit == Init => CacheInv
<1>1. ASSUME Init PROVE fat = [c \in 0 .. LastCluster |-> fat[c]]
    BY <1>1, WholeAssumption DEF Init
<1>. QED  BY <1>1, EmptyShows DEF Init, CacheInv

\* Every step of a command, and a power failure, leaves the cached sector such
\* that it shows the table (cached_fat_buf).
LEMMA CacheInvStep ==
    ASSUME CacheInv, [Next]_vars
    PROVE  CacheInv'
<1>1. CASE Call
    <2>1. UNCHANGED <<fat, cache>>
        BY <1>1 DEF Call, Create, MkDir, CdTo, Remove, Cat, List, Move, Save, Start,
            CdRoot, CdBack
    <2>. QED  BY <2>1, AloneStep
<1>2. CASE Check \/ Open \/ Unlink \/ Rename \/ Locate \/ Read \/ Chain \/ Dir
    BY <1>2, WalkStep
<1>3. CASE Place \/ Mark  BY <1>3, TakeStep
<1>4. CASE Link  BY <1>4, LinkStep
<1>5. CASE Free  BY <1>5, FreeStep
<1>6. CASE Entry \/ Dots \/ Zero \/ Data
    <2>1. UNCHANGED <<fat, cache>>  BY <1>6 DEF Entry, Dots, Zero, Data
    <2>. QED  BY <2>1, AloneStep
<1>7. CASE Crash
    <2>1. fat' = fat /\ cache' = NoCache  BY <1>7 DEF Crash
    <2>2. Shows(NoCache, fat)  BY EmptyShows
    <2>3. Shows(cache, fat)'  BY <2>1, <2>2 DEF Shows, EntriesOf, FatSector
    <2>. QED  BY <2>1, <2>3 DEF CacheInv
<1>8. CASE UNCHANGED vars
    <2>1. UNCHANGED <<fat, cache>>  BY <1>8 DEF vars
    <2>. QED  BY <2>1, AloneStep
<1>. QED  BY <1>1, <1>2, <1>3, <1>4, <1>5, <1>6, <1>7, <1>8 DEF Next, Step

\* Whatever the commands do and wherever the power goes off, the cached sector
\* shows the entries of the disk.
THEOREM CacheInvInvariant == Spec => []CacheInv
    BY CacheInvInit, CacheInvStep, PTL DEF Spec

\* The cached sector never shows a cluster in use as free: it differs from the
\* disk only where an entry was freed (cached_fat_buf, fat_delete_file).
THEOREM CacheIsSafe == Spec => []CacheHidesOnlyFrees
<1>1. CacheInv => CacheHidesOnlyFrees  BY DEF CacheInv, Shows, CacheHidesOnlyFrees
<1>. QED  BY <1>1, CacheInvInvariant, PTL

\* Although it may look at a stale sector, fat_alloc_cluster never takes a
\* cluster that is in use.
THEOREM FoundClusterIsFree == Spec => []FoundIsFree
<1>1. CacheInv => FoundIsFree
    <2>. SUFFICES ASSUME CacheInv, NEW c \in FreeSeen PROVE fat[c] = 0
        BY DEF FoundIsFree
    <2>1. c \in Clusters /\ Scanned(FatSector(c)).buf[c] = 0  BY DEF FreeSeen
    <2>2. Shows(Scanned(FatSector(c)), fat)  BY LookShows
    <2>3. Scanned(FatSector(c)).nr = FatSector(c)  BY DEF Scanned, Sector
    <2>4. c \in EntriesOf(FatSector(c))  BY <2>1 DEF Clusters, EntriesOf
    <2>. QED  BY <2>1, <2>2, <2>3, <2>4 DEF Shows
<1>. QED  BY <1>1, CacheInvInvariant, PTL

-----------------------------------------------------------------------------
(* The two tables, and the invariant.                                      *)

Numbers == 0 .. LastCluster

\* A sector of the FAT as a view of the whole table.
Seen(ch) == [c \in Numbers |-> IF c \in DOMAIN ch.buf THEN ch.buf[c] ELSE fat[c]]
View == Seen(cache)

TableInv == fat \in [Numbers -> FatEntry] /\ View \in [Numbers -> FatEntry]

\* The local variables of a command.
NoWord == ""
OpShape ==
    op = [pc |-> op.pc, cmd |-> op.cmd, name |-> op.name, word |-> op.word,
          at |-> op.at, slot |-> op.slot, found |-> op.found, file |-> op.file,
          new |-> op.new, off |-> op.off, text |-> op.text]

OpType ==
    /\ OpShape
    /\ cwd \in Numbers \cup {Astray}
    /\ op.file \in Numbers /\ op.new \in Numbers
    /\ op.slot \in Nat \ {0}
    /\ op.name \in Typed \cup {NoWord} /\ op.word \in Typed \cup {NoWord}
    /\ op.pc # "idle" => cwd \in Numbers /\ op.at \in Numbers
    /\ op.pc \notin {"idle", "list", "rename"} => op.name # NoWord
    /\ op.pc \notin {"free", "remove"} => op.slot \in Slots
    /\ op.pc \in {"zero", "link"} => op.new \in Clusters

TypeInv == TableInv /\ AreSectors(disk) /\ OpType

\* A cluster that was taken and that nothing leads to yet.
Fresh(c) ==
    /\ c \in Clusters /\ fat[c] # 0 /\ c \notin Heads(disk)
    /\ \A x \in Numbers : View[x] # c

\* A cluster whose chain is given back, and that nothing leads to any more.
Doomed(c) ==
    /\ c \in Clusters /\ fat[c] # 0 /\ c \notin Heads(disk)
    /\ \A x \in Numbers : fat[x] # c

OpInv ==
    /\ op.pc = "entry" => op.file = 0 \/ Fresh(op.file)
    /\ op.pc \in {"zero", "link"} => Fresh(op.new)
    /\ op.pc = "free" => Doomed(op.file)

WholeInv == Whole(fat, disk) /\ Joined(View, Heads(disk))

\* No entry is for cluster 0, and '.' and '..' are left to mkdir and cd.
Intact(ev) == ev \cap {"zero", "dotted"} = {}

IInv == CacheInv /\ TypeInv /\ (Intact(events) => WholeInv /\ OpInv)

\* The words that a user types are not the marks in an entry (str_equal_fat,
\* fat_write_file), and those that are cut are like the others then.
LEMMA Wording ==
    /\ Typed \cap {Nul, Deleted, Blank, Letter, Slash, "text", ""} = {}
    /\ Names \cap {Nul, Deleted, Blank, Dot, DotDot, Letter, Slash, "text", ""} = {}
    /\ Names \subseteq Typed
    /\ \A w \in Typed : /\ w \in Names => Stored(w) = w
                        /\ w \notin {Dot, DotDot} => Stored(w) \in Names
                        /\ w \in {Dot, DotDot} => Stored(w) = w
<1>1. /\ (Names \cup LongNames) \cap {Nul, Deleted, Blank, Dot, DotDot, Letter, Slash, "text", ""} = {}
      /\ Names \cap LongNames = {} /\ Cut \in [LongNames -> Names]
    BY VolumeAssumption, Zenon
<1>2. {Dot, DotDot} \cap {Nul, Deleted, Blank, Letter, Slash, "text", ""} = {}
    BY DEF Dot, DotDot, Nul, Deleted, Blank, Letter, Slash
<1>3. Typed = Names \cup LongNames \cup {Dot, DotDot}  BY DEF Typed
<1>4. \A w \in Typed : /\ w \in Names => Stored(w) = w
                       /\ w \notin {Dot, DotDot} => Stored(w) \in Names
                       /\ w \in {Dot, DotDot} => Stored(w) = w
    BY <1>1, <1>3 DEF Stored
<1>5. (Names \cup LongNames) \cap {Nul, Deleted, Blank, Letter, Slash, "text", ""} = {}
    BY <1>1, Zenon
<1>6. Names \cap {Nul, Deleted, Blank, Dot, DotDot, Letter, Slash, "text", ""} = {}
    BY <1>1, Zenon
<1>7. Typed \cap {Nul, Deleted, Blank, Letter, Slash, "text", ""} = {}
    BY <1>2, <1>3, <1>5, Zenon
<1>8. Names \subseteq Typed  BY ONLY <1>3, Zenon
<1>. QED  BY ONLY <1>4, <1>6, <1>7, <1>8, Zenon

\* What was intact before a step of fat.c was so if it still is.
LEMMA IntactBefore ==
    ASSUME NEW ev, NEW new, ev \subseteq new, Intact(new)
    PROVE  Intact(ev)
    BY DEF Intact

-----------------------------------------------------------------------------
(* What a look at the FAT shows, and what a change of it leaves.           *)

\* What the search and the walks put into the cache.
Looks(ch) == ch = cache \/ \E nr : ch = Sector(nr)

\* fat_next_cluster and fat_alloc_cluster read a sector or use the cached one.
LEMMA LooksOnly == ASSUME NEW c PROVE Looks(Loaded(c)) /\ Looks(Scanned(c))
    BY DEF Looks, Loaded, Scanned

\* The numbers that fat.c gives a meaning: clusters, free, end of a chain.
LEMMA Numbering ==
    /\ LastCluster \in Nat /\ LastCluster > 2 /\ Clusters \subseteq Numbers
    /\ Root \in Clusters /\ 0 \in Numbers /\ 0 \notin Clusters /\ LastCluster \in Numbers
    /\ Eoc \notin Numbers /\ Astray \notin Numbers /\ Eoc # 0
    /\ FatEntry \subseteq Numbers \cup {Eoc}
    /\ Slots \subseteq Nat /\ 1 \in Slots /\ 2 \in Slots
<1>1. /\ LastCluster \in Nat /\ LastCluster > Root
      /\ SlotsPerSector \in Nat /\ SlotsPerSector > 2
    BY VolumeAssumption, Zenon
<1>. QED  BY <1>1 DEF Root, Numbers, Clusters, Eoc, Astray, FatEntry, Slots

\* The driver sees the table on the disk, or the one its cached sector shows
\* (cached_fat_buf).
LEMMA SeenLooks ==
    ASSUME CacheInv, TableInv, NEW ch, Looks(ch)
    PROVE  Seen(ch) \in {View, fat}
<1>1. CASE ch = cache  BY <1>1 DEF View
<1>2. ASSUME NEW nr, ch = Sector(nr) PROVE Seen(ch) = fat
    <2>1. ch.buf = [c \in EntriesOf(nr) |-> fat[c]]  BY <1>2 DEF Sector
    <2>2. fat = [c \in Numbers |-> fat[c]]  BY DEF TableInv
    <2>3. \A c \in Numbers : Seen(ch)[c] = fat[c]  BY <2>1 DEF Seen
    <2>. QED  BY <2>2, <2>3 DEF Seen
<1>. QED  BY <1>1, <1>2 DEF Looks

\* A sector that was read shows what is in the table (fat_next_cluster).
LEMMA LooksShow ==
    ASSUME CacheInv, NEW ch, Looks(ch)
    PROVE  Shows(ch, fat)
    BY SectorShows DEF CacheInv, Looks

\* A view never shows a cluster in use as anything but what it is
\* (fat_alloc_cluster).
LEMMA SeenAgrees ==
    ASSUME CacheInv, NEW ch, Looks(ch), NEW x \in Numbers, fat[x] # 0
    PROVE  Seen(ch)[x] = fat[x]
<1>1. Shows(ch, fat)  BY LooksShow
<1>. QED  BY <1>1 DEF Shows, Seen

\* fat_next_cluster reads the view.
LEMMA FollowingSeen ==
    ASSUME CacheInv, NEW c \in Numbers
    PROVE  Following(c) = Seen(Loaded(c))[c] /\ c \in DOMAIN Loaded(c).buf
<1>1. Shows(Loaded(c), fat) /\ Loaded(c).nr = FatSector(c)
    BY LookShows DEF Loaded, Sector
<1>2. c \in DOMAIN Loaded(c).buf  BY <1>1 DEF Shows, EntriesOf, Numbers
<1>. QED  BY <1>2 DEF Following, Seen

\* A walk with fat_next_cluster goes on or it ends.
LEMMA FollowingType ==
    ASSUME CacheInv, TableInv, NEW c \in Numbers
    PROVE  Following(c) \in FatEntry /\ (fat[c] # 0 => Following(c) = fat[c])
<1>1. Following(c) = Seen(Loaded(c))[c]  BY FollowingSeen
<1>2. Seen(Loaded(c)) \in {View, fat}  BY SeenLooks, LooksOnly
<1>3. fat[c] # 0 => Seen(Loaded(c))[c] = fat[c]  BY SeenAgrees, LooksOnly
<1>. QED  BY <1>1, <1>2, <1>3 DEF TableInv

\* fat_alloc_cluster and fat_extend_chain change the cached sector and write it: the table
\* becomes what the driver has seen of it, with the change.
LEMMA FlushSeen ==
    ASSUME CacheInv, TableInv, NEW ch, Looks(ch), NEW c \in DOMAIN ch.buf, NEW v,
           cache' = [ch EXCEPT !.buf[c] = v], fat' = Flushed(cache')
    PROVE  fat' = [Seen(ch) EXCEPT ![c] = v] /\ View' = fat'
<1>1. Shows(ch, fat)  BY LooksShow
<1>2. /\ cache' = [nr |-> ch.nr, buf |-> [ch.buf EXCEPT ![c] = v]]
      /\ cache'.nr = ch.nr /\ cache'.buf = [ch.buf EXCEPT ![c] = v]
    BY <1>1 DEF Shows
<1>3. DOMAIN ch.buf = EntriesOf(ch.nr) /\ EntriesOf(ch.nr) \subseteq Numbers
    BY <1>1 DEF Shows, EntriesOf, Numbers
<1>4. fat' = [x \in Numbers |-> IF x \in DOMAIN ch.buf THEN cache'.buf[x] ELSE fat[x]]
    BY <1>2, <1>3 DEF Flushed, Numbers
<1>5. ch.buf = [x \in DOMAIN ch.buf |-> ch.buf[x]]  BY <1>1 DEF Shows
<1>6. \A x \in DOMAIN ch.buf : cache'.buf[x] = IF x = c THEN v ELSE ch.buf[x]
    BY <1>2, <1>5
<1>7. fat' = [Seen(ch) EXCEPT ![c] = v]  BY <1>3, <1>4, <1>6 DEF Seen
<1>8. DOMAIN cache'.buf = DOMAIN ch.buf  BY <1>2
<1>9. View' = [x \in Numbers |-> IF x \in DOMAIN ch.buf THEN cache'.buf[x] ELSE fat'[x]]
    BY <1>8 DEF View, Seen, Numbers
<1>10. \A x \in DOMAIN ch.buf : fat'[x] = cache'.buf[x]  BY <1>3, <1>4
<1>11. fat' = [x \in Numbers |-> fat'[x]]  BY <1>4
<1>. QED  BY <1>7, <1>9, <1>10, <1>11

-----------------------------------------------------------------------------
(* The sectors of directories and files.                                   *)

\* No entry of e was not there in d.
Kept(d, e) ==
    \A p \in Named(e) : p \in Named(d) /\ e[p[1]][p[2]].cl = d[p[1]][p[2]].cl

\* A name that can be in a slot.
Storable(name) == name # ""

\* What fat.c writes into a slot is a slot.
LEMMA SlotIsSlot ==
    ASSUME NEW name, NEW attr, NEW cl, NEW size,
           cl \in Numbers \/ (cl = Astray /\ name = "text"), name = Nul => cl = 0, Storable(name)
    PROVE  IsSlot(Slot(name, attr, cl, size))
<1>. DEFINE s == Slot(name, attr, cl, size)
<1>1. s.name = name /\ s.attr = attr /\ s.cl = cl /\ s.size = size  BY DEF Slot
<1>. HIDE DEF s
<1>2. s = Slot(s.name, s.attr, s.cl, s.size)
    <2>1. s = Slot(name, attr, cl, size)  BY DEF s
    <2>. QED  BY <1>1, <2>1, Zenon
<1>3. IsSlot(s)  BY <1>1, <1>2 DEF IsSlot, Numbers, Storable
<1>. QED  BY <1>3 DEF s

\* The sectors that are written whole: none of them holds an entry.
LEMMA NewSectors ==
    /\ IsSector(EmptySector) /\ \A i \in Slots : EmptySector[i].name \notin Names \cup {Blank}
    /\ \A v, b, last :
          /\ IsSector(TextSector(v, b, last))
          /\ \A i \in Slots : TextSector(v, b, last)[i].name \notin Names \cup {Blank}
    /\ \A c, p \in Numbers :
          /\ IsSector(DirSector(c, p))
          /\ \A i \in Slots : DirSector(c, p)[i].name \notin Names \cup {Blank}
<1>1. /\ Nul \notin Names \cup {Blank} /\ "text" \notin Names \cup {Blank}
      /\ Dot \notin Names \cup {Blank} /\ DotDot \notin Names \cup {Blank}
    <2>1. Names \cap {Nul, Deleted, Blank, Dot, DotDot, Letter, Slash, "text"} = {}
        BY Wording
    <2>. QED  BY <2>1 DEF Nul, Blank, Dot, DotDot
<1>2. IsSlot(Slot(Nul, "none", 0, 0)) /\ Slot(Nul, "none", 0, 0).name = Nul
    <2>1. 0 \in Numbers /\ Storable(Nul)  BY Numbering DEF Nul, Storable
    <2>2. IsSlot(Slot(Nul, "none", 0, 0))  BY <2>1, SlotIsSlot, Zenon
    <2>. QED  BY <2>2 DEF Slot
<1>3. /\ IsSector(EmptySector)
      /\ \A i \in Slots : EmptySector[i] = Slot(Nul, "none", 0, 0)
    BY <1>2 DEF IsSector, EmptySector
<1>4. ASSUME NEW v, NEW b, NEW last
      PROVE  /\ IsSector(TextSector(v, b, last))
             /\ \A i \in Slots : TextSector(v, b, last)[i].name \notin Names \cup {Blank}
    <2>1. IsSlot(Slot("text", v, Astray, b)) /\ Slot("text", v, Astray, b).name = "text"
        <3>1. "text" # Nul /\ Storable("text")  BY DEF Nul, Storable
        <3>2. IsSlot(Slot("text", v, Astray, b))  BY <3>1, SlotIsSlot, Zenon
        <3>. QED  BY <3>2 DEF Slot
    <2>. QED  BY <1>1, <1>2, <1>3, <2>1 DEF IsSector, TextSector
<1>5. ASSUME NEW c \in Numbers, NEW p \in Numbers
      PROVE  /\ IsSector(DirSector(c, p))
             /\ \A i \in Slots : DirSector(c, p)[i].name \notin Names \cup {Blank}
    <2>1. IsSlot(Slot(Dot, "dir", c, 0)) /\ Slot(Dot, "dir", c, 0).name = Dot
        <3>1. Dot # Nul /\ Storable(Dot)  BY DEF Nul, Dot, Storable
        <3>2. IsSlot(Slot(Dot, "dir", c, 0))  BY <3>1, SlotIsSlot, Zenon
        <3>. QED  BY <3>2 DEF Slot
    <2>2. IsSlot(Slot(DotDot, "dir", p, 0)) /\ Slot(DotDot, "dir", p, 0).name = DotDot
        <3>1. DotDot # Nul /\ Storable(DotDot)  BY DEF Nul, DotDot, Storable
        <3>2. IsSlot(Slot(DotDot, "dir", p, 0))  BY <3>1, SlotIsSlot, Zenon
        <3>. QED  BY <3>2 DEF Slot
    <2>. DEFINE s == DirSector(c, p)
    <2>3. s = [i \in Slots |-> IF i = 2 THEN Slot(DotDot, "dir", p, 0)
                               ELSE IF i = 1 THEN Slot(Dot, "dir", c, 0)
                               ELSE Slot(Nul, "none", 0, 0)]
        BY Numbering DEF DirSector, EmptySector
    <2>. QED  BY <1>1, <1>2, <2>1, <2>2, <2>3 DEF IsSector
<1>. QED  BY <1>1, <1>2, <1>3, <1>4, <1>5

\* A sector is written whole; when it holds no entry none is new
\* (fat_extend_chain, fat_init_dir_cluster, fat_write_data).
LEMMA SectorWritten ==
    ASSUME NEW d, AreSectors(d), NEW c \in Numbers, NEW s, IsSector(s)
    PROVE  /\ AreSectors([d EXCEPT ![c] = s])
           /\ (\A i \in Slots : s[i].name \notin Names \cup {Blank}) => Kept(d, [d EXCEPT ![c] = s])
<1>. DEFINE e == [d EXCEPT ![c] = s]
<1>1. e = [x \in Numbers |-> IF x = c THEN s ELSE d[x]]  BY DEF AreSectors, Numbers
<1>2. AreSectors(e)  BY <1>1 DEF AreSectors, Numbers
<1>3. (\A i \in Slots : s[i].name \notin Names \cup {Blank}) => Kept(d, e)
    BY <1>1 DEF Kept, Named, Places, Numbers
<1>. QED  BY <1>2, <1>3

\* One slot is written.
Written(d, e, c, i, s) ==
    e = [x \in Numbers |-> IF x = c THEN [j \in Slots |-> IF j = i THEN s ELSE d[c][j]] ELSE d[x]]

\* A slot is written; it becomes no entry, or it was one of the same cluster.
LEMMA SlotWritten ==
    ASSUME NEW d, AreSectors(d), NEW c \in Numbers, NEW i \in Slots, NEW s, IsSlot(s),
           NEW e, Written(d, e, c, i, s)
    PROVE  /\ AreSectors(e) /\ e[c][i] = s
           /\ \A p \in Places : p # <<c, i>> => e[p[1]][p[2]] = d[p[1]][p[2]]
           /\ \/ s.name \notin Names \cup {Blank}
              \/ d[c][i].name \in Names \cup {Blank} /\ s.cl = d[c][i].cl
              => Kept(d, e)
<1>1. e = [x \in Numbers |-> IF x = c THEN [j \in Slots |-> IF j = i THEN s ELSE d[c][j]]
                                      ELSE d[x]]
    BY DEF Written
<1>2. e[c] = [j \in Slots |-> IF j = i THEN s ELSE d[c][j]]  BY <1>1
<1>3. IsSector(e[c])
    <2>1. \A j \in Slots : IsSlot(d[c][j])  BY DEF AreSectors, IsSector, Numbers
    <2>. QED  BY <1>2, <2>1 DEF IsSector
<1>4. AreSectors(e)  BY <1>1, <1>3 DEF AreSectors, Numbers
<1>5. ASSUME NEW p \in Places
      PROVE  /\ p # <<c, i>> => e[p[1]][p[2]] = d[p[1]][p[2]]
             /\ p = <<c, i>> => e[p[1]][p[2]] = s /\ d[p[1]][p[2]] = d[c][i]
    <2>1. p[1] \in Numbers /\ p[2] \in Slots /\ (p # <<c, i>> => p[1] # c \/ p[2] # i)
        BY DEF Places, Numbers
    <2>2. p = <<c, i>> => p[1] = c /\ p[2] = i  OBVIOUS
    <2>. QED  BY <1>1, <1>2, <2>1, <2>2
<1>6. e[c][i] = s  BY <1>2
<1>7. ASSUME \/ s.name \notin Names \cup {Blank}
             \/ d[c][i].name \in Names \cup {Blank} /\ s.cl = d[c][i].cl
      PROVE  Kept(d, e)
    <2>. SUFFICES ASSUME NEW p \in Named(e)
                  PROVE  p \in Named(d) /\ e[p[1]][p[2]].cl = d[p[1]][p[2]].cl
        BY DEF Kept
    <2>1. p \in Places /\ e[p[1]][p[2]].name \in Names \cup {Blank}  BY DEF Named
    <2>. QED  BY <1>5, <1>7, <2>1 DEF Named
<1>. QED  BY <1>4, <1>5, <1>6, <1>7

\* The volume stays whole when no entry is new (fat_delete_file).
LEMMA KeptWhole ==
    ASSUME NEW t, NEW d, NEW e, Whole(t, d), Kept(d, e)
    PROVE  Whole(t, e) /\ Heads(e) \subseteq Heads(d)
<1>1. Heads(e) \subseteq Heads(d)  BY DEF Kept, Heads
<1>2. Joined(t, Heads(e))  BY <1>1 DEF Whole, Joined
<1>3. \A h \in Heads(e) : h \in Clusters /\ t[h] # 0  BY <1>1 DEF Whole
<1>4. \A p, q \in Named(e) :
          e[p[1]][p[2]].cl # Root /\ (e[p[1]][p[2]].cl = e[q[1]][q[2]].cl => p = q)
    BY DEF Kept, Whole
<1>. QED  BY <1>1, <1>2, <1>3, <1>4 DEF Whole

-----------------------------------------------------------------------------
(* The table.                                                              *)

\* A free cluster ends a chain of its own (fat_alloc_cluster).
LEMMA JoinedTake ==
    ASSUME NEW t \in [Numbers -> FatEntry], NEW H \in SUBSET Clusters, Joined(t, H),
           NEW c \in Clusters, t[c] = 0
    PROVE  /\ Joined([t EXCEPT ![c] = Eoc], H)
           /\ \A x \in Numbers : [t EXCEPT ![c] = Eoc][x] # c
<1>. DEFINE u == [t EXCEPT ![c] = Eoc]
<1>1. u = [x \in Numbers |-> IF x = c THEN Eoc ELSE t[x]] /\ DOMAIN t = Numbers  OBVIOUS
<1>2. Eoc \notin Clusters /\ Eoc # 0 /\ c \in Numbers /\ Clusters \subseteq Numbers
    BY Numbering
<1>3. \A x \in Numbers : t[x] # c  BY <1>1 DEF Joined
<1>. HIDE DEF u
<1>4. Joined(u, H)  BY <1>1, <1>2 DEF Joined
<1>5. \A x \in Numbers : u[x] # c  BY <1>1, <1>2, <1>3
<1>. QED  BY <1>4, <1>5 DEF u

\* A cluster nothing leads to is linked behind another (fat_extend_chain).
LEMMA JoinedLink ==
    ASSUME NEW t \in [Numbers -> FatEntry], NEW H, Joined(t, H),
           NEW f \in Numbers, NEW c \in Clusters, t[c] # 0, c \notin H, \A x \in Numbers : t[x] # c
    PROVE  Joined([t EXCEPT ![f] = c], H)
<1>. DEFINE u == [t EXCEPT ![f] = c]
<1>1. u = [x \in Numbers |-> IF x = f THEN c ELSE t[x]] /\ DOMAIN t = Numbers  OBVIOUS
<1>2. c # 0 /\ c \in Numbers /\ Clusters \subseteq Numbers  BY Numbering
<1>. HIDE DEF u
<1>3. \A x \in Numbers : u[x] \in Clusters => u[u[x]] # 0  BY <1>1, <1>2 DEF Joined
<1>4. \A x, y \in Numbers : u[x] \in Clusters /\ u[x] = u[y] => x = y
    BY <1>1 DEF Joined
<1>5. \A x \in Numbers : u[x] \notin H  BY <1>1 DEF Joined
<1>6. Joined(u, H)  BY <1>1, <1>3, <1>4, <1>5 DEF Joined
<1>. QED  BY <1>6 DEF u

\* A cluster nothing leads to is given back; now nothing leads to the next
\* (fat_delete_file).
LEMMA JoinedFree ==
    ASSUME NEW t \in [Numbers -> FatEntry], NEW H \in SUBSET Clusters, Joined(t, H),
           NEW c \in Clusters, t[c] # 0, \A x \in Numbers : t[x] # c
    PROVE  /\ Joined([t EXCEPT ![c] = 0], H)
           /\ t[c] # Eoc =>
                 /\ t[c] \in Clusters /\ t[c] \notin H /\ [t EXCEPT ![c] = 0][t[c]] # 0
                 /\ \A x \in Numbers : [t EXCEPT ![c] = 0][x] # t[c]
<1>. DEFINE u == [t EXCEPT ![c] = 0]
<1>1. u = [x \in Numbers |-> IF x = c THEN 0 ELSE t[x]] /\ DOMAIN t = Numbers  OBVIOUS
<1>2. 0 \notin Clusters /\ c \in Numbers /\ Clusters \subseteq Numbers  BY Numbering
<1>3. \A x \in Numbers : t[x] \in FatEntry  OBVIOUS
<1>. HIDE DEF u
<1>4. Joined(u, H)  BY <1>1, <1>2 DEF Joined
<1>5. ASSUME t[c] # Eoc
      PROVE  t[c] \in Clusters /\ t[c] \notin H /\ u[t[c]] # 0 /\ \A x \in Numbers : u[x] # t[c]
    <2>1. t[c] \in Clusters  BY <1>2, <1>3, <1>5 DEF FatEntry
    <2>2. t[t[c]] # 0 /\ t[c] # c /\ t[c] \notin H  BY <1>1, <1>2, <2>1 DEF Joined
    <2>3. \A x \in Numbers : t[x] = t[c] => x = c  BY <1>1, <1>2, <2>1 DEF Joined
    <2>4. t[c] # 0 /\ u[c] = 0  BY <1>1, <1>2
    <2>. QED  BY <1>1, <1>2, <2>1, <2>2, <2>3, <2>4
<1>. QED  BY <1>4, <1>5 DEF u

\* The entries of fat.c name clusters.
LEMMA HeadsType ==
    ASSUME NEW t, NEW d, Whole(t, d)
    PROVE  Heads(d) \in SUBSET Clusters
    BY DEF Whole

\* A look at the FAT may make the table on the disk the one that is seen
\* (fat_next_cluster, when it reads another sector).
LEMMA LookKeeps ==
    ASSUME CacheInv, TableInv, UNCHANGED fat, Looks(cache')
    PROVE  /\ TableInv' /\ View' \in {View, fat}
           /\ WholeInv /\ UNCHANGED disk => WholeInv'
<1>1. View' = Seen(cache')  BY DEF View, Seen, Numbers
<1>2. View' \in {View, fat}  BY <1>1, SeenLooks
<1>3. TableInv'  BY <1>2 DEF TableInv, Numbers, FatEntry, Clusters, Eoc
<1>4. ASSUME WholeInv, UNCHANGED disk PROVE WholeInv'
    <2>1. Heads(disk)' = Heads(disk)  BY <1>4 DEF Heads, Named, Places, Slots
    <2>2. Whole(fat, disk)'
        BY <1>4 DEF WholeInv, Whole, Joined, Heads, Named, Places, Slots, Clusters
    <2>3. Joined(View', Heads(disk))  BY <1>2, <1>4 DEF WholeInv, Whole
    <2>. QED  BY <2>1, <2>2, <2>3 DEF WholeInv, Joined, Clusters
<1>. QED  BY <1>2, <1>3, <1>4

-----------------------------------------------------------------------------
(* Each step keeps the invariant.                                          *)

\* The walk along a directory goes on, or it ends (fat_next_cluster).
LEMMA WalkOnStep ==
    ASSUME CacheInv, TypeInv, op.pc # "idle", NEW end, WalkOn(end)
    PROVE  /\ Looks(cache')
           /\ op' = end \/ \E c \in Numbers : op' = [op EXCEPT !.at = c]
<1>1. op.at \in Numbers  BY DEF TypeInv, OpType, OpShape, NoWord
<1>2. Following(op.at) \in FatEntry  BY <1>1, FollowingType DEF TypeInv
<1>3. op' = end \/ (Following(op.at) # Eoc /\ op' = [op EXCEPT !.at = Following(op.at)])
    BY DEF WalkOn
<1>4. FatEntry \subseteq Numbers \cup {Eoc}  BY Numbering
<1>. QED  BY <1>2, <1>3, <1>4, LooksOnly DEF WalkOn

\* The command is over: no function of fat.c is active.
LEMMA IdleType ==
    ASSUME cwd' \in Numbers \cup {Astray}, op' = Idle
    PROVE  OpType' /\ OpInv'
<1>1. OpShape'  BY DEF Idle, OpShape
<1>2. /\ op'.pc = "idle" /\ op'.slot = 1 /\ op'.file = 0 /\ op'.new = 0
      /\ op'.name = NoWord /\ op'.word = NoWord
    BY DEF Idle, NoWord
<1>3. 1 \in Slots /\ 1 \in Nat \ {0} /\ 0 \in Numbers  BY Numbering
<1>4. OpType'  BY <1>1, <1>2, <1>3 DEF OpType, Numbers, Slots
<1>. QED  BY <1>2, <1>4 DEF OpInv

\* The first of some slots or clusters, as the loops of fat.c find it.
LEMMA MinIsIn ==
    ASSUME NEW S \in SUBSET Nat, S # {}
    PROVE  Min(S) \in S
    BY LeastElement DEF Min

\* The slots of a sector that the search for a name looks at.
LEMMA HitsAreSlots ==
    ASSUME TypeInv
    PROVE  Hits \subseteq Slots /\ Slots \subseteq Nat
<1>1. SlotsPerSector \in Nat  BY VolumeAssumption, Zenon
<1>2. op.slot \in Nat \ {0}  BY DEF TypeInv, OpType, OpShape, NoWord
<1>. QED  BY <1>1, <1>2 DEF Hits, Slots

\* The local variables that a step of a walk of fat.c changes.
LEMMA WalkType ==
    ASSUME TypeInv, op.pc # "idle", cwd' = cwd,
           \/ \E c \in Numbers :
                 \/ op.pc \in {"check", "open", "read", "chain", "list", "remove", "rename", "locate"}
                    /\ (op' = [op EXCEPT !.at = c] \/ op' = [op EXCEPT !.file = c])
                 \/ op.pc = "read" /\ op' = [op EXCEPT !.pc = "chain", !.file = c]
           \/ op.pc = "check" /\ op' = [op EXCEPT !.pc = "place", !.at = cwd]
    PROVE  OpType' /\ OpInv'
<1>1. OpType'
    <2>1. CASE \E c \in Numbers :
                  /\ op.pc \in {"check", "open", "read", "chain", "list", "remove", "rename", "locate"}
                  /\ (op' = [op EXCEPT !.at = c] \/ op' = [op EXCEPT !.file = c])
        <3>1. PICK c \in Numbers :
                  /\ op.pc \in {"check", "open", "read", "chain", "list", "remove", "rename", "locate"}
                  /\ (op' = [op EXCEPT !.at = c] \/ op' = [op EXCEPT !.file = c])
            BY <2>1
        <3>2. OpType /\ cwd' = cwd /\ op.pc \notin {"zero", "link"}  BY <3>1 DEF TypeInv
        <3>3. CASE op' = [op EXCEPT !.at = c]
            BY ONLY <3>2, <3>3, c \in Numbers DEF OpType, OpShape, NoWord
        <3>4. CASE op' = [op EXCEPT !.file = c]
            BY ONLY <3>2, <3>4, c \in Numbers DEF OpType, OpShape, NoWord
        <3>. QED  BY ONLY <3>1, <3>3, <3>4
    <2>2. CASE \E c \in Numbers : op.pc = "read" /\ op' = [op EXCEPT !.pc = "chain", !.file = c]
        BY <2>2 DEF TypeInv, OpType, OpShape, NoWord
    <2>3. CASE op.pc = "check" /\ op' = [op EXCEPT !.pc = "place", !.at = cwd]
        BY <2>3 DEF TypeInv, OpType, OpShape, NoWord
    <2>. QED  BY <2>1, <2>2, <2>3
<1>2. OpInv'  BY DEF TypeInv, OpType, OpShape, NoWord, OpInv
<1>. QED  BY <1>1, <1>2

\* Functions of fat.c that only read: the sectors stay, and the table does but
\* for what is seen of it.
LEMMA LookPreserves ==
    ASSUME IInv, CacheInv', UNCHANGED <<fat, disk>>, Intact(events') => Intact(events),
           cache' = cache \/ Looks(cache'), OpType', Intact(events') => OpInv'
    PROVE  IInv'
<1>1. Looks(cache')  BY DEF Looks
<1>2. TableInv' /\ (WholeInv => WholeInv')  BY <1>1, LookKeeps DEF IInv, TypeInv
<1>3. AreSectors(disk)'
    BY DEF IInv, TypeInv, AreSectors, IsSector, IsSlot, Slots, Slot, Astray, Nul
<1>. QED  BY <1>2, <1>3 DEF IInv, TypeInv

\* Walks along a directory and along a chain, which write nothing.
LEMMA WalkPreserves ==
    ASSUME IInv, CacheInv', Check \/ Open \/ Read \/ Chain \/ Dir
    PROVE  IInv'
<1>1. UNCHANGED <<fat, disk>> /\ op.pc \in {"check", "open", "read", "chain", "list"}
      /\ events \subseteq events'
    BY DEF Check, Open, Read, Chain, Dir
<1>2. op.at \in Numbers /\ cwd \in Numbers /\ op.file \in Numbers
    BY <1>1 DEF IInv, TypeInv, OpType, OpShape, NoWord
<1>3. \A i \in Slots : At[i].cl \in Numbers \cup {Astray}
                       /\ (At[i].name # "text" => At[i].cl \in Numbers)
    BY <1>2 DEF IInv, TypeInv, AreSectors, IsSector, IsSlot, At, Numbers
<1>4. Hits \subseteq Slots /\ Slots \subseteq Nat  BY HitsAreSlots DEF IInv
<1>5. /\ cache' = cache \/ Looks(cache')
      /\ \/ op' = Idle /\ cwd' \in Numbers \cup {Astray}
         \/ /\ cwd' = cwd
            /\ \/ \E c \in Numbers :
                     \/ op' = [op EXCEPT !.at = c] \/ op' = [op EXCEPT !.file = c]
                     \/ op.pc = "read" /\ op' = [op EXCEPT !.pc = "chain", !.file = c]
               \/ op.pc = "check" /\ op' = [op EXCEPT !.pc = "place", !.at = cwd]
    <2>1. ASSUME NEW end, WalkOn(end)
          PROVE  Looks(cache') /\ (op' = end \/ \E c \in Numbers : op' = [op EXCEPT !.at = c])
        BY <1>1, <2>1, WalkOnStep DEF IInv
    <2>2. CASE Check  BY <1>1, <1>2, <2>1, <2>2 DEF Check
    <2>3. CASE Open
        <3>1. CASE WalkOn(Idle) /\ UNCHANGED cwd  BY <1>2, <2>1, <3>1
        <3>2. ASSUME NEW dirs, dirs = {i \in Hits : At[i].attr = "dir"}, dirs # {},
                     cwd' = At[Min(dirs)].cl
              PROVE  cwd' \in Numbers \cup {Astray}
            BY <1>3, <1>4, <3>2, MinIsIn
        <3>. QED  BY <2>3, <3>1, <3>2, LooksOnly DEF Open
    <2>4. CASE Read
        <3>1. CASE WalkOn(Idle) /\ UNCHANGED cwd  BY <1>2, <2>1, <3>1
        <3>2. ASSUME Hits # {} PROVE At[Min(Hits)].cl \in Numbers
            <4>1. Min(Hits) \in Hits /\ Min(Hits) \in Slots  BY <1>4, <3>2, MinIsIn
            <4>2. "text" \notin Typed \cup {"", Blank, Nul}  BY Wording DEF Blank, Nul
            <4>3. At[Min(Hits)].name # "text"
                BY <4>1, <4>2 DEF Hits, Matches, IInv, TypeInv, OpType, OpShape, NoWord
            <4>. QED  BY <1>3, <4>1, <4>3
        <3>3. CASE Hits # {} /\ UNCHANGED <<cache, cwd>>
            BY <1>1, <1>2, <2>4, <3>2, <3>3 DEF Read
        <3>. QED  BY <2>4, <3>1, <3>3 DEF Read
    <2>5. CASE Chain
        <3>1. Following(op.file) \in Numbers \cup {Eoc}
            BY <1>2, FollowingType, Numbering DEF IInv, TypeInv
        <3>. QED  BY <1>2, <2>5, <3>1, LooksOnly DEF Chain
    <2>6. CASE Dir  BY <1>2, <2>1, <2>6 DEF Dir
    <2>. QED  BY <2>2, <2>3, <2>4, <2>5, <2>6
<1>6. OpType' /\ OpInv'  BY <1>1, <1>5, IdleType, WalkType DEF IInv
<1>. QED  BY <1>1, <1>5, <1>6, IntactBefore, LookPreserves

\* Functions of fat.c that write no table and leave no new entry.
LEMMA DiskPreserves ==
    ASSUME IInv, CacheInv', UNCHANGED fat, cache' = cache \/ Looks(cache'),
           Intact(events') => Intact(events),
           AreSectors(disk'), OpType',
           Intact(events') => Kept(disk, disk') /\ (WholeInv' => OpInv')
    PROVE  IInv'
<1>1. TableInv' /\ View' \in {View, fat}  BY LookKeeps DEF IInv, TypeInv, Looks
<1>2. AreSectors(disk)'  BY DEF AreSectors, IsSector, IsSlot, Slots, Slot, Astray, Nul
<1>3. ASSUME WholeInv, Kept(disk, disk') PROVE WholeInv'
    <2>1. Whole(fat, disk')  BY <1>3, KeptWhole DEF WholeInv
    <2>2. Joined(View', Heads(disk))  BY <1>1, <1>3 DEF WholeInv, Whole
    <2>3. Heads(disk') \subseteq Heads(disk)  BY <1>3, KeptWhole DEF WholeInv
    <2>4. Joined(View', Heads(disk'))  BY <2>2, <2>3 DEF Joined
    <2>5. Whole(fat, disk)' /\ Joined(View, Heads(disk))'
        BY <2>1, <2>4 DEF Whole, Joined, Heads, Named, Places, Slots, Clusters
    <2>. QED  BY <2>5 DEF WholeInv
<1>. QED  BY <1>1, <1>2, <1>3 DEF IInv, TypeInv

\* fat_extend_chain, fat_init_dir_cluster and fat_write_data write a sector that
\* holds no entry.
LEMMA SectorPreserves ==
    ASSUME IInv, CacheInv', Zero \/ Dots \/ Data
    PROVE  IInv'
<1>1. UNCHANGED <<fat, cache>> /\ events \subseteq events' /\ cwd' = cwd
    BY DEF Zero, Dots, Data
<1>2. op.pc \in {"zero", "dots", "data"} /\ op.at \in Numbers /\ op.file \in Numbers /\ op.new \in Numbers
    BY DEF IInv, TypeInv, OpType, OpShape, NoWord, Zero, Dots, Data
<1>3. \E c \in Numbers : \E s :
          /\ IsSector(s) /\ \A i \in Slots : s[i].name \notin Names \cup {Blank}
          /\ disk' = [disk EXCEPT ![c] = s]
    <2>1. CASE Zero  BY <1>2, <2>1, NewSectors DEF Zero
    <2>2. CASE Dots
        <3>1. disk' = [disk EXCEPT ![op.file] = DirSector(op.file, op.at)]
            BY <2>2 DEF Dots
        <3>. QED  BY <1>2, <3>1, NewSectors, Zenon
    <2>3. CASE Data
        <3>1. \E v, b, last : disk' = [disk EXCEPT ![op.file] = TextSector(v, b, last)]
            BY <2>3 DEF Data
        <3>. QED  BY <1>2, <3>1, NewSectors, Zenon
    <2>. QED  BY <2>1, <2>2, <2>3
<1>4. AreSectors(disk') /\ Kept(disk, disk')
    <2>1. PICK c \in Numbers :
              \E s : /\ IsSector(s) /\ \A i \in Slots : s[i].name \notin Names \cup {Blank}
                    /\ disk' = [disk EXCEPT ![c] = s]
        BY <1>3, Zenon
    <2>2. PICK s : /\ IsSector(s) /\ \A i \in Slots : s[i].name \notin Names \cup {Blank}
                   /\ disk' = [disk EXCEPT ![c] = s]
        BY <2>1, Zenon
    <2>3. AreSectors(disk)  BY DEF IInv, TypeInv
    <2>. DEFINE e == [disk EXCEPT ![c] = s]
    <2>4. AreSectors(e) /\ Kept(disk, e)  BY <2>2, <2>3, SectorWritten
    <2>5. disk' = e  BY <2>2
    <2>. HIDE DEF e
    <2>. QED  BY <2>4, <2>5
<1>5. op' = Idle \/ (op.pc = "zero" /\ op' = [op EXCEPT !.pc = "link"])
      \/ (op.pc = "data" /\ op' = [op EXCEPT !.pc = "mark", !.off = op.off + 1])
    BY DEF Zero, Dots, Data
<1>6. OpType'
    <2>1. CASE op' = Idle
        BY <1>1, <1>2, <2>1, IdleType DEF IInv, TypeInv, OpType, OpShape, NoWord
    <2>2. CASE op' # Idle
        BY <1>1, <1>5, <2>2 DEF IInv, TypeInv, OpType, OpShape, NoWord, Numbers, Clusters, Slots
    <2>. QED  BY <2>1, <2>2
<1>7. ASSUME WholeInv', Intact(events') PROVE OpInv'
    <2>1. Intact(events)  BY <1>1, <1>7, IntactBefore
    <2>2. CASE op' = Idle  BY <2>2 DEF Idle, OpInv
    <2>3. CASE op.pc = "data" /\ op' = [op EXCEPT !.pc = "mark", !.off = op.off + 1]
        BY <2>3 DEF IInv, TypeInv, OpType, OpShape, NoWord, OpInv
    <2>4. CASE op.pc = "zero" /\ op' = [op EXCEPT !.pc = "link"]
        <3>1. op'.pc = "link" /\ op'.new = op.new /\ Fresh(op.new)
            BY <2>1, <2>4 DEF IInv, TypeInv, OpType, OpShape, NoWord, OpInv
        <3>2. Heads(disk') \subseteq Heads(disk)
            BY <1>4, <2>1, KeptWhole DEF IInv, WholeInv
        <3>3. View' = View  BY <1>1 DEF View, Seen, Numbers
        <3>4. Fresh(op.new)'
            BY <1>1, <3>1, <3>2, <3>3 DEF Fresh, Heads, Named, Places, Slots, Clusters, Numbers
        <3>. QED  BY <3>1, <3>4 DEF OpInv
    <2>. QED  BY <1>5, <2>2, <2>3, <2>4
<1>. QED  BY <1>1, <1>4, <1>6, <1>7, IntactBefore, DiskPreserves

\* fat.c writes a slot of a sector, or one field of it.
LEMMA SlotExcept ==
    ASSUME AreSectors(disk), NEW c \in Numbers, NEW i \in Slots, NEW w
    PROVE  /\ Written(disk, [disk EXCEPT ![c][i] = w], c, i, w)
           /\ Written(disk, [disk EXCEPT ![c][i].name = w], c, i,
                      Slot(w, disk[c][i].attr, disk[c][i].cl, disk[c][i].size))
           /\ Written(disk, [disk EXCEPT ![c][i].size = w], c, i,
                      Slot(disk[c][i].name, disk[c][i].attr, disk[c][i].cl, w))
<1>1. /\ disk[c][i] = Slot(disk[c][i].name, disk[c][i].attr, disk[c][i].cl, disk[c][i].size)
      /\ disk = [x \in Numbers |-> disk[x]] /\ disk[c] = [j \in Slots |-> disk[c][j]]
    BY DEF AreSectors, IsSector, IsSlot, Numbers
<1>2. /\ [disk[c][i] EXCEPT !.name = w] = Slot(w, disk[c][i].attr, disk[c][i].cl, disk[c][i].size)
      /\ [disk[c][i] EXCEPT !.size = w] = Slot(disk[c][i].name, disk[c][i].attr, disk[c][i].cl, w)
    BY <1>1 DEF Slot
<1>3. ASSUME NEW s
      PROVE  Written(disk, [disk EXCEPT ![c] = [disk[c] EXCEPT ![i] = s]], c, i, s)
    BY <1>1 DEF Written
<1>4. /\ [disk EXCEPT ![c][i] = w] = [disk EXCEPT ![c] = [disk[c] EXCEPT ![i] = w]]
      /\ [disk EXCEPT ![c][i].name = w] =
            [disk EXCEPT ![c] = [disk[c] EXCEPT ![i] = [disk[c][i] EXCEPT !.name = w]]]
      /\ [disk EXCEPT ![c][i].size = w] =
            [disk EXCEPT ![c] = [disk[c] EXCEPT ![i] = [disk[c][i] EXCEPT !.size = w]]]
    BY <1>1
<1>. QED  BY <1>2, <1>3, <1>4

\* What a search for a name finds is an entry, or a slot never used when the word
\* is empty.
LEMMA HitIsSlot ==
    ASSUME IInv, op.pc # "idle", Hits # {}
    PROVE  /\ Min(Hits) \in Hits /\ Min(Hits) \in Slots /\ op.at \in Numbers
           /\ At[Min(Hits)].cl \in Numbers /\ IsSlot(At[Min(Hits)])
           /\ op.name \in Typed \/ (op.name = "" /\ op.pc \in {"list", "rename"})
           /\ At[Min(Hits)].name \in Names \cup {Dot, DotDot, Blank, Nul}
           /\ op.name \in Typed => op.name \in Names \cup {Dot, DotDot}
           /\ op.name # "" => At[Min(Hits)].name = op.name
           /\ At[Min(Hits)].name = Nul => op.name = "" /\ At[Min(Hits)].cl = 0
<1>1. Typed \cap {Nul, Deleted, Blank, Letter, Slash, "text", ""} = {}  BY Wording
<1>2. /\ op.at \in Numbers /\ op.name \in Typed \cup {""}
      /\ op.pc \notin {"idle", "list", "rename"} => op.name # ""
    BY DEF IInv, TypeInv, OpType, OpShape, NoWord
<1>3. Hits \subseteq Slots /\ Slots \subseteq Nat  BY HitsAreSlots DEF IInv
<1>4. Min(Hits) \in Hits /\ Min(Hits) \in Slots  BY <1>3, MinIsIn
<1>5. IsSlot(At[Min(Hits)])
    BY <1>2, <1>4 DEF IInv, TypeInv, AreSectors, IsSector, At, Numbers
<1>6. /\ At[Min(Hits)].name \in Names \cup {Dot, DotDot, Blank, Nul}
      /\ op.name \in Typed => op.name \in Names \cup {Dot, DotDot}
      /\ op.name # "" => At[Min(Hits)].name = op.name
      /\ At[Min(Hits)].name = Nul => op.name = ""
    <2>1. Matches(Min(Hits), op.name)  BY <1>4 DEF Hits
    <2>2. Nul \notin Typed /\ "" \notin Typed  BY <1>1, Zenon
    <2>3. Nul # Blank /\ Nul # ""  BY DEF Nul, Blank
    <2>4. At[Min(Hits)].name # ""  BY <1>5 DEF IsSlot
    <2>5. Typed = Names \cup LongNames \cup {Dot, DotDot}  BY DEF Typed
    <2>. QED  BY <1>2, <2>1, <2>2, <2>3, <2>4, <2>5 DEF Matches
<1>7. "text" \notin Names \cup {Dot, DotDot, Blank, Nul}
    BY <1>1, Wording DEF Blank, Nul, Dot, DotDot
<1>8. At[Min(Hits)].cl \in Numbers /\ (At[Min(Hits)].name = Nul => At[Min(Hits)].cl = 0)
    BY <1>5, <1>6, <1>7 DEF IsSlot, Numbers
<1>. QED  BY <1>2, <1>4, <1>5, <1>6, <1>8

\* The name or the size in a slot is written.
Renamed(d, e, c, i, w) == e = [d EXCEPT ![c][i].name = w]
Resized(d, e, c, i, z) == e = [d EXCEPT ![c][i].size = z]

\* The size in a slot is written (fat_write_data).
LEMMA SizeWritten ==
    ASSUME AreSectors(disk), NEW c \in Numbers, NEW i \in Slots, disk[c][i].cl \in Numbers, NEW z,
           NEW e, Resized(disk, e, c, i, z)
    PROVE  AreSectors(e) /\ Kept(disk, e)
<1>. DEFINE r == disk[c][i]
            s == Slot(r.name, r.attr, r.cl, z)
<1>1. IsSlot(s)
    <2>1. IsSlot(r)  BY DEF AreSectors, IsSector, Numbers
    <2>2. Storable(r.name) /\ (r.name = Nul => r.cl = 0)  BY <2>1 DEF IsSlot, Storable
    <2>. QED  BY <2>2, SlotIsSlot, Zenon
<1>2. Written(disk, e, c, i, s)  BY SlotExcept DEF Resized
<1>3. s.name = disk[c][i].name /\ s.cl = disk[c][i].cl  BY DEF Slot
<1>. HIDE DEF r, s
<1>. QED  BY <1>1, <1>2, <1>3, SlotWritten

\* The name in a slot is written (fat_delete_file, fat_rename_file).
LEMMA NameWritten ==
    ASSUME AreSectors(disk), NEW c \in Numbers, NEW i \in Slots, disk[c][i].cl \in Numbers,
           NEW w, w # Nul, Storable(w), NEW e, Renamed(disk, e, c, i, w)
    PROVE  /\ AreSectors(e) /\ e[c][i].name = w
           /\ \/ w \notin Names \cup {Blank}
              \/ disk[c][i].name \in Names \cup {Blank}
              => Kept(disk, e)
<1>. DEFINE r == disk[c][i]
            s == Slot(w, r.attr, r.cl, r.size)
<1>1. IsSlot(s)  BY SlotIsSlot, Zenon
<1>2. Written(disk, e, c, i, s)  BY SlotExcept DEF Renamed
<1>3. s.name = w /\ s.cl = disk[c][i].cl  BY DEF Slot
<1>. HIDE DEF r, s
<1>. QED  BY <1>1, <1>2, <1>3, SlotWritten

\* fat_write_data writes the size into the entry it finds.
LEMMA LocatePreserves ==
    ASSUME IInv, CacheInv', Locate
    PROVE  IInv'
<1>1. UNCHANGED <<fat, cwd>> /\ op.pc = "locate" /\ (Intact(events') => Intact(events))
    BY IntactBefore DEF Locate
<1>2. CASE Hits # {}
    <2>1. /\ Resized(disk, disk', op.at, Min(Hits), op.text.len) /\ cache' = cache
          /\ op' = [op EXCEPT !.pc = "data", !.file = At[Min(Hits)].cl,
                              !.slot = Min(Hits), !.found = TRUE]
        BY <1>2 DEF Locate, Resized
    <2>2. op.at \in Numbers /\ Min(Hits) \in Slots /\ At[Min(Hits)].cl \in Numbers
        BY <1>1, <1>2, HitIsSlot
    <2>3. AreSectors(disk') /\ Kept(disk, disk')
        <3>1. disk[op.at][Min(Hits)].cl \in Numbers  BY <2>2 DEF At
        <3>. QED  BY <2>1, <2>2, <3>1, SizeWritten DEF IInv, TypeInv
    <2>4. OpType' /\ OpInv'
        <3>1. PICK f \in Numbers, i \in Slots :
                  op' = [op EXCEPT !.pc = "data", !.file = f, !.slot = i, !.found = TRUE]
            BY <2>1, <2>2, Zenon
        <3>2. op' = [pc |-> "data", cmd |-> op.cmd, name |-> op.name, word |-> op.word, at |-> op.at,
                     slot |-> i, found |-> TRUE, file |-> f, new |-> op.new, off |-> op.off, text |-> op.text]
            BY <3>1 DEF IInv, TypeInv, OpType, OpShape, NoWord
        <3>3. op'.pc = "data" /\ op'.name = op.name /\ op'.word = op.word /\ op'.at = op.at
              /\ op'.slot = i /\ op'.file = f /\ op'.new = op.new
            BY <3>2
        <3>4. OpShape'  BY <3>2 DEF OpShape
        <3>. QED
            BY <1>1, <3>3, <3>4 DEF IInv, TypeInv, OpType, OpInv, Numbers, Clusters, Slots
    <2>. QED  BY <1>1, <2>1, <2>3, <2>4, DiskPreserves
<1>3. CASE Hits = {}
    <2>1. WalkOn([op EXCEPT !.pc = "data"]) /\ disk' = disk  BY <1>3 DEF Locate
    <2>2. Looks(cache') /\ (\/ op' = [op EXCEPT !.pc = "data"]
                            \/ \E c \in Numbers : op' = [op EXCEPT !.at = c])
        BY <1>1, <2>1, WalkOnStep DEF IInv
    <2>3. OpType' /\ OpInv'
        BY <1>1, <2>2 DEF IInv, TypeInv, OpType, OpShape, NoWord, OpInv, Numbers, Clusters, Slots
    <2>. QED  BY <1>1, <2>1, <2>2, <2>3, LookPreserves
<1>. QED  BY <1>2, <1>3

\* mv gives an entry another name. A slot never used has no cluster.
LEMMA RenamePreserves ==
    ASSUME IInv, CacheInv', Rename
    PROVE  IInv'
<1>1. UNCHANGED <<fat, cwd>> /\ op.pc = "rename" /\ (Intact(events') => Intact(events)) /\ cwd \in Numbers
    BY IntactBefore DEF Rename, IInv, TypeInv, OpType, OpShape, NoWord
<1>2. CASE Hits # {}
    <2>1. /\ Renamed(disk, disk', op.at, Min(Hits), IF op.word = "" THEN Blank ELSE Stored(op.word))
          /\ cache' = cache /\ op' = Idle
          /\ At[Min(Hits)].cl = 0 => "zero" \in events'
          /\ op.name \in {Dot, DotDot} => "dotted" \in events'
        BY <1>2 DEF Rename, Renamed, Dotted
    <2>2. /\ op.at \in Numbers /\ Min(Hits) \in Slots /\ At[Min(Hits)].cl \in Numbers
          /\ Intact(events') => At[Min(Hits)].name \in Names \cup {Blank}
        <3>1. /\ op.at \in Numbers /\ Min(Hits) \in Slots /\ At[Min(Hits)].cl \in Numbers
              /\ At[Min(Hits)].name \in Names \cup {Dot, DotDot, Blank, Nul}
              /\ op.name \in Typed \cup {""} /\ (op.name \in Typed => op.name \in Names \cup {Dot, DotDot})
              /\ op.name # "" => At[Min(Hits)].name = op.name
              /\ At[Min(Hits)].name = Nul => At[Min(Hits)].cl = 0
            BY <1>1, <1>2, HitIsSlot
        <3>2. Intact(events') => op.name \notin {Dot, DotDot} /\ At[Min(Hits)].cl # 0
            BY <2>1 DEF Intact
        <3>3. op.name = "" => At[Min(Hits)].name \in {Blank, Nul}
            <4>1. Min(Hits) \in Hits  BY <1>1, <1>2, HitIsSlot
            <4>2. Matches(Min(Hits), op.name)  BY <4>1 DEF Hits
            <4>3. At[Min(Hits)].name # ""  BY <1>1, <1>2, HitIsSlot DEF IsSlot
            <4>. QED  BY <4>2, <4>3 DEF Matches
        <3>. QED  BY <3>1, <3>2, <3>3
    <2>3. LET w == IF op.word = "" THEN Blank ELSE Stored(op.word) IN w # Nul /\ Storable(w)
        <3>1. op.word \in Typed \cup {""}  BY DEF IInv, TypeInv, OpType, OpShape, NoWord
        <3>2. op.word \in Typed => Stored(op.word) \in Typed  BY Wording
        <3>3. Nul \notin Typed /\ "" \notin Typed  BY Wording
        <3>. QED  BY <3>1, <3>2, <3>3 DEF Nul, Blank, Storable
    <2>4. /\ AreSectors(disk')
          /\ At[Min(Hits)].name \in Names \cup {Blank} => Kept(disk, disk')
        BY <2>1, <2>2, <2>3, NameWritten DEF At, IInv, TypeInv
    <2>5. OpType' /\ OpInv'  BY <1>1, <2>1, IdleType
    <2>. QED  BY <1>1, <2>1, <2>2, <2>4, <2>5, DiskPreserves
<1>3. CASE Hits = {}
    <2>1. WalkOn(Idle) /\ UNCHANGED <<disk, events>>  BY <1>3 DEF Rename
    <2>2. Looks(cache') /\ (op' = Idle \/ \E c \in Numbers : op' = [op EXCEPT !.at = c])
        BY <1>1, <2>1, WalkOnStep DEF IInv
    <2>3. OpType' /\ OpInv'  BY <1>1, <2>2, IdleType, WalkType DEF IInv
    <2>. QED  BY <1>1, <2>1, <2>2, <2>3, LookPreserves
<1>. QED  BY <1>2, <1>3

\* fat_delete_file takes an entry away, and then its chain: nothing leads there.
LEMMA UnlinkPreserves ==
    ASSUME IInv, CacheInv', Unlink
    PROVE  IInv'
<1>1. UNCHANGED <<fat, cwd>> /\ op.pc = "remove" /\ (Intact(events') => Intact(events)) /\ cwd \in Numbers
    BY IntactBefore DEF Unlink, IInv, TypeInv, OpType
<1>2. CASE Hits # {}
    <2>1. PICK i, f :
             /\ i = Min(Hits) /\ f = At[i].cl
             /\ Renamed(disk, disk', op.at, i, Deleted) /\ cache' = cache
             /\ op' = [op EXCEPT !.pc = "free", !.file = f, !.slot = i + 1, !.found = TRUE]
             /\ op.name \in {Dot, DotDot} => "dotted" \in events'
        BY <1>2 DEF Unlink, Renamed, Dotted
    <2>2. /\ op.at \in Numbers /\ i \in Slots /\ f \in Numbers
          /\ Intact(events') => At[i].name \in Names
        <3>1. /\ op.at \in Numbers /\ i \in Slots /\ f \in Numbers
              /\ op.name \in Typed \/ op.pc \in {"list", "rename"}
              /\ op.name \in Typed => op.name \in Names \cup {Dot, DotDot}
              /\ op.name # "" => At[i].name = op.name
            BY <1>1, <1>2, <2>1, HitIsSlot
        <3>2. "" \notin Typed  BY Wording
        <3>3. Intact(events') => op.name \notin {Dot, DotDot}  BY <2>1 DEF Intact
        <3>. QED  BY <1>1, <3>1, <3>2, <3>3
    <2>3. /\ AreSectors(disk') /\ disk'[op.at][i].name = Deleted /\ Kept(disk, disk')
          /\ Deleted \notin Names \cup {Blank}
        <3>1. Names \cap {Nul, Deleted, Blank, Dot, DotDot, Letter, Slash, "text"} = {}
            BY Wording
        <3>2. Deleted \notin Names \cup {Blank} /\ Deleted # Nul /\ Storable(Deleted)
            BY <3>1 DEF Deleted, Blank, Nul, Storable
        <3>3. disk[op.at][i].cl \in Numbers  BY <2>1, <2>2 DEF At
        <3>. QED  BY <2>1, <2>2, <3>2, <3>3, NameWritten DEF IInv, TypeInv
    <2>4. OpType' /\ op'.pc = "free" /\ op'.file = f
        <3>1. PICK j \in Nat \ {0} :
                  op' = [op EXCEPT !.pc = "free", !.file = f, !.slot = j, !.found = TRUE]
            <4>1. i + 1 \in Nat \ {0}  BY <2>2, Numbering
            <4>. QED  BY <2>1, <4>1, Zenon
        <3>2. op' = [pc |-> "free", cmd |-> op.cmd, name |-> op.name, word |-> op.word, at |-> op.at,
                     slot |-> j, found |-> TRUE, file |-> f, new |-> op.new, off |-> op.off, text |-> op.text]
            BY <3>1 DEF IInv, TypeInv, OpType, OpShape
        <3>3. op'.pc = "free" /\ op'.name = op.name /\ op'.word = op.word /\ op'.at = op.at
              /\ op'.slot = j /\ op'.file = f /\ op'.new = op.new
            BY <3>2
        <3>4. OpShape'  BY <3>2 DEF OpShape
        <3>. QED
            BY <1>1, <2>2, <3>3, <3>4 DEF IInv, TypeInv, OpType, Numbers, Clusters, Slots
    <2>5. ASSUME Intact(events') PROVE OpInv'
        <3>1. Whole(fat, disk)  BY <1>1, <2>5 DEF IInv, WholeInv
        <3>2. <<op.at, i>> \in Named(disk) /\ disk[op.at][i].cl = f
            BY <2>1, <2>2, <2>5 DEF Named, Places, Numbers, At
        <3>3. /\ f \in Heads(disk) /\ f # Root
              /\ \A q \in Named(disk) : disk[q[1]][q[2]].cl = f => q = <<op.at, i>>
            BY <3>1, <3>2 DEF Whole, Heads
        <3>4. f \in Clusters /\ fat[f] # 0 /\ \A x \in Numbers : fat[x] # f
            BY <3>1, <3>3 DEF Whole, Joined, IInv, TypeInv, TableInv
        <3>5. f \notin Heads(disk')
            <4>1. ASSUME NEW q \in Named(disk'), disk'[q[1]][q[2]].cl = f PROVE FALSE
                <5>1. q = <<op.at, i>> /\ disk'[q[1]][q[2]].name \in Names \cup {Blank}
                    BY <2>3, <3>3, <4>1 DEF Kept, Named
                <5>2. q[1] = op.at /\ q[2] = i  BY <5>1
                <5>. QED  BY <2>3, <5>1, <5>2
            <4>. QED  BY <3>3, <4>1 DEF Heads
        <3>6. Doomed(f)'
            BY <1>1, <3>4, <3>5 DEF Doomed, Heads, Named, Places, Slots, Clusters, Numbers
        <3>. QED  BY <2>4, <3>6 DEF OpInv
    <2>. QED  BY <1>1, <2>1, <2>3, <2>4, <2>5, DiskPreserves
<1>3. CASE Hits = {} /\ ~op.found
    <2>1. WalkOn(Idle) /\ UNCHANGED disk  BY <1>3 DEF Unlink
    <2>2. Looks(cache') /\ (op' = Idle \/ \E c \in Numbers : op' = [op EXCEPT !.at = c])
        BY <1>1, <2>1, WalkOnStep DEF IInv
    <2>3. OpType' /\ OpInv'  BY <1>1, <2>2, IdleType, WalkType DEF IInv
    <2>. QED  BY <1>1, <2>1, <2>2, <2>3, LookPreserves
<1>4. CASE Hits = {} /\ op.found
    <2>1. op' = Idle /\ UNCHANGED <<cache, disk>>  BY <1>4 DEF Unlink
    <2>2. OpType' /\ OpInv'  BY <1>1, <2>1, IdleType
    <2>. QED  BY <1>1, <2>1, <2>2, LookPreserves
<1>. QED  BY <1>2, <1>3, <1>4 DEF Unlink

\* An entry for a cluster nothing leads to keeps the volume whole
\* (fat_write_file).
LEMMA EntryWhole ==
    ASSUME NEW t, NEW d, AreSectors(d), Whole(t, d), NEW c \in Numbers, NEW i \in Slots,
           NEW s, IsSlot(s), NEW e, Written(d, e, c, i, s),
           s.cl \in Clusters, t[s.cl] # 0, s.cl \notin Heads(d), \A x \in DOMAIN t : t[x] # s.cl
    PROVE  Whole(t, e) /\ Heads(e) \subseteq Heads(d) \cup {s.cl}
<1>1. /\ e[c][i] = s
      /\ \A p \in Places : p # <<c, i>> => e[p[1]][p[2]] = d[p[1]][p[2]]
    BY SlotWritten
<1>2. ASSUME NEW p \in Named(e)
      PROVE  \/ p = <<c, i>> /\ e[p[1]][p[2]].cl = s.cl
             \/ p # <<c, i>> /\ p \in Named(d) /\ e[p[1]][p[2]].cl = d[p[1]][p[2]].cl
    <2>1. p = <<c, i>> => p[1] = c /\ p[2] = i  OBVIOUS
    <2>. QED  BY <1>1, <2>1 DEF Named
<1>3. Heads(e) \subseteq Heads(d) \cup {s.cl}  BY <1>2 DEF Heads
<1>4. \A p \in Named(d) : d[p[1]][p[2]].cl # s.cl  BY DEF Heads
<1>5. Root # s.cl  BY DEF Heads
<1>6. \A p, q \in Named(e) :
          e[p[1]][p[2]].cl # Root /\ (e[p[1]][p[2]].cl = e[q[1]][q[2]].cl => p = q)
    BY <1>2, <1>4, <1>5 DEF Whole
<1>7. Joined(t, Heads(e)) /\ \A h \in Heads(e) : h \in Clusters /\ t[h] # 0
    BY <1>3 DEF Whole, Joined
<1>. QED  BY <1>3, <1>6, <1>7 DEF Whole

\* fat_write_file and fat_create_dir write the entry.
LEMMA EntryPreserves ==
    ASSUME IInv, CacheInv', Entry
    PROVE  IInv'
<1>. DEFINE attr == IF op.cmd = "mkdir" THEN "dir" ELSE "file"
            s == Slot(Stored(op.name), attr, op.file, 0)
<1>1. /\ UNCHANGED <<fat, cache, cwd>> /\ op.pc = "entry" /\ cwd \in Numbers
      /\ op.at \in Numbers /\ op.slot \in Slots /\ op.file \in Numbers /\ op.name \in Typed
    BY DEF Entry, IInv, TypeInv, OpType
<1>2. /\ disk' = [disk EXCEPT ![op.at][op.slot] = s]
      /\ op' = Idle \/ op' = [op EXCEPT !.pc = "dots"]
      /\ events \subseteq events' /\ (op.file = 0 => "zero" \in events')
    BY DEF Entry
<1>3. IsSlot(s) /\ s.cl = op.file
    <2>1. Stored(op.name) \in Typed /\ Nul \notin Typed /\ "" \notin Typed
        BY <1>1, Wording
    <2>2. Stored(op.name) # Nul /\ Storable(Stored(op.name))  BY <2>1 DEF Storable
    <2>3. IsSlot(s)  BY <1>1, <2>2, SlotIsSlot, Zenon
    <2>. QED  BY <2>3 DEF Slot
<1>. HIDE DEF s
<1>4. Written(disk, disk', op.at, op.slot, s)
    BY <1>1, <1>2, SlotExcept DEF IInv, TypeInv
<1>5. AreSectors(disk')  BY <1>1, <1>3, <1>4, SlotWritten DEF IInv, TypeInv
<1>6. AreSectors(disk)'
    BY <1>5 DEF AreSectors, IsSector, IsSlot, Slots, Slot, Astray, Nul
<1>7. TableInv' /\ View' = View
    BY <1>1 DEF View, Seen, Numbers, IInv, TypeInv, TableInv, FatEntry, Clusters, Eoc
<1>8. OpType' /\ OpInv'
    <2>1. CASE op' = Idle  BY <1>1, <2>1, IdleType
    <2>2. CASE op' = [op EXCEPT !.pc = "dots"]
        BY <1>1, <2>2 DEF IInv, TypeInv, OpType, OpShape, OpInv, Numbers, Clusters, Slots
    <2>. QED  BY <1>2, <2>1, <2>2
<1>9. ASSUME Intact(events') PROVE WholeInv'
    <2>1. WholeInv /\ Fresh(op.file)
        <3>1. Intact(events) /\ op.file # 0  BY <1>2, <1>9, IntactBefore DEF Intact
        <3>. QED  BY <1>1, <3>1 DEF IInv, OpInv
    <2>2. op.file \in Clusters /\ fat[op.file] # 0 /\ op.file \notin Heads(disk)
          /\ \A x \in Numbers : View[x] # op.file
        BY <2>1 DEF Fresh
    <2>3. \A x \in DOMAIN fat : fat[x] # op.file
        <3>1. \A x \in Numbers : fat[x] # 0 => View[x] = fat[x]
            BY SeenAgrees DEF View, Looks, IInv
        <3>2. op.file # 0 /\ DOMAIN fat = Numbers
            BY <2>2, Numbering DEF IInv, TypeInv, TableInv
        <3>. QED  BY <2>2, <3>1, <3>2
    <2>4. Whole(fat, disk') /\ Heads(disk') \subseteq Heads(disk) \cup {op.file}
        BY <1>1, <1>3, <1>4, <2>1, <2>2, <2>3, EntryWhole DEF IInv, TypeInv, WholeInv
    <2>5. DOMAIN View = Numbers  BY DEF View, Seen
    <2>6. Joined(View, Heads(disk'))  BY <2>1, <2>2, <2>4, <2>5 DEF WholeInv, Joined
    <2>7. Whole(fat, disk)' /\ Joined(View, Heads(disk))'
        BY <1>1, <1>7, <2>4, <2>6 DEF Whole, Joined, Heads, Named, Places, Slots, Clusters
    <2>. QED  BY <2>7 DEF WholeInv
<1>. QED  BY <1>6, <1>7, <1>8, <1>9 DEF IInv, TypeInv

\* fat_alloc_cluster takes the first cluster it sees as free.
LEMMA TakeWhole ==
    ASSUME IInv, NEW c, FreeSeen # {}, c = Min(FreeSeen), Take(c)
    PROVE  /\ c \in Clusters /\ fat' \in [Numbers -> FatEntry] /\ View' = fat'
           /\ WholeInv => /\ Whole(fat', disk)
                          /\ fat'[c] # 0 /\ c \notin Heads(disk) /\ \A x \in Numbers : fat'[x] # c
<1>. DEFINE ch == Scanned(FatSector(c))
            t == Seen(ch)
<1>1. c \in FreeSeen /\ c \in Clusters
    <2>1. FreeSeen \subseteq Clusters /\ Clusters \subseteq Nat
        BY Numbering DEF FreeSeen, Clusters
    <2>. QED  BY <2>1, MinIsIn
<1>2. ch.buf[c] = 0 /\ c \in DOMAIN ch.buf
    <2>1. Shows(ch, fat) /\ ch.nr = FatSector(c)  BY LookShows DEF Scanned, Sector, IInv
    <2>2. c \in Numbers  BY <1>1, Numbering
    <2>. QED  BY <1>1, <2>1, <2>2 DEF FreeSeen, Shows, EntriesOf, Numbers
<1>3. Looks(ch)  BY LooksOnly
<1>4. t \in {View, fat} /\ \A x \in Numbers : fat[x] # 0 => t[x] = fat[x]
    BY <1>3, SeenLooks, SeenAgrees DEF IInv, TypeInv
<1>5. t[c] = 0  BY <1>1, <1>2, Numbering DEF Seen
<1>6. fat' = [t EXCEPT ![c] = Eoc] /\ View' = fat'
    BY <1>2, <1>3, FlushSeen DEF IInv, TypeInv, Take
<1>7. t \in [Numbers -> FatEntry]  BY <1>4 DEF IInv, TypeInv, TableInv
<1>. HIDE DEF t, ch
<1>8. fat' \in [Numbers -> FatEntry]
    <2>1. Eoc \in FatEntry  BY DEF FatEntry
    <2>. QED  BY <1>6, <1>7, <2>1
<1>9. ASSUME WholeInv
      PROVE  /\ Whole(fat', disk)
             /\ fat'[c] # 0 /\ c \notin Heads(disk) /\ \A x \in Numbers : fat'[x] # c
    <2>1. Joined(t, Heads(disk)) /\ Heads(disk) \in SUBSET Clusters
        BY <1>4, <1>9, HeadsType DEF WholeInv, Whole
    <2>2. Joined(fat', Heads(disk)) /\ \A x \in Numbers : fat'[x] # c
        BY <1>1, <1>5, <1>6, <1>7, <2>1, JoinedTake
    <2>3. \A h \in Heads(disk) : h \in Numbers /\ fat[h] # 0 /\ t[h] # 0 /\ h # c
        BY <1>4, <1>5, <1>9, <2>1, Numbering DEF WholeInv, Whole
    <2>4. fat'[c] = Eoc /\ \A x \in Numbers : x # c => fat'[x] = t[x]
        BY <1>1, <1>6, <1>7, Numbering
    <2>5. Eoc # 0  BY Numbering
    <2>6. \A h \in Heads(disk) : h \in Clusters /\ fat'[h] # 0  BY <2>1, <2>3, <2>4
    <2>. QED  BY <1>9, <2>2, <2>3, <2>4, <2>5, <2>6 DEF WholeInv, Whole
<1>. QED  BY <1>1, <1>6, <1>8, <1>9

\* Functions of fat.c that write the table and leave the sectors.
LEMMA TablePreserves ==
    ASSUME IInv, CacheInv', UNCHANGED <<disk, events>>, fat' \in [Numbers -> FatEntry],
           View' \in [Numbers -> FatEntry], OpType',
           Intact(events) => /\ Whole(fat', disk) /\ Joined(View', Heads(disk)) /\ OpInv'
    PROVE  IInv'
<1>1. AreSectors(disk)'
    <2>1. AreSectors(disk) /\ disk' = disk  BY DEF IInv, TypeInv
    <2>. QED  BY ONLY <2>1 DEF AreSectors, IsSector, IsSlot, Slots, Slot, Astray, Nul
<1>2. TableInv'  BY DEF TableInv, Numbers, FatEntry, Clusters, Eoc
<1>3. Whole(fat', disk) /\ Joined(View', Heads(disk)) => WholeInv'
    <2>1. disk' = disk  OBVIOUS
    <2>. QED
        BY ONLY <2>1 DEF WholeInv, Whole, Joined, Heads, Named, Places, Slots, Clusters
<1>4. Intact(events') => WholeInv' /\ OpInv'  BY <1>3, Zenon
<1>. QED  BY <1>1, <1>2, <1>4, Zenon DEF IInv, TypeInv

\* fat_write_file and fat_create_dir take a slot and a cluster, or go on to the
\* next cluster of the directory, or need another one.
LEMMA PlacePreserves ==
    ASSUME IInv, CacheInv', Place
    PROVE  IInv'
<1>1. /\ UNCHANGED <<disk, events, cwd>> /\ op.pc = "place" /\ cwd \in Numbers
      /\ op.at \in Numbers /\ op.new \in Numbers
    BY DEF Place, IInv, TypeInv, OpType
<1>. DEFINE entry(c) == [op EXCEPT !.pc = "entry", !.slot = Min(OpenSlots), !.file = c]
<1>2. \/ OpenSlots # {} /\ FreeSeen # {} /\ Take(Min(FreeSeen)) /\ op' = entry(Min(FreeSeen))
      \/ OpenSlots # {} /\ FindNone /\ op' = entry(0)
      \/ UNCHANGED fat /\ WalkOn([op EXCEPT !.pc = "mark", !.file = op.at])
    BY DEF Place
<1>3. OpenSlots # {} => Min(OpenSlots) \in Slots
    <2>1. OpenSlots \subseteq Slots /\ Slots \subseteq Nat  BY Numbering DEF OpenSlots
    <2>. QED  BY <2>1, MinIsIn
<1>4. ASSUME NEW c \in Numbers, OpenSlots # {}, op' = entry(c)
      PROVE  OpType' /\ op'.pc = "entry" /\ op'.file = c
    <2>1. PICK i \in Slots : op' = [op EXCEPT !.pc = "entry", !.slot = i, !.file = c]
        BY <1>3, <1>4, Zenon
    <2>2. op' = [pc |-> "entry", cmd |-> op.cmd, name |-> op.name, word |-> op.word, at |-> op.at,
                 slot |-> i, found |-> op.found, file |-> c, new |-> op.new, off |-> op.off,
                 text |-> op.text]
        BY <2>1 DEF IInv, TypeInv, OpType, OpShape
    <2>3. op'.pc = "entry" /\ op'.name = op.name /\ op'.word = op.word /\ op'.at = op.at
          /\ op'.slot = i /\ op'.file = c /\ op'.new = op.new
        BY <2>2
    <2>4. OpShape'  BY <2>2 DEF OpShape
    <2>. QED  BY <1>1, <2>3, <2>4 DEF IInv, TypeInv, OpType, Numbers, Clusters, Slots
<1>. HIDE DEF entry
<1>5. CASE OpenSlots # {} /\ FreeSeen # {} /\ Take(Min(FreeSeen)) /\ op' = entry(Min(FreeSeen))
    <2>1. PICK c : c = Min(FreeSeen) /\ Take(c) /\ op' = entry(c)  BY <1>5
    <2>2. /\ c \in Clusters /\ fat' \in [Numbers -> FatEntry] /\ View' = fat'
          /\ WholeInv => /\ Whole(fat', disk)
                         /\ fat'[c] # 0 /\ c \notin Heads(disk) /\ \A x \in Numbers : fat'[x] # c
        BY <1>5, <2>1, TakeWhole
    <2>3. OpType' /\ op'.pc = "entry" /\ op'.file = c
        BY <1>4, <1>5, <2>1, <2>2, Numbering
    <2>4. ASSUME WholeInv PROVE OpInv'
        <3>1. Fresh(c)'
            BY <1>1, <2>2, <2>4 DEF Fresh, Heads, Named, Places, Slots, Clusters, Numbers
        <3>. QED  BY <2>3, <3>1 DEF OpInv
    <2>. QED  BY <1>1, <2>2, <2>3, <2>4, TablePreserves DEF IInv, Whole
<1>6. CASE OpenSlots # {} /\ FindNone /\ op' = entry(0)
    <2>1. UNCHANGED fat /\ Looks(cache')  BY <1>6, LooksOnly DEF FindNone
    <2>2. OpType' /\ op'.pc = "entry" /\ op'.file = 0  BY <1>4, <1>6, Numbering
    <2>3. OpInv'  BY <2>2 DEF OpInv
    <2>. QED  BY <1>1, <2>1, <2>2, <2>3, LookPreserves
<1>7. CASE UNCHANGED fat /\ WalkOn([op EXCEPT !.pc = "mark", !.file = op.at])
    <2>1. Looks(cache') /\ (\/ op' = [op EXCEPT !.pc = "mark", !.file = op.at]
                            \/ \E c \in Numbers : op' = [op EXCEPT !.at = c])
        BY <1>1, <1>7, WalkOnStep DEF IInv
    <2>2. OpType' /\ OpInv'
        BY <1>1, <2>1 DEF IInv, TypeInv, OpType, OpShape, OpInv, Numbers, Clusters, Slots
    <2>. QED  BY <1>1, <1>7, <2>1, <2>2, LookPreserves
<1>. QED  BY <1>2, <1>5, <1>6, <1>7

\* fat_extend_chain takes a cluster.
LEMMA MarkPreserves ==
    ASSUME IInv, CacheInv', Mark
    PROVE  IInv'
<1>1. /\ UNCHANGED <<disk, events, cwd>> /\ op.pc = "mark" /\ cwd \in Numbers
    BY DEF Mark, IInv, TypeInv, OpType
<1>2. CASE FreeSeen # {}
    <2>1. PICK c : /\ c = Min(FreeSeen) /\ Take(c)
                   /\ op' = [op EXCEPT !.pc = "zero", !.new = c]
        BY <1>2 DEF Mark
    <2>2. /\ c \in Clusters /\ fat' \in [Numbers -> FatEntry] /\ View' = fat'
          /\ WholeInv => /\ Whole(fat', disk)
                         /\ fat'[c] # 0 /\ c \notin Heads(disk) /\ \A x \in Numbers : fat'[x] # c
        BY <1>2, <2>1, TakeWhole
    <2>3. OpType' /\ op'.pc = "zero" /\ op'.new = c
        <3>1. c \in Numbers  BY <2>2, Numbering
        <3>2. op'.pc = "zero" /\ op'.new = c  BY <2>1 DEF IInv, TypeInv, OpType, OpShape
        <3>3. OpType'
            BY <1>1, <2>1, <2>2, <3>1 DEF IInv, TypeInv, OpType, OpShape, Numbers, Clusters, Slots
        <3>. QED  BY <3>2, <3>3
    <2>4. ASSUME WholeInv PROVE OpInv'
        <3>1. Fresh(c)'
            BY <1>1, <2>2, <2>4 DEF Fresh, Heads, Named, Places, Slots, Clusters, Numbers
        <3>. QED  BY <2>3, <3>1 DEF OpInv
    <2>. QED  BY <1>1, <2>2, <2>3, <2>4, TablePreserves DEF IInv, Whole
<1>3. CASE FreeSeen = {}
    <2>1. UNCHANGED fat /\ Looks(cache') /\ op' = Idle
        BY <1>3, LooksOnly DEF Mark, FindNone
    <2>2. OpType' /\ OpInv'  BY <1>1, <2>1, IdleType
    <2>. QED  BY <1>1, <2>1, <2>2, LookPreserves
<1>. QED  BY <1>2, <1>3

\* fat_extend_chain links the new cluster to the end of the chain.
LEMMA LinkPreserves ==
    ASSUME IInv, CacheInv', Link
    PROVE  IInv'
<1>. DEFINE ch == Loaded(op.file)
            t == Seen(ch)
<1>1. /\ UNCHANGED <<disk, events, cwd>> /\ op.pc = "link" /\ cwd \in Numbers
      /\ op.file \in Numbers /\ op.new \in Clusters /\ op.new \in Numbers
    BY DEF Link, IInv, TypeInv, OpType
<1>2. /\ cache' = [ch EXCEPT !.buf[op.file] = op.new] /\ fat' = Flushed(cache')
      /\ \/ op' = [op EXCEPT !.pc = "data", !.file = op.new]
         \/ op' = [op EXCEPT !.pc = "place", !.at = op.new]
    BY DEF Link
<1>3. Looks(ch) /\ op.file \in DOMAIN ch.buf  BY <1>1, LooksOnly, FollowingSeen DEF IInv
<1>4. t \in {View, fat} /\ \A x \in Numbers : fat[x] # 0 => t[x] = fat[x]
    BY <1>3, SeenLooks, SeenAgrees DEF IInv, TypeInv
<1>. HIDE DEF ch
<1>5. fat' = [t EXCEPT ![op.file] = op.new] /\ View' = fat'
    BY <1>2, <1>3, FlushSeen DEF IInv, TypeInv
<1>6. t \in [Numbers -> FatEntry]  BY <1>4 DEF IInv, TypeInv, TableInv
<1>. HIDE DEF t
<1>7. fat' \in [Numbers -> FatEntry]
    <2>1. op.new \in FatEntry  BY <1>1 DEF FatEntry
    <2>. QED  BY <1>5, <1>6, <2>1
<1>8. OpType' /\ OpInv'
    BY <1>1, <1>2 DEF IInv, TypeInv, OpType, OpShape, OpInv, Numbers, Clusters, Slots
<1>9. ASSUME Intact(events) PROVE Whole(fat', disk) /\ Joined(View', Heads(disk))
    <2>1. WholeInv /\ Fresh(op.new)  BY <1>1, <1>9 DEF IInv, OpInv
    <2>2. Joined(t, Heads(disk))  BY <1>4, <2>1 DEF WholeInv, Whole
    <2>3. /\ fat[op.new] # 0 /\ op.new \notin Heads(disk)
          /\ \A x \in Numbers : View[x] # op.new
        BY <2>1 DEF Fresh
    <2>4. t[op.new] # 0  BY <1>1, <1>4, <2>3
    <2>5. \A x \in Numbers : t[x] # op.new
        <3>1. \A x \in Numbers : fat[x] # 0 => View[x] = fat[x]
            BY SeenAgrees DEF View, Looks, IInv
        <3>2. op.new # 0  BY <1>1, Numbering
        <3>. QED  BY <1>4, <2>3, <3>1, <3>2
    <2>6. Joined(fat', Heads(disk))
        BY <1>1, <1>5, <1>6, <2>2, <2>3, <2>4, <2>5, JoinedLink
    <2>7. \A h \in Heads(disk) : h \in Clusters /\ h \in Numbers /\ t[h] # 0
        BY <1>4, <2>1, Numbering DEF WholeInv, Whole
    <2>8. \A h \in Heads(disk) : fat'[h] # 0
        <3>1. op.new # 0  BY <1>1, Numbering
        <3>. QED  BY <1>5, <1>6, <2>7, <3>1
    <2>. QED  BY <1>5, <2>1, <2>6, <2>7, <2>8 DEF WholeInv, Whole
<1>. QED  BY <1>1, <1>5, <1>7, <1>8, <1>9, TablePreserves

\* fat_delete_file gives a cluster back, behind the cache, and goes on to the
\* next one.
LEMMA FreePreserves ==
    ASSUME IInv, CacheInv', Free
    PROVE  IInv'
<1>1. PICK f : f = op.file  OBVIOUS
<1>2. /\ UNCHANGED <<disk, events, cwd>> /\ op.pc = "free" /\ cwd \in Numbers /\ f \in Numbers
      /\ cache' = Loaded(f) /\ fat' = [fat EXCEPT ![f] = 0]
      /\ \/ Following(f) = Eoc /\ op' = [op EXCEPT !.pc = "remove"]
         \/ Following(f) # Eoc /\ op' = [op EXCEPT !.file = Following(f)]
    BY <1>1 DEF Free, IInv, TypeInv, OpType
<1>3. Looks(Loaded(f)) /\ f \in DOMAIN Loaded(f).buf
    BY <1>2, LooksOnly, FollowingSeen DEF IInv
<1>4. View' = Seen(Loaded(f))
    <2>1. View' = [x \in Numbers |-> IF x \in DOMAIN Loaded(f).buf THEN Loaded(f).buf[x]
                                     ELSE fat'[x]]
        BY <1>2 DEF View, Seen, Numbers
    <2>2. \A x \in Numbers : x \notin DOMAIN Loaded(f).buf => fat'[x] = fat[x]
        BY <1>2, <1>3 DEF IInv, TypeInv, TableInv
    <2>. QED  BY <2>1, <2>2 DEF Seen
<1>5. View' \in {View, fat}  BY <1>3, <1>4, SeenLooks DEF IInv, TypeInv
<1>6. fat' \in [Numbers -> FatEntry] /\ View' \in [Numbers -> FatEntry]
    <2>1. 0 \in FatEntry  BY DEF FatEntry
    <2>. QED  BY <1>2, <1>5, <2>1 DEF IInv, TypeInv, TableInv
<1>7. Following(f) \in Numbers \cup {Eoc} /\ (fat[f] # 0 => Following(f) = fat[f])
    BY <1>2, FollowingType, Numbering DEF IInv, TypeInv
<1>8. OpType'
    BY <1>2, <1>7 DEF IInv, TypeInv, OpType, OpShape, Numbers, Clusters, Slots
<1>9. ASSUME Intact(events)
      PROVE  Whole(fat', disk) /\ Joined(View', Heads(disk)) /\ OpInv'
    <2>1. WholeInv /\ Doomed(f)  BY <1>1, <1>2, <1>9 DEF IInv, OpInv
    <2>2. /\ f \in Clusters /\ fat[f] # 0 /\ f \notin Heads(disk)
          /\ \A x \in Numbers : fat[x] # f
        BY <2>1 DEF Doomed
    <2>3. fat \in [Numbers -> FatEntry] /\ Joined(fat, Heads(disk)) /\ Heads(disk) \in SUBSET Clusters
        BY <2>1, HeadsType DEF WholeInv, Whole, IInv, TypeInv, TableInv
    <2>4. /\ Joined(fat', Heads(disk))
          /\ fat[f] # Eoc =>
                /\ fat[f] \in Clusters /\ fat[f] \notin Heads(disk) /\ fat'[fat[f]] # 0
                /\ \A x \in Numbers : fat'[x] # fat[f]
        BY <1>2, <2>2, <2>3, JoinedFree
    <2>5. \A h \in Heads(disk) : h \in Clusters /\ fat'[h] # 0
        BY <1>2, <2>1, <2>2, <2>3, Numbering DEF WholeInv, Whole
    <2>6. Whole(fat', disk)  BY <2>1, <2>4, <2>5 DEF WholeInv, Whole
    <2>7. Joined(View', Heads(disk))  BY <1>5, <2>1, <2>3 DEF WholeInv
    <2>8. OpInv'
        <3>1. CASE Following(f) = Eoc
            <4>1. op'.pc = "remove"  BY <1>2, <3>1 DEF IInv, TypeInv, OpType, OpShape
            <4>. QED  BY <4>1 DEF OpInv
        <3>2. CASE Following(f) # Eoc
            <4>1. PICK g : g = fat[f]  OBVIOUS
            <4>2. op' = [op EXCEPT !.file = g] /\ g # Eoc
                BY <1>2, <1>7, <2>2, <3>2, <4>1
            <4>3. op'.pc = "free" /\ op'.file = g
                BY <1>2, <4>2 DEF IInv, TypeInv, OpType, OpShape
            <4>4. Doomed(g)'
                BY <1>2, <2>4, <4>1, <4>2 DEF Doomed, Heads, Named, Places, Slots, Clusters, Numbers
            <4>. QED  BY <4>3, <4>4 DEF OpInv
        <3>. QED  BY <3>1, <3>2
    <2>. QED  BY <2>6, <2>7, <2>8
<1>. QED  BY <1>2, <1>6, <1>8, <1>9, TablePreserves

\* The power goes off: fat_init has read nothing.
LEMMA CrashPreserves ==
    ASSUME IInv, CacheInv', Crash
    PROVE  IInv'
<1>1. /\ UNCHANGED <<fat, disk>> /\ cache' = NoCache /\ cwd' = Root /\ op' = Idle
      /\ Intact(events') => Intact(events)
    BY DEF Crash, Intact
<1>2. View' = fat
    <2>1. DOMAIN NoCache.buf = {}  BY DEF NoCache
    <2>2. View' = [x \in Numbers |-> IF x \in DOMAIN NoCache.buf THEN NoCache.buf[x] ELSE fat[x]]
        BY <1>1 DEF View, Seen, Numbers
    <2>. QED  BY <2>1, <2>2 DEF IInv, TypeInv, TableInv
<1>3. TableInv' /\ (WholeInv => WholeInv')
    <2>1. TableInv'
        BY <1>1, <1>2 DEF IInv, TypeInv, TableInv, Numbers, FatEntry, Clusters, Eoc
    <2>2. ASSUME WholeInv PROVE WholeInv'
        <3>1. Whole(fat, disk)' /\ Joined(View, Heads(disk))'
            BY <1>1, <1>2, <2>2 DEF WholeInv, Whole, Joined, Heads, Named, Places, Slots, Clusters
        <3>. QED  BY <3>1 DEF WholeInv
    <2>. QED  BY <2>1, <2>2
<1>4. AreSectors(disk)'
    BY <1>1 DEF IInv, TypeInv, AreSectors, IsSector, IsSlot, Slots, Slot, Astray, Nul
<1>5. OpType' /\ OpInv'  BY <1>1, IdleType, Numbering
<1>. QED  BY <1>1, <1>3, <1>4, <1>5 DEF IInv, TypeInv

\* A command starts, or fat_cd_back or cd / changes the directory without a look
\* at the table.
LEMMA CallPreserves ==
    ASSUME IInv, CacheInv', Call
    PROVE  IInv'
<1>1. UNCHANGED <<fat, disk, cache>> /\ op.pc = "idle" /\ (Intact(events') => Intact(events))
    BY DEF Intact, Call, Create, MkDir, CdTo, Remove, Cat, List, Move, Save, Start, CdRoot, CdBack
<1>2. op = op' /\ cwd' \in Numbers \cup {Astray} => OpType' /\ OpInv'
    BY <1>1 DEF IInv, TypeInv, OpType, OpShape, OpInv, Numbers, Clusters, Slots
<1>3. ASSUME cwd # Astray, cwd' = cwd,
             NEW pc \in {"check", "open", "remove", "read", "list", "rename", "locate"},
             NEW cmd, NEW n \in Typed \cup {NoWord}, NEW w \in Typed \cup {NoWord}, NEW x,
             pc \notin {"list", "rename"} => n # NoWord,
             op' = [pc |-> pc, cmd |-> cmd, name |-> n, word |-> w, at |-> cwd, slot |-> 1,
                    found |-> FALSE, file |-> 0, new |-> 0, off |-> 0, text |-> x]
      PROVE  OpType' /\ OpInv'
    <2>1. OpShape'  BY <1>3 DEF OpShape
    <2>2. /\ op'.pc = pc /\ op'.slot = 1 /\ op'.file = 0 /\ op'.new = 0
          /\ op'.name = n /\ op'.word = w /\ op'.at = cwd
        BY <1>3
    <2>3. 1 \in Slots /\ 1 \in Nat \ {0} /\ 0 \in Numbers /\ cwd \in Numbers
        BY <1>3, Numbering DEF IInv, TypeInv, OpType
    <2>4. OpType'  BY <1>3, <2>1, <2>2, <2>3 DEF OpType, Numbers, Slots
    <2>. QED  BY <1>3, <2>2, <2>4 DEF OpInv
<1>4. NoWord \notin Typed  BY Wording DEF NoWord
<1>5. CASE \/ \E n \in Typed : Create(n) \/ MkDir(n) \/ Remove(n) \/ Cat(n)
           \/ \E n \in Typed \ {DotDot} : CdTo(n)
    <2>1. PICK n \in Typed, pc \in {"check", "open", "remove", "read"},
               cmd \in {"create", "mkdir", "cd", "rm", "cat"} : Start(Command(pc, cmd, n))
        BY <1>5 DEF Create, MkDir, CdTo, Remove, Cat
    <2>2. /\ cwd # Astray /\ cwd' = cwd
          /\ op' = [pc |-> pc, cmd |-> cmd, name |-> n, word |-> NoWord, at |-> cwd, slot |-> 1,
                    found |-> FALSE, file |-> 0, new |-> 0, off |-> 0, text |-> NoText]
        BY <2>1 DEF Start, Command, Idle, NoWord
    <2>. QED  BY <1>1, <1>3, <1>4, <2>2, LookPreserves
<1>6. CASE \E n, w \in Typed \cup {""} : Move(n, w)
    <2>1. PICK n \in Typed \cup {NoWord}, w \in Typed \cup {NoWord} : Move(n, w)
        BY <1>6 DEF NoWord
    <2>2. /\ cwd # Astray /\ cwd' = cwd
          /\ op' = [pc |-> "rename", cmd |-> "mv", name |-> n, word |-> w, at |-> cwd, slot |-> 1,
                    found |-> FALSE, file |-> 0, new |-> 0, off |-> 0, text |-> NoText]
        BY <2>1 DEF Move, Start, Command, Idle
    <2>. QED  BY <1>1, <1>3, <2>2, LookPreserves
<1>7. CASE \E n \in Typed, v \in Versions, len \in 1 .. MaxBlocks : Save(n, v, len)
    <2>1. PICK n \in Typed, v \in Versions, len \in 1 .. MaxBlocks : Save(n, v, len)
        BY <1>7
    <2>2. /\ cwd # Astray /\ cwd' = cwd
          /\ op' = [pc |-> "locate", cmd |-> "save", name |-> n, word |-> NoWord, at |-> cwd, slot |-> 1,
                    found |-> FALSE, file |-> 0, new |-> 0, off |-> 0, text |-> [v |-> v, len |-> len]]
        BY <2>1 DEF Save, Start, Command, Idle, NoWord
    <2>. QED  BY <1>1, <1>3, <1>4, <2>2, LookPreserves
<1>8. CASE List
    <2>1. /\ cwd # Astray /\ cwd' = cwd
          /\ op' = [pc |-> "list", cmd |-> "dir", name |-> NoWord, word |-> NoWord, at |-> cwd, slot |-> 1,
                    found |-> FALSE, file |-> 0, new |-> 0, off |-> 0, text |-> NoText]
        BY <1>8 DEF List, Start, Command, Idle, NoWord
    <2>. QED  BY <1>1, <1>3, <2>1, LookPreserves
<1>9. CASE CdRoot
    <2>1. op' = op /\ cwd' = Root  BY <1>9 DEF CdRoot
    <2>. QED  BY <1>1, <1>2, <2>1, Numbering, LookPreserves
<1>10. CASE CdBack
    <2>1. op' = op /\ (cwd' = Root \/ cwd' = disk[cwd][2].cl) /\ cwd \in Numbers
        BY <1>10 DEF CdBack, Parent, IInv, TypeInv, OpType
    <2>2. disk[cwd][2].cl \in Numbers \cup {Astray}
        <3>1. AreSectors(disk) /\ 2 \in Slots  BY Numbering DEF IInv, TypeInv
        <3>2. IsSector(disk[cwd])  BY <2>1, <3>1 DEF AreSectors, Numbers
        <3>3. IsSlot(disk[cwd][2])  BY <3>1, <3>2 DEF IsSector
        <3>. QED  BY <3>3 DEF IsSlot, Numbers
    <2>. QED  BY <1>1, <1>2, <2>1, <2>2, Numbering, LookPreserves
<1>. QED  BY <1>5, <1>6, <1>7, <1>8, <1>9, <1>10 DEF Call

-----------------------------------------------------------------------------
(* Chains.                                                                 *)

\* A function given by its first value and a step, as ChainOf and DirClusters
\* build theirs.
Iterates(r, S, b, G, L) ==
    r \in [0 .. L -> S] /\ r[0] = b /\ \A n \in 1 .. L : r[n] = G[r[n - 1]]

\* There is one: the walks of fat.c from cluster to cluster have a result.
LEMMA Recursion ==
    ASSUME NEW S, NEW b \in S, NEW G \in [S -> S], NEW L \in Nat
    PROVE  \E r : Iterates(r, S, b, G, L)
<1>. DEFINE Goes(k, r) == r[0] = b /\ \A n \in 1 .. k : r[n] = G[r[n - 1]]
            Upto(k) == \E r \in [0 .. k -> S] : Goes(k, r)
<1>1. Upto(0)
    <2>1. [n \in 0 .. 0 |-> b] \in [0 .. 0 -> S] /\ Goes(0, [n \in 0 .. 0 |-> b])
        OBVIOUS
    <2>. QED  BY <2>1
<1>2. ASSUME NEW k \in Nat, Upto(k) PROVE Upto(k + 1)
    <2>1. PICK r \in [0 .. k -> S] : Goes(k, r)  BY <1>2
    <2>. DEFINE q == [n \in 0 .. k + 1 |-> IF n = k + 1 THEN G[r[k]] ELSE r[n]]
    <2>2. q \in [0 .. k + 1 -> S]  OBVIOUS
    <2>3. q[0] = b /\ q[k + 1] = G[q[k]]  BY <2>1
    <2>4. ASSUME NEW n \in 1 .. k PROVE q[n] = G[q[n - 1]]
        <3>1. n \in 0 .. k + 1 /\ n # k + 1 /\ n - 1 \in 0 .. k + 1 /\ n - 1 # k + 1
            OBVIOUS
        <3>2. q[n] = r[n] /\ q[n - 1] = r[n - 1]  BY <3>1
        <3>. QED  BY <2>1, <3>2
    <2>5. 1 .. k + 1 = (1 .. k) \cup {k + 1}  OBVIOUS
    <2>. HIDE DEF q
    <2>6. \A n \in 1 .. k + 1 : q[n] = G[q[n - 1]]
        <3>. SUFFICES ASSUME NEW n \in 1 .. k + 1 PROVE q[n] = G[q[n - 1]]  OBVIOUS
        <3>1. CASE n = k + 1
            <4>1. n - 1 = k  BY <3>1
            <4>. QED  BY <2>3, <3>1, <4>1
        <3>2. CASE n \in 1 .. k  BY <2>4, <3>2
        <3>. QED  BY <2>5, <3>1, <3>2
    <2>. QED  BY <2>2, <2>3, <2>6
<1>3. ASSUME ~ Upto(L) PROVE FALSE
    <2>. DEFINE T == {k \in Nat : ~ Upto(k)}
    <2>. HIDE DEF Upto
    <2>1. PICK m \in T : \A k \in T : m <= k  BY <1>3, LeastElement
    <2>2. m # 0 /\ m - 1 \in Nat  BY <1>1
    <2>3. Upto(m - 1)  BY <2>1, <2>2
    <2>4. Upto(m)  BY <1>2, <2>2, <2>3
    <2>. QED  BY <2>4
<1>. QED  BY <1>3 DEF Iterates

\* The clusters that can be reached from c in so many steps (ChainOf).
Reach(c, r) ==
    /\ r[0] = {c} /\ DOMAIN r = Numbers
    /\ \A n \in 1 .. LastCluster : r[n] = r[n - 1] \cup {fat[x] : x \in r[n - 1] \ {Eoc}}

\* The chain that fat_next_cluster walks is what can be reached in as many steps
\* as there are clusters.
LEMMA ChainReach ==
    ASSUME fat \in [Numbers -> FatEntry], NEW c \in Numbers
    PROVE  \E r : Reach(c, r) /\ ChainOf(c) = r[LastCluster] \ {Eoc}
<1>. DEFINE U == Numbers \cup {Eoc}
            S == SUBSET U
            G == [s \in S |-> s \cup {fat[x] : x \in s \ {Eoc}}]
            Eq(q) == q = [n \in 0 .. LastCluster |-> IF n = 0 THEN {c}
                             ELSE q[n - 1] \cup {fat[x] : x \in q[n - 1] \ {Eoc}}]
<1>1. LastCluster \in Nat  BY VolumeAssumption, Zenon
<1>2. FatEntry \subseteq U  BY <1>1 DEF FatEntry, Numbers, Clusters
<1>3. G \in [S -> S] /\ {c} \in S  BY <1>2
<1>. HIDE DEF S, G
<1>4. PICK r \in [0 .. LastCluster -> S] :
          r[0] = {c} /\ \A n \in 1 .. LastCluster : r[n] = G[r[n - 1]]
    <2>1. PICK b \in S, g \in [S -> S] : b = {c} /\ g = G  BY <1>3, Zenon
    <2>2. \E r : Iterates(r, S, b, g, LastCluster)  BY <1>1, <2>1, Recursion, Zenon
    <2>. QED  BY <2>1, <2>2, Zenon DEF Iterates
<1>5. \A n \in 1 .. LastCluster : r[n] = r[n - 1] \cup {fat[x] : x \in r[n - 1] \ {Eoc}}
    <2>1. \A n \in 1 .. LastCluster : r[n - 1] \in S  BY <1>1
    <2>. QED  BY <1>4, <2>1 DEF G
<1>6. Eq(r)  BY <1>1, <1>4, <1>5
<1>7. PICK q : Eq(q) /\ ChainOf(c) = q[LastCluster] \ {Eoc}  BY <1>6, Zenon DEF ChainOf
<1>8. Reach(c, q)
    <2>1. \A n \in Numbers : q[n] = IF n = 0 THEN {c}
                                     ELSE q[n - 1] \cup {fat[x] : x \in q[n - 1] \ {Eoc}}
        BY <1>7 DEF Numbers
    <2>2. 0 \in Numbers /\ \A n \in 1 .. LastCluster : n \in Numbers /\ n # 0
        BY <1>1 DEF Numbers
    <2>3. q[0] = {c} /\ DOMAIN q = Numbers  BY <1>7, <2>1, <2>2 DEF Numbers
    <2>4. \A n \in 1 .. LastCluster : q[n] = q[n - 1] \cup {fat[x] : x \in q[n - 1] \ {Eoc}}
        BY <2>1, <2>2, Zenon
    <2>. QED  BY <2>3, <2>4, Zenon DEF Reach
<1>. QED  BY <1>7, <1>8

\* What a walk along the chain has reached stays reached.
LEMMA ReachGrows ==
    ASSUME NEW c, NEW r, Reach(c, r), NEW n \in Numbers
    PROVE  r[n] \subseteq r[LastCluster]
<1>. DEFINE T == {k \in Numbers : ~ (r[k] \subseteq r[LastCluster])}
<1>. SUFFICES ASSUME T # {} PROVE FALSE  OBVIOUS
<1>1. LastCluster \in Nat /\ T \in SUBSET (0 .. LastCluster)  BY Numbering DEF Numbers
<1>2. PICK g \in T : \A k \in T : k <= g  BY <1>1, GreatestElement
<1>3. g # LastCluster /\ g \in Numbers  BY <1>2
<1>4. g + 1 \in 1 .. LastCluster /\ g + 1 \in Numbers /\ ~ (g + 1 <= g)
    BY <1>1, <1>3 DEF Numbers
<1>5. r[g + 1] \subseteq r[LastCluster]  BY <1>2, <1>4
<1>6. r[g] \subseteq r[g + 1]  BY <1>1, <1>3, <1>4 DEF Reach, Numbers
<1>. QED  BY <1>2, <1>5, <1>6

\* What a walk reaches is the first cluster, or follows one reached before
\* (fat_next_cluster).
LEMMA ReachBack ==
    ASSUME NEW c, NEW r, Reach(c, r), NEW n \in Numbers, NEW x \in r[n], x # c
    PROVE  \E m \in Numbers : m < n /\ \E z \in r[m] : z # Eoc /\ fat[z] = x
<1>. DEFINE T == {k \in Numbers : k <= n /\ x \in r[k]}
<1>1. T \in SUBSET Nat /\ n \in T  BY Numbering DEF Numbers
<1>2. PICK k \in T : \A j \in T : k <= j  BY <1>1, LeastElement
<1>3. k # 0 /\ k \in Numbers /\ k <= n  BY <1>2 DEF Reach
<1>4. k \in 1 .. LastCluster /\ k - 1 \in Numbers /\ k - 1 < k /\ k - 1 < n /\ k - 1 <= n
    BY <1>3, Numbering DEF Numbers
<1>5. x \notin r[k - 1]
    <2>1. ~ (k <= k - 1)  BY <1>4
    <2>. QED  BY <1>2, <1>4, <2>1
<1>6. r[k] = r[k - 1] \cup {fat[z] : z \in r[k - 1] \ {Eoc}}  BY <1>4 DEF Reach
<1>. QED  BY <1>2, <1>4, <1>5, <1>6

\* The chain of a file or directory consists of clusters in use.
LEMMA ReachInUse ==
    ASSUME fat \in [Numbers -> FatEntry], Whole(fat, disk), NEW c \in Heads(disk),
           NEW r, Reach(c, r), NEW n \in Numbers, NEW x \in r[n], x # Eoc
    PROVE  x \in Clusters /\ fat[x] # 0
<1>. DEFINE T == {k \in Numbers : \E y \in r[k] : y # Eoc /\ ~ (y \in Clusters /\ fat[y] # 0)}
<1>. SUFFICES ASSUME T # {} PROVE FALSE  OBVIOUS
<1>1. T \in SUBSET Nat  BY Numbering DEF Numbers
<1>2. PICK k \in T : \A j \in T : k <= j  BY <1>1, LeastElement
<1>3. PICK y \in r[k] : y # Eoc /\ ~ (y \in Clusters /\ fat[y] # 0)  BY <1>2
<1>4. y # c  BY <1>3 DEF Whole
<1>5. PICK m \in Numbers : m < k /\ \E z \in r[m] : z # Eoc /\ fat[z] = y
    BY <1>2, <1>4, ReachBack
<1>6. m \notin T
    <2>1. ~ (k <= m)  BY <1>2, <1>5, Numbering DEF Numbers
    <2>. QED  BY <1>2, <2>1
<1>7. PICK z \in r[m] : z # Eoc /\ fat[z] = y /\ z \in Clusters /\ fat[z] # 0
    BY <1>5, <1>6
<1>8. y \in FatEntry /\ y # 0 /\ z \in DOMAIN fat  BY <1>7, Numbering
<1>9. y \in Clusters  BY <1>3, <1>8 DEF FatEntry
<1>10. fat[y] # 0  BY <1>7, <1>8, <1>9 DEF Whole, Joined
<1>. QED  BY <1>3, <1>9, <1>10

\* Two walks that start at two entries do not meet (fat_extend_chain,
\* fat_delete_file).
LEMMA ReachApart ==
    ASSUME fat \in [Numbers -> FatEntry], Whole(fat, disk), NEW c \in Heads(disk),
           NEW d \in Heads(disk), c # d, NEW r, Reach(c, r), NEW q, Reach(d, q),
           NEW n \in Numbers, NEW m \in Numbers, NEW x \in r[n] \cap q[m], x # Eoc
    PROVE  FALSE
<1>. DEFINE T == {k \in Numbers : \E y \in r[k] : y # Eoc /\ \E j \in Numbers : y \in q[j]}
<1>1. T \in SUBSET Nat /\ n \in T  BY Numbering DEF Numbers
<1>2. PICK k \in T : \A j \in T : k <= j  BY <1>1, LeastElement
<1>3. PICK y \in r[k], j \in Numbers : y # Eoc /\ y \in q[j]  BY <1>2
<1>4. y \in Clusters /\ fat \in [Numbers -> FatEntry]  BY <1>2, <1>3, ReachInUse
<1>5. \A h \in Heads(disk), z \in Numbers : fat[z] # h  BY <1>4 DEF Whole, Joined
<1>6. \A v, w \in Numbers : fat[v] = y /\ fat[w] = y => v = w  BY <1>4 DEF Whole, Joined
<1>7. ASSUME y # c PROVE \E l \in Numbers : l < k /\ \E z \in r[l] : z # Eoc /\ z \in Numbers /\ fat[z] = y
    <2>1. PICK l \in Numbers : l < k /\ \E z \in r[l] : z # Eoc /\ fat[z] = y
        BY <1>2, <1>3, <1>7, ReachBack
    <2>2. PICK z \in r[l] : z # Eoc /\ fat[z] = y  BY <2>1
    <2>3. z \in Numbers  BY <2>2, ReachInUse, Numbering
    <2>. QED  BY <2>1, <2>2, <2>3
<1>8. ASSUME y # d PROVE \E l \in Numbers : \E z \in q[l] : z \in Numbers /\ fat[z] = y
    <2>1. PICK l \in Numbers : \E z \in q[l] : z # Eoc /\ fat[z] = y
        BY <1>3, <1>8, ReachBack
    <2>2. PICK z \in q[l] : z # Eoc /\ fat[z] = y  BY <2>1
    <2>3. z \in Numbers  BY <2>2, ReachInUse, Numbering
    <2>. QED  BY <2>1, <2>2, <2>3
<1>9. y # c /\ y # d  BY <1>5, <1>7, <1>8
<1>10. PICK l \in Numbers : l < k /\ \E z \in r[l] : z # Eoc /\ z \in Numbers /\ fat[z] = y
    BY <1>7, <1>9
<1>11. PICK z \in r[l] : z # Eoc /\ z \in Numbers /\ fat[z] = y  BY <1>10
<1>12. PICK i \in Numbers : z \in q[i]  BY <1>6, <1>8, <1>9, <1>11
<1>13. l \in T  BY <1>11, <1>12
<1>. QED  BY <1>2, <1>10, <1>13, Numbering DEF Numbers

\* A chain that did not end would have more members than there are clusters, so
\* that every walk of fat.c ends.
LEMMA ChainEnds ==
    ASSUME fat \in [Numbers -> FatEntry], Whole(fat, disk), NEW c \in Heads(disk)
    PROVE  Ends(c)
<1>. SUFFICES ASSUME ~ Ends(c) PROVE FALSE  OBVIOUS
<1>1. LastCluster \in Nat /\ Clusters \subseteq Numbers /\ FatEntry \subseteq Numbers \cup {Eoc}
      /\ c \in Clusters /\ c \in Numbers /\ Eoc \notin Numbers
    BY Numbering DEF Whole
<1>2. PICK r : Reach(c, r) /\ ChainOf(c) = r[LastCluster] \ {Eoc}  BY <1>1, ChainReach
<1>. DEFINE U == Numbers \cup {Eoc}
            G == [x \in U |-> IF x \in Numbers THEN fat[x] ELSE Eoc]
<1>3. G \in [U -> U] /\ c \in U  BY <1>1
<1>. HIDE DEF U, G
<1>4. PICK p \in [0 .. LastCluster -> U] :
          p[0] = c /\ \A n \in 1 .. LastCluster : p[n] = G[p[n - 1]]
    <2>1. PICK g \in [U -> U] : g = G  BY <1>3, Zenon
    <2>2. \E p : Iterates(p, U, c, g, LastCluster)
        BY <1>1, <1>3, <2>1, Recursion, Zenon
    <2>. QED  BY <2>1, <2>2, Zenon DEF Iterates
<1>5. \A n \in Numbers : n # 0 => n \in 1 .. LastCluster /\ n - 1 \in Numbers /\ ~ (n <= n - 1)
    BY <1>1 DEF Numbers
<1>6. ASSUME NEW n \in Numbers, NEW x, x \in Clusters, x \in r[n]
      PROVE  fat[x] \in Clusters
    <2>1. x \in ChainOf(c)  BY <1>1, <1>2, <1>6, ReachGrows
    <2>2. fat[x] # Eoc  BY <1>6, <2>1 DEF Ends
    <2>3. fat[x] # 0  BY <1>1, <1>2, <1>6, ReachInUse
    <2>4. fat[x] \in FatEntry  BY <1>1, <1>6
    <2>. QED  BY <2>2, <2>3, <2>4 DEF FatEntry
<1>7. \A n \in Numbers : p[n] \in Clusters /\ p[n] \in r[n]
    <2>. DEFINE T == {n \in Numbers : ~ (p[n] \in Clusters /\ p[n] \in r[n])}
    <2>. SUFFICES ASSUME T # {} PROVE FALSE  OBVIOUS
    <2>1. T \in SUBSET Nat  BY <1>1 DEF Numbers
    <2>2. PICK n \in T : \A k \in T : n <= k  BY <2>1, LeastElement
    <2>3. n # 0  BY <1>1, <1>2, <1>4, <2>2 DEF Reach
    <2>4. p[n - 1] \in Clusters /\ p[n - 1] \in r[n - 1] /\ n - 1 \in Numbers
        BY <1>5, <2>2, <2>3
    <2>5. p[n] = fat[p[n - 1]] /\ p[n - 1] # Eoc
        <3>1. n \in 1 .. LastCluster /\ p[n - 1] \in Numbers /\ p[n - 1] # Eoc
            BY <1>1, <1>5, <2>2, <2>3, <2>4
        <3>2. p[n] = G[p[n - 1]]  BY <1>4, <3>1
        <3>3. G[p[n - 1]] = fat[p[n - 1]]  BY <3>1 DEF G, U
        <3>. QED  BY <3>1, <3>2, <3>3
    <2>6. p[n] \in Clusters  BY <1>6, <2>4, <2>5
    <2>7. p[n] \in r[n]  BY <1>2, <1>5, <2>2, <2>3, <2>4, <2>5 DEF Reach
    <2>. QED  BY <2>2, <2>6, <2>7
<1>8. \A n \in Numbers : n # 0 => p[n] = fat[p[n - 1]]
    <2>. SUFFICES ASSUME NEW n \in Numbers, n # 0 PROVE p[n] = fat[p[n - 1]]  OBVIOUS
    <2>1. n \in 1 .. LastCluster /\ p[n - 1] \in Numbers  BY <1>1, <1>5, <1>7
    <2>2. p[n] = G[p[n - 1]]  BY <1>4, <2>1
    <2>. QED  BY <2>1, <2>2 DEF G, U
<1>9. \E i, j \in Numbers : i # j /\ p[i] = p[j]
    <2>1. p \in [Numbers -> Clusters]
        <3>1. p = [n \in Numbers |-> p[n]]  BY <1>4 DEF Numbers
        <3>. QED  BY <1>7, <3>1
    <2>2. /\ IsFiniteSet(Numbers) /\ Cardinality(Numbers) = LastCluster + 1
          /\ IsFiniteSet(Clusters) /\ Cardinality(Clusters) = LastCluster - 1
        BY Numbering, FS_Interval DEF Numbers, Clusters
    <2>. QED  BY <1>1, <2>1, <2>2, FS_PigeonHole
<1>. DEFINE T == {i \in Numbers : \E j \in Numbers : i # j /\ p[i] = p[j]}
<1>10. T \in SUBSET Nat /\ T # {}  BY <1>1, <1>9 DEF Numbers
<1>11. PICK i \in T : \A k \in T : i <= k  BY <1>10, LeastElement
<1>12. PICK j \in Numbers : i # j /\ p[i] = p[j]  BY <1>11
<1>13. ASSUME NEW n \in Numbers, n # 0 PROVE p[n] # c
    <2>1. p[n] = fat[p[n - 1]] /\ p[n - 1] \in Numbers  BY <1>1, <1>5, <1>7, <1>8, <1>13
    <2>2. fat[p[n - 1]] \notin Heads(disk)  BY <2>1 DEF Whole, Joined
    <2>. QED  BY <2>1, <2>2
<1>14. i # 0 /\ j # 0  BY <1>4, <1>11, <1>12, <1>13
<1>15. i - 1 \in Numbers /\ j - 1 \in Numbers /\ i - 1 # j - 1
    BY <1>1, <1>5, <1>11, <1>12, <1>14 DEF Numbers
<1>16. p[i - 1] = p[j - 1]
    <2>1. fat[p[i - 1]] = fat[p[j - 1]] /\ fat[p[i - 1]] \in Clusters
        BY <1>7, <1>8, <1>11, <1>12, <1>14
    <2>2. p[i - 1] \in DOMAIN fat /\ p[j - 1] \in DOMAIN fat  BY <1>1, <1>7, <1>15
    <2>. QED  BY <2>1, <2>2 DEF Whole, Joined
<1>17. i - 1 \in T  BY <1>15, <1>16
<1>. QED  BY <1>5, <1>11, <1>14, <1>17

\* The clusters of the directories that fat_open_dir can reach are clusters.
LEMMA DirClustersAre ==
    ASSUME NEW Z, ChainOf(Root) \cap Clusters \subseteq Z, Clusters \subseteq Z \cup Unfilled
    PROVE  DirClusters \subseteq Z \cap Clusters
<1>. DEFINE Below(ds) == (UNION {ChainOf(ClusterAt(p)) :
                                    p \in {q \in ds \X Slots : IsDirectory(q)}}) \ Unfilled
            S == SUBSET Clusters
            G == [s \in S |-> s \cup (Below(s) \cap Clusters)]
            Eq(q) == q = [n \in 0 .. LastCluster |-> IF n = 0 THEN ChainOf(Root) \cap Clusters
                             ELSE q[n - 1] \cup (Below(q[n - 1]) \cap Clusters)]
<1>1. LastCluster \in Nat  BY Numbering
<1>2. G \in [S -> S] /\ ChainOf(Root) \cap Clusters \in S  OBVIOUS
<1>. HIDE DEF S, G
<1>3. PICK r \in [0 .. LastCluster -> S] :
          r[0] = ChainOf(Root) \cap Clusters /\ \A n \in 1 .. LastCluster : r[n] = G[r[n - 1]]
    <2>1. PICK b \in S, g \in [S -> S] : b = ChainOf(Root) \cap Clusters /\ g = G
        BY <1>2, Zenon
    <2>2. \E r : Iterates(r, S, b, g, LastCluster)  BY <1>1, <2>1, Recursion, Zenon
    <2>. QED  BY <2>1, <2>2, Zenon DEF Iterates
<1>4. \A n \in 1 .. LastCluster : r[n] = r[n - 1] \cup (Below(r[n - 1]) \cap Clusters)
    <2>1. \A n \in 1 .. LastCluster : r[n - 1] \in S  BY <1>1
    <2>. HIDE DEF Below
    <2>. QED  BY <1>3, <2>1 DEF G
<1>5. Eq(r)
    <2>. HIDE DEF Below
    <2>. QED  BY <1>1, <1>3, <1>4
<1>6. PICK q : Eq(q) /\ DirClusters = q[LastCluster]  BY <1>5, Zenon DEF DirClusters
<1>. DEFINE Y == Z \cap Clusters
<1>7. q[LastCluster] \subseteq Y
    <2>. HIDE DEF Below
    <2>1. \A n \in 0 .. LastCluster : q[n] = IF n = 0 THEN ChainOf(Root) \cap Clusters
                             ELSE q[n - 1] \cup (Below(q[n - 1]) \cap Clusters)
        BY <1>6
    <2>. DEFINE T == {n \in 0 .. LastCluster : ~ (q[n] \subseteq Y)}
    <2>. SUFFICES ASSUME T # {} PROVE FALSE  BY <1>1
    <2>. HIDE DEF T
    <2>2. T \in SUBSET Nat  BY <1>1 DEF T
    <2>3. PICK n \in T : \A k \in T : n <= k  BY <2>2, LeastElement
    <2>. USE DEF T
    <2>4. n # 0  BY <2>1, <2>3
    <2>8. Below(q[n - 1]) \cap Clusters \subseteq Y  BY DEF Below
    <2>5. n - 1 \in 0 .. LastCluster /\ ~ (n <= n - 1)  BY <1>1, <2>3, <2>4
    <2>6. q[n - 1] \subseteq Y  BY <2>3, <2>5
    <2>7. q[n] = q[n - 1] \cup (Below(q[n - 1]) \cap Clusters)  BY <2>1, <2>3, <2>4
    <2>. QED  BY <2>3, <2>6, <2>7, <2>8
<1>. QED  BY <1>6, <1>7

\* They are clusters (fat_open_dir).
LEMMA DirClustersType == DirClusters \subseteq Clusters
    BY DirClustersAre

\* An entry that a path leads to (fat_open_dir) names the first cluster of a
\* chain.
LEMMA EntriesAreNamed ==
    ASSUME NEW p \in Entries
    PROVE  p \in Named(disk) /\ ClusterAt(p) \in Heads(disk)
<1>1. p \in DirClusters \X Slots /\ IsEntry(p)  BY DEF Entries
<1>2. p \in Places  BY <1>1, DirClustersType, Numbering DEF Places, Numbers
<1>. QED  BY <1>1, <1>2 DEF Named, Heads, IsEntry, ClusterAt

\* The chain of a file or directory ends, and consists of clusters in use, also as
\* the cached sector shows them.
LEMMA ChainMembers ==
    ASSUME CacheInv, fat \in [Numbers -> FatEntry], Whole(fat, disk), NEW c \in Heads(disk)
    PROVE  /\ Ends(c) /\ ChainOf(c) \subseteq Clusters
           /\ \A x \in ChainOf(c) :
                 fat[x] # 0 /\ (x \in DOMAIN cache.buf => cache.buf[x] # 0)
<1>1. c \in Numbers /\ LastCluster \in Numbers  BY Numbering DEF Whole
<1>2. PICK r : Reach(c, r) /\ ChainOf(c) = r[LastCluster] \ {Eoc}  BY <1>1, ChainReach
<1>3. \A x \in ChainOf(c) : x \in Clusters /\ fat[x] # 0  BY <1>1, <1>2, ReachInUse
<1>4. \A x \in DOMAIN cache.buf : fat[x] # 0 => cache.buf[x] # 0  BY DEF CacheInv, Shows
<1>. QED  BY <1>3, <1>4, ChainEnds

\* No cluster is in two chains (fat_alloc_cluster).
LEMMA ChainsMeetNot ==
    ASSUME fat \in [Numbers -> FatEntry], Whole(fat, disk),
           NEW c \in Heads(disk), NEW d \in Heads(disk), c # d
    PROVE  ChainOf(c) \cap ChainOf(d) = {}
<1>1. c \in Numbers /\ d \in Numbers /\ LastCluster \in Numbers  BY Numbering DEF Whole
<1>2. PICK r : Reach(c, r) /\ ChainOf(c) = r[LastCluster] \ {Eoc}  BY <1>1, ChainReach
<1>3. PICK q : Reach(d, q) /\ ChainOf(d) = q[LastCluster] \ {Eoc}  BY <1>1, ChainReach
<1>. SUFFICES ASSUME NEW x \in ChainOf(c) \cap ChainOf(d) PROVE FALSE  OBVIOUS
<1>4. x \in r[LastCluster] \cap q[LastCluster] /\ x # Eoc  BY <1>2, <1>3
<1>. QED  BY <1>1, <1>2, <1>3, <1>4, ReachApart

\* Tables and sectors that are whole are what fat_alloc_cluster, fat_extend_chain
\* and fat_delete_file have to keep.
LEMMA WholeIsApart == IInv => ChainsApart
<1>. SUFFICES ASSUME IInv, Intact(events) PROVE ChainsApart  BY DEF ChainsApart, Intact
<1>1. CacheInv /\ fat \in [Numbers -> FatEntry] /\ Whole(fat, disk)
    BY DEF IInv, TypeInv, TableInv, WholeInv
<1>2. Root \in Heads(disk)  BY DEF Heads
<1>3. \A p \in Entries : p \in Named(disk) /\ ClusterAt(p) \in Heads(disk)
    BY EntriesAreNamed
<1>4. \A p, q \in Entries : ClusterAt(p) # Root /\ (p # q => ClusterAt(p) # ClusterAt(q))
    BY <1>1, <1>3 DEF Whole, ClusterAt
<1>5. \A c \in {Root} \cup {ClusterAt(p) : p \in Entries} :
         /\ Ends(c) /\ ChainOf(c) \subseteq Clusters
         /\ \A x \in ChainOf(c) :
               fat[x] # 0 /\ (x \in DOMAIN cache.buf => cache.buf[x] # 0)
    BY <1>1, <1>2, <1>3, ChainMembers
<1>6. ASSUME NEW p \in Entries
      PROVE  /\ ChainOf(ClusterAt(p)) \cap ChainOf(Root) = {}
             /\ \A q \in Entries \ {p} : ChainOf(ClusterAt(p)) \cap ChainOf(ClusterAt(q)) = {}
    BY <1>1, <1>2, <1>3, <1>4, ChainsMeetNot
<1>. QED  BY <1>5, <1>6 DEF ChainsApart

-----------------------------------------------------------------------------
(* The theorems.                                                           *)

\* The shell waits, and the volume is one that this driver has written (fat_init).
LEMMA IInvInit == Init => IInv
<1>. SUFFICES ASSUME Init PROVE IInv  OBVIOUS
<1>1. PICK v \in Volumes : fat = v.fat /\ disk = v.disk  BY DEF Init
<1>2. fat \in [Numbers -> FatEntry] /\ AreSectors(disk) /\ Whole(fat, disk)
    BY <1>1, WholeAssumption DEF Numbers
<1>3. CacheInv /\ cache = NoCache /\ cwd = Root /\ op = Idle  BY CacheInvInit DEF Init
<1>4. View = fat
    <2>1. cache.buf = <<>> /\ DOMAIN cache.buf = {}  BY <1>3 DEF NoCache
    <2>2. View = [c \in Numbers |-> fat[c]]  BY <2>1 DEF View, Seen
    <2>. QED  BY <1>2, <2>2
<1>5. OpType
    <2>1. OpShape  BY <1>3 DEF OpShape, Idle
    <2>2. op = [pc |-> "idle", cmd |-> "", name |-> NoWord, word |-> NoWord, at |-> 0, slot |-> 1,
                found |-> FALSE, file |-> 0, new |-> 0, off |-> 0, text |-> NoText]
        BY <1>3 DEF Idle, NoWord
    <2>3. op.pc = "idle" /\ op.name = NoWord /\ op.word = NoWord /\ op.slot = 1
          /\ op.file = 0 /\ op.new = 0
        BY <2>2
    <2>. QED  BY <1>3, <2>1, <2>3, Numbering DEF OpType
<1>6. OpInv  BY <1>3 DEF OpInv, Idle
<1>. QED  BY <1>2, <1>3, <1>4, <1>5, <1>6 DEF IInv, TypeInv, TableInv, WholeInv, Whole

\* Each step of each command, and a power failure, keeps the table, its cached
\* sector and the entries in step.
LEMMA IInvStep ==
    ASSUME IInv, [Next]_vars
    PROVE  IInv'
<1>1. CacheInv'  BY CacheInvStep DEF IInv
<1>2. CASE Call  BY <1>1, <1>2, CallPreserves
<1>3. CASE Check \/ Open \/ Read \/ Chain \/ Dir  BY <1>1, <1>3, WalkPreserves
<1>4. CASE Zero \/ Dots \/ Data  BY <1>1, <1>4, SectorPreserves
<1>5. CASE Entry \/ Unlink \/ Rename \/ Locate
    BY <1>1, <1>5, EntryPreserves, UnlinkPreserves, RenamePreserves, LocatePreserves
<1>6. CASE Place \/ Mark \/ Link \/ Free
    BY <1>1, <1>6, PlacePreserves, MarkPreserves, LinkPreserves, FreePreserves
<1>7. CASE Crash  BY <1>1, <1>7, CrashPreserves
<1>8. CASE UNCHANGED vars
    <2>1. UNCHANGED <<fat, disk, cache, cwd, op, events>>  BY <1>8 DEF vars
    <2>2. View' = View  BY <2>1 DEF View, Seen
    <2>3. TypeInv'  BY <2>1, <2>2 DEF IInv, TypeInv, TableInv, OpType, OpShape
    <2>4. WholeInv => WholeInv'  BY <2>1, <2>2 DEF WholeInv
    <2>5. OpInv => OpInv'  BY <2>1, <2>2 DEF OpInv, Fresh, Doomed
    <2>. QED  BY <1>1, <2>1, <2>3, <2>4, <2>5 DEF IInv
<1>. QED  BY <1>2, <1>3, <1>4, <1>5, <1>6, <1>7, <1>8 DEF Next, Step

\* The table, the cached sector, the directory sectors and the local variables of
\* a command fit together at every step of fat.c.
THEOREM IInvInvariant == Spec => []IInv
    BY IInvInit, IInvStep, PTL DEF Spec

\* No cluster is in two chains and none that an entry can reach is free, on the
\* disk or in the cached sector (fat_alloc_cluster, fat_extend_chain,
\* fat_delete_file): no chain ends in another or in itself.
THEOREM ChainsAreApart == Spec => []ChainsApart
    BY IInvInvariant, WholeIsApart, PTL

-----------------------------------------------------------------------------
(* Texts that were saved are read back.                                    *)

\* What happened so far leaves texts where they were saved.
Clean == events \cap {"zero", "torn", "dotted", "deep", "overwritten"} = {}

\* The directories that can be entered: mkdir has filled their first sector.
Filled == {p \in DirEntries(disk) : ClusterOf(disk, p) \notin Unfilled}

\* The named entries are files and directories.
Marked(d) == \A p \in Named(d) : d[p[1]][p[2]].attr \in {"dir", "file"}
\* What was saved lies in the chain of its file.
Texts(own, t, d, sv) == \A p \in Places : sv[p] = NoText \/ Holds(own, t, d, p, sv[p])

\* The first clusters of the root and of the directories that have an entry.
Folders(d) == {Root} \cup {ClusterOf(d, p) : p \in DirEntries(d)}

\* A cluster in use that belongs to a directory is in its chain: it is in every set
\* that holds the heads of directories and what follows its members.
Attached(own, t, heads) ==
    \A S \in SUBSET Numbers :
        heads \subseteq S /\ (\A y \in S \cap DOMAIN t : t[y] \in Clusters => t[y] \in S) =>
            \A x \in Numbers : t[x] # 0 /\ own[x] \in heads => x \in S

\* Clusters belong to files and directories; own tells to which.
Vol(own, t, w, d, dirs, sv) ==
    /\ own \in [Numbers -> Numbers]
    /\ Divides(own, t, d) /\ Divides(own, w, d)
    /\ Attached(own, t, Folders(d)) /\ Attached(own, w, Folders(d))
    /\ Marked(d) /\ Upward(own, d, dirs) /\ Texts(own, t, d, sv)

\* The words of a path, the name of an entry, and a path that cd .. has cut to a letter.
Words == Names \cup {Slash, Letter}
NameOf(d, p) == d[p[1]][p[2]].name
Lost(pth) == pth # <<>> /\ pth[1] = Letter

\* The directories A between the root and c, by their depth, and the path that names
\* them, with k slashes in front.
Line(own, t, d, dirs, c, pth, A, depth, k) ==
    /\ A \in SUBSET Clusters /\ depth \in [Clusters -> Nat] /\ c \in A /\ depth[Root] = 0
    /\ \A a \in A : depth[a] <= depth[c]
    /\ k \in {0, 1} /\ pth \in Seq(Words)
    /\ ~ Lost(pth) => Len(pth) = k + 2 * depth[c] /\ (k = 1 => pth[1] = Slash)
    /\ \A a \in A \ {Root} : \E q \in dirs :
          /\ ClusterOf(d, q) = a /\ t[q[1]] # 0
          /\ own[q[1]] \in A /\ depth[a] = depth[own[q[1]]] + 1
          /\ ~ Lost(pth) => /\ NameOf(d, q) \in Names /\ pth[k + 2 * depth[a] - 1] = NameOf(d, q)
                            /\ pth[k + 2 * depth[a]] = Slash
\* Directory c is reached from the root.
Lineage(own, t, d, dirs, c, pth) ==
    \E A, depth, k : Line(own, t, d, dirs, c, pth, A, depth, k)

-----------------------------------------------------------------------------
\* A text stays where it lies while the clusters of its file are neither freed nor
\* written (fat.c:429-455).
LEMMA LiesStill ==
    ASSUME NEW own, NEW t, NEW d, NEW h, NEW n \in Nat, NEW s \in [1 .. n -> Clusters],
           NEW text, NEW m \in 0 .. n, LiesIn(own, t, d, h, s, n, text, m),
           NEW o, NEW u, NEW e,
           \A x \in Clusters : own[x] = h /\ t[x] # 0 => o[x] = h /\ u[x] = t[x] /\ e[x] = d[x]
    PROVE  LiesIn(o, u, e, h, s, n, text, m)
<1>1. \A b \in 1 .. n : s[b] \in Clusters /\ own[s[b]] = h /\ t[s[b]] # 0  BY DEF LiesIn
<1>2. \A b \in 1 .. m : b \in 1 .. n  OBVIOUS
<1>. QED  BY <1>1, <1>2 DEF LiesIn

\* A file holds its text while its entry stays and its clusters do too (fat.c:412).
LEMMA HoldsStill ==
    ASSUME NEW own, NEW t, NEW d, NEW p, NEW text, Holds(own, t, d, p, text),
           NEW o, NEW u, NEW e,
           p \in FileEntries(e), ClusterOf(e, p) = ClusterOf(d, p), u[p[1]] # 0,
           \A q \in FileEntries(e) : o[p[1]] # ClusterOf(e, q),
           \A x \in Clusters : own[x] = ClusterOf(d, p) /\ t[x] # 0 =>
               o[x] = own[x] /\ u[x] = t[x] /\ e[x] = d[x]
    PROVE  Holds(o, u, e, p, text)
<1>1. text.len \in 1 .. MaxBlocks  BY DEF Holds
<1>2. text.len \in Nat /\ text.len \in 0 .. text.len  BY <1>1
<1>3. PICK s \in [1 .. text.len -> Clusters] :
          LiesIn(own, t, d, ClusterOf(d, p), s, text.len, text, text.len)
    BY DEF Holds
<1>4. LiesIn(o, u, e, ClusterOf(e, p), s, text.len, text, text.len)
    BY <1>2, <1>3, LiesStill
<1>. QED  BY <1>1, <1>3, <1>4 DEF Holds

\* A table that is read anew, from the disk or the cached sector, divides the
\* clusters in the same way (fat_load_sector).
LEMMA VolLook ==
    ASSUME NEW own, NEW t, NEW w, NEW d, NEW dirs, NEW sv, Vol(own, t, w, d, dirs, sv),
           NEW u \in {t, w}
    PROVE  Vol(own, t, u, d, dirs, sv)
    BY DEF Vol

\* Entries name clusters.
LEMMA EntryHeads ==
    ASSUME NEW t, NEW d, Whole(t, d)
    PROVE  /\ Root \in Heads(d) /\ Heads(d) \subseteq Clusters /\ \A h \in Heads(d) : t[h] # 0
           /\ \A p \in Named(d) : ClusterOf(d, p) \in Heads(d) /\ ClusterOf(d, p) # Root
           /\ \A p, q \in Named(d) : ClusterOf(d, p) = ClusterOf(d, q) => p = q
           /\ FileEntries(d) \subseteq Named(d) /\ DirEntries(d) \subseteq Named(d)
           /\ Named(d) \subseteq Places
           /\ \A p \in FileEntries(d) : p \notin DirEntries(d)
           /\ Root \in Folders(d) /\ Folders(d) \subseteq Heads(d)
    BY DEF Whole, Heads, Folders, ClusterOf, FileEntries, DirEntries, Named

\* Clusters stay attached when an entry is gone: those of the file it named belong to
\* none (fat_delete_file).
LEMMA AttachedLess ==
    ASSUME NEW own \in [Numbers -> Numbers], NEW t, NEW d, Divides(own, t, d),
           NEW H, H \subseteq Heads(d), Heads(d) \subseteq Clusters, Attached(own, t, H),
           NEW G, G \subseteq H
    PROVE  Attached(own, t, G)
<1>. SUFFICES ASSUME NEW S \in SUBSET Numbers, G \subseteq S,
                     \A y \in S \cap DOMAIN t : t[y] \in Clusters => t[y] \in S,
                     NEW x \in Numbers, t[x] # 0, own[x] \in G
              PROVE  x \in S
    BY DEF Attached
<1>. DEFINE R == S \cup {y \in Numbers : own[y] \notin G}
<1>1. R \in SUBSET Numbers /\ Clusters \subseteq Numbers  BY Numbering
<1>2. H \subseteq R  BY <1>1 DEF Divides
<1>3. ASSUME NEW y \in R \cap DOMAIN t, t[y] \in Clusters PROVE t[y] \in R
    <2>1. own[t[y]] = own[y] /\ t[y] \in Numbers  BY <1>1, <1>3 DEF Divides
    <2>2. CASE y \in S  BY <1>3, <2>2
    <2>3. CASE own[y] \notin G  BY <2>1, <2>3
    <2>. QED  BY <1>3, <2>2, <2>3
<1>. HIDE DEF R
<1>4. x \in R  BY <1>1, <1>2, <1>3 DEF Attached
<1>. QED  BY <1>4 DEF R

\* Clusters stay attached when a cluster of its own gets an entry (fat_write_file,
\* fat_create_dir).
LEMMA AttachedMore ==
    ASSUME NEW own, NEW t, NEW H, Attached(own, t, H),
           NEW h, \A x \in Numbers : own[x] = h => x = h, NEW G, G = H \cup {h}
    PROVE  Attached(own, t, G)
<1>. SUFFICES ASSUME NEW S \in SUBSET Numbers, G \subseteq S,
                     \A y \in S \cap DOMAIN t : t[y] \in Clusters => t[y] \in S,
                     NEW x \in Numbers, t[x] # 0, own[x] \in G
              PROVE  x \in S
    BY DEF Attached
<1>1. CASE own[x] = h  BY <1>1
<1>2. CASE own[x] \in H  BY <1>2 DEF Attached
<1>. QED  BY <1>1, <1>2

\* A place is a sector of a directory and a slot in it (fat.c:95).
LEMMA PlaceParts ==
    ASSUME NEW p \in Places
    PROVE  p[1] \in Numbers /\ p[2] \in Slots /\ p = <<p[1], p[2]>>
    BY DEF Places, Numbers

\* What a cluster c that is taken leaves of the volume.
VolTaken(own, t, d, dirs, sv, c, o, v) ==
    /\ Vol(o, v, v, d, dirs, sv) /\ v[c] = Eoc /\ o[c] = c
    /\ \A x \in Numbers : o[x] = c => x = c
    /\ \A p \in Places : sv[p] # NoText => p[1] # c
    /\ \A x \in Numbers : t[x] # 0 /\ own[x] \in Heads(d) =>
          x # c /\ o[x] = own[x] /\ v[x] = t[x]

\* A free cluster that is marked as taken belongs to itself and to no file
\* (fat_alloc_cluster, fat.c:159).
LEMMA VolTake ==
    ASSUME NEW t \in [Numbers -> FatEntry], NEW u \in [Numbers -> FatEntry], NEW d, Whole(t, d),
           NEW dirs, dirs \subseteq DirEntries(d), NEW sv, NEW own, Vol(own, t, u, d, dirs, sv),
           \A x \in Numbers : t[x] # 0 => u[x] = t[x], Joined(u, Heads(d)),
           NEW c \in Clusters, u[c] = 0,
           NEW o \in [Numbers -> Numbers], NEW v \in [Numbers -> FatEntry],
           \A x \in Numbers : o[x] = IF x = c THEN c ELSE IF own[x] = c THEN 0 ELSE own[x],
           v[c] = Eoc, \A x \in Numbers \ {c} : v[x] = u[x]
    PROVE  VolTaken(own, t, d, dirs, sv, c, o, v)
<1>1. /\ c \in Numbers /\ Clusters \subseteq Numbers /\ 0 \notin Clusters /\ 0 \in Numbers
      /\ Eoc \notin Clusters /\ Eoc # 0
    BY Numbering
<1>2. u \in [Numbers -> FatEntry] /\ \A x \in Numbers : v[x] = IF x = c THEN Eoc ELSE u[x]
    BY <1>1
<1>3. t[c] = 0 /\ c \notin Heads(d) /\ Heads(d) \subseteq Clusters  BY <1>1, EntryHeads
<1>4. own \in [Numbers -> Numbers] /\ \A h \in Heads(d) : own[h] = h
    BY DEF Vol, Divides
<1>5. \A x \in Numbers : u[x] # c  BY <1>1, <1>2 DEF Joined
<1>6. o \in [Numbers -> Numbers] /\ o[c] = c /\ v[c] = Eoc /\ \A x \in Numbers : o[x] = c => x = c
    BY <1>1, <1>2, <1>4
<1>7. \A x \in Numbers : t[x] # 0 /\ own[x] \in Heads(d) => x # c /\ o[x] = own[x] /\ v[x] = t[x]
    BY <1>1, <1>2, <1>3
<1>8. Divides(o, v, d)
    <2>1. ASSUME NEW x \in Numbers, v[x] \in Clusters PROVE o[v[x]] = o[x]
        <3>1. x # c /\ v[x] = u[x] /\ u[x] # c  BY <1>1, <1>2, <1>5, <2>1
        <3>2. own[u[x]] = own[x]  BY <1>2, <2>1, <3>1 DEF Vol, Divides
        <3>3. u[x] \in Numbers  BY <1>1, <2>1, <3>1
        <3>. QED  BY <3>1, <3>2, <3>3
    <2>2. ASSUME NEW h \in Heads(d) PROVE o[h] = h  BY <1>1, <1>3, <1>4
    <2>. QED  BY <1>2, <2>1, <2>2 DEF Divides
<1>9. Upward(o, d, dirs)
    <2>. SUFFICES ASSUME NEW p \in dirs, o[p[1]] \in {Root} \cup {ClusterOf(d, q) : q \in dirs}
                  PROVE  /\ d[ClusterOf(d, p)][2].name = DotDot
                         /\ Parent(d, ClusterOf(d, p)) = o[p[1]]
        BY DEF Upward
    <2>1. p \in Places /\ o[p[1]] \in Heads(d) /\ p[1] \in Numbers
        BY EntryHeads, PlaceParts
    <2>2. o[p[1]] = own[p[1]]  BY <1>1, <1>3, <2>1
    <2>. QED  BY <2>2 DEF Vol, Upward
<1>10. ASSUME NEW p \in Places, Holds(own, t, d, p, sv[p])
       PROVE  p[1] # c /\ Holds(o, v, d, p, sv[p])
    <2>1. p \in FileEntries(d) /\ t[p[1]] # 0 /\ p[1] \in Numbers
        BY <1>10, PlaceParts DEF Holds
    <2>2. p[1] # c /\ v[p[1]] # 0  BY <1>2, <1>3, <2>1
    <2>3. \A q \in FileEntries(d) : o[p[1]] # ClusterOf(d, q)
        <3>1. \A q \in FileEntries(d) : ClusterOf(d, q) \in Clusters /\ own[p[1]] # ClusterOf(d, q)
            BY <1>10, EntryHeads DEF Holds
        <3>. QED  BY <1>1, <2>1, <2>2, <3>1
    <2>4. \A x \in Clusters : own[x] = ClusterOf(d, p) /\ t[x] # 0 => o[x] = own[x] /\ v[x] = t[x]
        BY <1>1, <1>7, <2>1, EntryHeads
    <2>5. Holds(o, v, d, p, sv[p])  BY ONLY <1>10, <2>1, <2>2, <2>3, <2>4, HoldsStill
    <2>. QED  BY <2>2, <2>5
<1>11. Texts(o, v, d, sv) /\ \A p \in Places : sv[p] # NoText => p[1] # c
    BY <1>10 DEF Vol, Texts
<1>12. Attached(o, v, Folders(d))
    <2>. SUFFICES ASSUME NEW S \in SUBSET Numbers, Folders(d) \subseteq S,
                         \A y \in S \cap DOMAIN v : v[y] \in Clusters => v[y] \in S,
                         NEW x \in Numbers, v[x] # 0, o[x] \in Folders(d)
                  PROVE  x \in S
        BY DEF Attached
    <2>1. x # c /\ own[x] = o[x] /\ u[x] = v[x]  BY <1>1, <1>2, <1>3, <1>6, EntryHeads
    <2>2. \A y \in S \cap DOMAIN u : u[y] \in Clusters => u[y] \in S  BY <1>1, <1>2
    <2>3. Attached(own, u, Folders(d))  BY DEF Vol
    <2>. QED  BY <2>1, <2>2, <2>3 DEF Attached
<1>. QED  BY <1>6, <1>7, <1>8, <1>9, <1>11, <1>12 DEF Vol, VolTaken

\* What a cluster c that is linked behind f leaves of the volume.
VolLinked(own, t, d, dirs, sv, f, c, o, v) ==
    /\ Vol(o, v, v, d, dirs, sv) /\ v[c] = Eoc /\ o[c] = own[f] /\ v[f] = c /\ f # c
    /\ \A x \in Numbers : t[x] # 0 /\ own[x] \in Heads(d) =>
          x # c /\ o[x] = own[x] /\ v[x] # 0 /\ (x # f => v[x] = t[x])

\* A cluster linked behind f, the end of a chain, belongs to the owner of f, and the
\* texts of others stay (fat_extend_chain, fat_write_data).
LEMMA VolLink ==
    ASSUME NEW t \in [Numbers -> FatEntry], NEW u \in [Numbers -> FatEntry], NEW d, Whole(t, d),
           NEW dirs, dirs \subseteq DirEntries(d), NEW sv, NEW own, Vol(own, t, u, d, dirs, sv),
           \A x \in Numbers : t[x] # 0 => u[x] = t[x],
           NEW f \in Numbers, own[f] \in Heads(d), own[f] \in Folders(d) => u[f] = Eoc,
           NEW c \in Clusters, c \notin Heads(d), own[c] = c, u[c] = Eoc,
           \A x \in Numbers : u[x] # c, \A i \in Slots : d[c][i].name \notin Names \cup {Blank},
           \A p \in Places : sv[p] # NoText => p[1] # c /\ own[f] # ClusterOf(d, p),
           NEW o \in [Numbers -> Numbers], o[c] = own[f], \A x \in Numbers \ {c} : o[x] = own[x],
           NEW v \in [Numbers -> FatEntry], v[f] = c, \A x \in Numbers \ {f} : v[x] = u[x]
    PROVE  VolLinked(own, t, d, dirs, sv, f, c, o, v)
<1>1. /\ c \in Numbers /\ Clusters \subseteq Numbers /\ 0 \notin Clusters /\ 0 \in Numbers
      /\ Eoc \notin Clusters /\ Eoc # 0 /\ c # 0
    BY Numbering
<1>2. u \in [Numbers -> FatEntry] /\ \A x \in Numbers : v[x] = IF x = f THEN c ELSE u[x]
    OBVIOUS
<1>3. own \in [Numbers -> Numbers] /\ \A h \in Heads(d) : own[h] = h
    BY DEF Vol, Divides
<1>4. /\ \A x \in Numbers : o[x] = IF x = c THEN own[f] ELSE own[x]
      /\ o \in [Numbers -> Numbers] /\ o[c] = own[f]
    BY <1>1, <1>3
<1>5. f # c /\ v[c] = Eoc /\ v[f] = c  BY <1>1, <1>2
<1>6. \A x \in Numbers : t[x] # 0 /\ own[x] \in Heads(d) =>
          x # c /\ o[x] = own[x] /\ v[x] # 0 /\ (x # f => v[x] = t[x])
    BY <1>1, <1>2, <1>4
<1>7. Divides(o, v, d)
    <2>1. ASSUME NEW x \in Numbers, v[x] \in Clusters PROVE o[v[x]] = o[x]
        <3>1. CASE x = f  BY <1>4, <1>5, <3>1
        <3>2. CASE x # f
            <4>1. x # c /\ v[x] = u[x] /\ u[x] # c  BY <1>1, <1>2, <2>1, <3>2
            <4>2. own[u[x]] = own[x]  BY <1>2, <2>1, <4>1 DEF Vol, Divides
            <4>3. u[x] \in Numbers  BY <1>1, <2>1, <4>1
            <4>. QED  BY <1>4, <4>1, <4>2, <4>3
        <3>. QED  BY <3>1, <3>2
    <2>2. ASSUME NEW h \in Heads(d) PROVE o[h] = h
        <3>1. h \in Numbers /\ h # c  BY <1>1, EntryHeads
        <3>. QED  BY <1>3, <1>4, <3>1
    <2>. QED  BY <1>2, <2>1, <2>2 DEF Divides
<1>8. Upward(o, d, dirs)
    <2>. SUFFICES ASSUME NEW p \in dirs, o[p[1]] \in {Root} \cup {ClusterOf(d, q) : q \in dirs}
                  PROVE  /\ d[ClusterOf(d, p)][2].name = DotDot
                         /\ Parent(d, ClusterOf(d, p)) = o[p[1]]
        BY DEF Upward
    <2>1. p \in Places /\ p[1] \in Numbers /\ p[2] \in Slots /\ d[p[1]][p[2]].name \in Names \cup {Blank}
        BY EntryHeads, PlaceParts DEF DirEntries, Named
    <2>2. p[1] # c  BY <2>1
    <2>3. o[p[1]] = own[p[1]]  BY <1>4, <2>1, <2>2
    <2>. QED  BY <2>3 DEF Vol, Upward
<1>9. ASSUME NEW p \in Places, sv[p] # NoText
      PROVE  Holds(o, v, d, p, sv[p])
    <2>1. Holds(own, t, d, p, sv[p])  BY <1>9 DEF Vol, Texts
    <2>2. p \in FileEntries(d) /\ t[p[1]] # 0 /\ p[1] \in Numbers /\ p[1] # c
          /\ own[f] # ClusterOf(d, p)
        BY <1>9, <2>1, PlaceParts DEF Holds
    <2>3. v[p[1]] # 0 /\ o[p[1]] = own[p[1]]  BY <1>1, <1>2, <1>4, <2>2
    <2>4. \A q \in FileEntries(d) : o[p[1]] # ClusterOf(d, q)  BY <2>1, <2>3 DEF Holds
    <2>5. ClusterOf(d, p) \in Heads(d)  BY <2>2, EntryHeads
    <2>6. \A x \in Clusters : own[x] = ClusterOf(d, p) /\ t[x] # 0 => o[x] = own[x] /\ v[x] = t[x]
        BY <1>1, <1>6, <2>2, <2>5
    <2>. QED  BY ONLY <2>1, <2>2, <2>3, <2>4, <2>6, HoldsStill
<1>10. Texts(o, v, d, sv)  BY <1>9 DEF Texts
<1>11. Attached(o, v, Folders(d))
    <2>. SUFFICES ASSUME NEW S \in SUBSET Numbers, Folders(d) \subseteq S,
                         \A y \in S \cap DOMAIN v : v[y] \in Clusters => v[y] \in S,
                         NEW x \in Numbers, v[x] # 0, o[x] \in Folders(d)
                  PROVE  x \in S
        BY DEF Attached
    <2>. DEFINE R == S \cup {y \in Numbers : own[y] = own[f] /\ own[f] \notin Folders(d)}
    <2>1. Attached(own, u, Folders(d)) /\ R \in SUBSET Numbers /\ Folders(d) \subseteq R
        BY DEF Vol
    <2>2. \A y \in R \cap DOMAIN u : u[y] \in Clusters => u[y] \in R
        <3>. SUFFICES ASSUME NEW y \in R \cap DOMAIN u, u[y] \in Clusters PROVE u[y] \in R
            OBVIOUS
        <3>1. own[u[y]] = own[y] /\ u[y] \in Numbers  BY <1>1 DEF Vol, Divides
        <3>2. CASE y \in S /\ y # f  BY <1>2, <3>2
        <3>3. CASE own[y] = own[f] /\ own[f] \notin Folders(d)  BY <3>1, <3>3
        <3>4. CASE y = f  BY <1>1, <3>3, <3>4
        <3>. QED  BY <3>2, <3>3, <3>4
    <2>3. \A z \in Numbers : u[z] # 0 /\ own[z] \in Folders(d) => z \in S
        <3>. SUFFICES ASSUME NEW z \in Numbers, u[z] # 0, own[z] \in Folders(d) PROVE z \in S
            OBVIOUS
        <3>. HIDE DEF R
        <3>1. z \in R  BY <2>1, <2>2 DEF Attached
        <3>. QED  BY <3>1 DEF R
    <2>4. CASE x = c
        <3>1. own[f] \in Folders(d) /\ u[f] # 0  BY <1>1, <1>4, <2>4
        <3>2. f \in S  BY <2>3, <3>1
        <3>. QED  BY <1>1, <1>5, <2>4, <3>2
    <2>5. CASE x # c
        <3>1. own[x] = o[x]  BY <1>4, <2>5
        <3>2. u[x] # 0  BY <1>1, <1>2, <3>1
        <3>. QED  BY <2>3, <3>1, <3>2
    <2>. QED  BY <2>4, <2>5
<1>. QED  BY <1>4, <1>5, <1>6, <1>7, <1>8, <1>10, <1>11 DEF Vol, VolLinked

\* An entry of the table that no file or directory reaches may be freed: only texts
\* of entries in a freed sector are gone (fat_free_chain).
LEMMA VolFree ==
    ASSUME NEW t \in [Numbers -> FatEntry], NEW w, NEW d, Whole(t, d),
           NEW dirs, NEW sv, NEW own, Vol(own, t, w, d, dirs, sv),
           NEW f \in Numbers, own[f] \notin Heads(d),
           NEW v, DOMAIN v = Numbers, v[f] = 0, \A x \in Numbers \ {f} : v[x] = t[x],
           NEW sw, \A p \in Places : sw[p] = NoText \/ (sw[p] = sv[p] /\ p[1] # f)
    PROVE  Vol(own, v, t, d, dirs, sw) /\ Vol(own, v, w, d, dirs, sw)
<1>1. DOMAIN t = Numbers /\ 0 \notin Clusters /\ Clusters \subseteq Numbers
    BY Numbering
<1>2. Divides(own, v, d)  BY <1>1 DEF Vol, Divides
<1>3. ASSUME NEW p \in Places, sw[p] # NoText
      PROVE  Holds(own, v, d, p, sw[p])
    <2>1. sw[p] = sv[p] /\ p[1] # f /\ Holds(own, t, d, p, sv[p])
        BY <1>3 DEF Vol, Texts
    <2>2. p \in FileEntries(d) /\ v[p[1]] # 0  BY <1>1, <2>1, PlaceParts DEF Holds
    <2>3. \A q \in FileEntries(d) : own[p[1]] # ClusterOf(d, q)  BY <2>1 DEF Holds
    <2>4. ClusterOf(d, p) \in Heads(d)  BY <2>2, EntryHeads
    <2>5. \A x \in Clusters : own[x] = ClusterOf(d, p) /\ t[x] # 0 => v[x] = t[x]
        BY <1>1, <2>4
    <2>6. Holds(own, v, d, p, sv[p])  BY ONLY <2>1, <2>2, <2>3, <2>5, HoldsStill
    <2>. QED  BY <2>1, <2>6
<1>4. Texts(own, v, d, sw)  BY <1>3 DEF Texts
<1>5. Attached(own, v, Folders(d))
    <2>. SUFFICES ASSUME NEW S \in SUBSET Numbers, Folders(d) \subseteq S,
                         \A y \in S \cap DOMAIN v : v[y] \in Clusters => v[y] \in S,
                         NEW x \in Numbers, v[x] # 0, own[x] \in Folders(d)
                  PROVE  x \in S
        BY DEF Attached
    <2>0. own[f] \notin Folders(d)  BY EntryHeads
    <2>. DEFINE R == S \cup {y \in Numbers : own[y] = own[f]}
    <2>1. R \in SUBSET Numbers /\ Folders(d) \subseteq R  OBVIOUS
    <2>2. ASSUME NEW y \in R \cap DOMAIN t, t[y] \in Clusters PROVE t[y] \in R
        <3>1. own[t[y]] = own[y] /\ t[y] \in Numbers  BY <1>1, <2>2 DEF Vol, Divides
        <3>2. CASE own[y] = own[f]  BY <3>1, <3>2
        <3>3. CASE y \in S /\ y # f  BY <1>1, <2>2, <3>3
        <3>. QED  BY <2>2, <3>2, <3>3
    <2>. HIDE DEF R
    <2>3. Attached(own, t, Folders(d)) /\ t[x] # 0  BY DEF Vol
    <2>4. x \in R  BY <2>1, <2>2, <2>3 DEF Attached
    <2>. QED  BY <2>0, <2>4 DEF R
<1>. QED  BY <1>2, <1>4, <1>5 DEF Vol

\* Writing sectors so that named entries keep cluster and attribute, and '..' stays,
\* leaves the volume in order if the texts outside of them stay (ata_write_sector).
LEMMA VolWrite ==
    ASSUME NEW t, NEW w, NEW d, NEW e, Whole(t, d), NEW dirs, dirs \subseteq DirEntries(d),
           NEW sv, NEW own, Vol(own, t, w, d, dirs, sv),
           \A p \in Named(e) : /\ p \in Named(d) /\ ClusterOf(e, p) = ClusterOf(d, p)
                               /\ e[p[1]][p[2]].attr = d[p[1]][p[2]].attr,
           NEW ds, ds \subseteq dirs, ds \subseteq Named(e),
           \A p \in ds : d[ClusterOf(d, p)][2].name = DotDot =>
               /\ e[ClusterOf(d, p)][2].name = DotDot
               /\ e[ClusterOf(d, p)][2].cl = d[ClusterOf(d, p)][2].cl,
           NEW sw,
           \A p \in Places :
               \/ sw[p] = NoText \/ Holds(own, t, e, p, sw[p])
               \/ /\ sw[p] = sv[p] /\ p \in Named(e)
                  /\ \A x \in Clusters : own[x] = ClusterOf(d, p) => e[x] = d[x]
    PROVE  Vol(own, t, w, e, ds, sw)
<1>1. Heads(e) \subseteq Heads(d)
    <2>1. \A p \in Named(e) : p \in Named(d) /\ ClusterOf(e, p) = ClusterOf(d, p)
        OBVIOUS
    <2>. QED  BY ONLY <2>1 DEF Heads, ClusterOf
<1>2. Divides(own, t, e) /\ Divides(own, w, e)  BY <1>1 DEF Vol, Divides
<1>3. Marked(e)  BY DEF Vol, Marked
<1>4. Upward(own, e, ds)
    <2>. SUFFICES ASSUME NEW p \in ds, own[p[1]] \in {Root} \cup {ClusterOf(e, q) : q \in ds}
                  PROVE  /\ e[ClusterOf(e, p)][2].name = DotDot
                         /\ Parent(e, ClusterOf(e, p)) = own[p[1]]
        BY DEF Upward
    <2>1. ClusterOf(e, p) = ClusterOf(d, p) /\ p \in dirs  OBVIOUS
    <2>2. own[p[1]] \in {Root} \cup {ClusterOf(d, q) : q \in dirs}  OBVIOUS
    <2>3. d[ClusterOf(d, p)][2].name = DotDot /\ Parent(d, ClusterOf(d, p)) = own[p[1]]
        BY <2>1, <2>2 DEF Vol, Upward
    <2>. QED  BY <2>1, <2>3 DEF Parent
<1>5. FileEntries(e) \subseteq FileEntries(d)  BY DEF FileEntries
<1>6. ASSUME NEW p \in Places, sw[p] # NoText
      PROVE  Holds(own, t, e, p, sw[p])
    <2>. SUFFICES ASSUME sw[p] = sv[p], p \in Named(e),
                         \A x \in Clusters : own[x] = ClusterOf(d, p) => e[x] = d[x]
                  PROVE  Holds(own, t, e, p, sw[p])
        BY <1>6
    <2>1. Holds(own, t, d, p, sv[p])  BY <1>6 DEF Vol, Texts
    <2>2. p \in FileEntries(e) /\ ClusterOf(e, p) = ClusterOf(d, p) /\ t[p[1]] # 0
        BY <2>1 DEF Holds, FileEntries
    <2>3. \A q \in FileEntries(e) : own[p[1]] # ClusterOf(e, q)
        BY <1>5, <2>1 DEF Holds, FileEntries
    <2>4. \A x \in Clusters : own[x] = ClusterOf(d, p) /\ t[x] # 0 => e[x] = d[x]
        OBVIOUS
    <2>5. Holds(own, t, e, p, sv[p])  BY ONLY <2>1, <2>2, <2>3, <2>4, HoldsStill
    <2>. QED  BY <2>5
<1>7. Texts(own, t, e, sw)  BY <1>6 DEF Texts
<1>8. Attached(own, t, Folders(e)) /\ Attached(own, w, Folders(e))
    <2>1. Heads(d) \subseteq Clusters /\ Folders(d) \subseteq Heads(d)  BY EntryHeads
    <2>2. Folders(e) \subseteq Folders(d)  BY DEF Folders, DirEntries
    <2>. QED  BY <2>1, <2>2, AttachedLess DEF Vol
<1>. QED  BY <1>2, <1>3, <1>4, <1>7, <1>8 DEF Vol

\* The same of one slot that is renamed or unlinked (fat_rename, fat_delete_file).
LEMMA VolSlot ==
    ASSUME NEW t, NEW w, NEW d, NEW e, Whole(t, d), NEW dirs, dirs \subseteq DirEntries(d),
           NEW sv, NEW own, Vol(own, t, w, d, dirs, sv),
           NEW c \in Numbers, NEW i \in Slots, NEW s, Written(d, e, c, i, s),
           s.attr = d[c][i].attr, s.cl = d[c][i].cl, d[c][i].name # DotDot,
           s.name \in Names \cup {Blank} => d[c][i].name \in Names \cup {Blank},
           \A q \in FileEntries(d) : own[c] # ClusterOf(d, q),
           NEW ds, ds \subseteq dirs, ds \subseteq Named(e),
           NEW sw, \A p \in Places : sw[p] \in {NoText, sv[p]},
           sw[<<c, i>>] # NoText => s.name \in Names \cup {Blank}
    PROVE  Vol(own, t, w, e, ds, sw)
<1>1. /\ e[c] = [j \in Slots |-> IF j = i THEN s ELSE d[c][j]]
      /\ \A x \in Numbers : x # c => e[x] = d[x]
    BY DEF Written
<1>2. ASSUME NEW p \in Places
      PROVE  \/ e[p[1]][p[2]] = d[p[1]][p[2]] /\ p # <<c, i>>
             \/ p = <<c, i>> /\ p[1] = c /\ p[2] = i /\ e[p[1]][p[2]] = s
    BY <1>1, PlaceParts
<1>3. \A p \in Named(e) : /\ p \in Named(d) /\ ClusterOf(e, p) = ClusterOf(d, p)
                          /\ e[p[1]][p[2]].attr = d[p[1]][p[2]].attr
    BY <1>2 DEF Named, ClusterOf
<1>4. ASSUME NEW p \in ds, d[ClusterOf(d, p)][2].name = DotDot
      PROVE  /\ e[ClusterOf(d, p)][2].name = DotDot
             /\ e[ClusterOf(d, p)][2].cl = d[ClusterOf(d, p)][2].cl
    <2>1. ClusterOf(d, p) \in Numbers /\ 2 \in Slots  BY EntryHeads, Numbering
    <2>2. PICK h \in Numbers : h = ClusterOf(d, p)  BY <2>1
    <2>3. e[h][2] = d[h][2]  BY <1>1, <1>4, <2>1, <2>2
    <2>. QED  BY <1>4, <2>2, <2>3
<1>5. ASSUME NEW p \in Places, sw[p] # NoText
      PROVE  /\ sw[p] = sv[p] /\ p \in Named(e)
             /\ \A x \in Clusters : own[x] = ClusterOf(d, p) => e[x] = d[x]
    <2>1. sw[p] = sv[p] /\ Holds(own, t, d, p, sv[p])  BY <1>5 DEF Vol, Texts
    <2>2. p \in FileEntries(d) /\ p \in Named(d)  BY <2>1, EntryHeads DEF Holds
    <2>3. p \in Named(e)  BY <1>2, <1>5, <2>2 DEF Named
    <2>4. \A x \in Clusters : own[x] = ClusterOf(d, p) => x # c /\ x \in Numbers
        BY <2>2, Numbering
    <2>. QED  BY <1>1, <2>1, <2>3, <2>4
<1>. QED  BY <1>3, <1>4, <1>5, VolWrite

\* A sector is written whole.
Replaced(d, e, c, s) == e[c] = s /\ \A x \in Numbers : x # c => e[x] = d[x]

\* The same of one sector that gets no name: text, or zeros (fat_write_data,
\* fat_extend_dir).
LEMMA VolSector ==
    ASSUME NEW t, NEW w, NEW d, NEW e, Whole(t, d), NEW dirs, dirs \subseteq DirEntries(d),
           NEW sv, NEW own, Vol(own, t, w, d, dirs, sv),
           NEW c \in Numbers, NEW s, Replaced(d, e, c, s),
           \A i \in Slots : s[i].name \notin Names \cup {Blank},
           \A p \in dirs : ClusterOf(d, p) # c,
           \A p \in Places : sv[p] # NoText => own[c] # ClusterOf(d, p),
           NEW ds, ds \subseteq dirs, ds \subseteq Named(e),
           NEW sw, \A p \in Places :
               sw[p] = NoText \/ (sw[p] = sv[p] /\ p[1] # c) \/ Holds(own, t, e, p, sw[p])
    PROVE  Vol(own, t, w, e, ds, sw)
<1>1. e[c] = s /\ \A x \in Numbers : x # c => e[x] = d[x]  BY DEF Replaced
<1>2. ASSUME NEW p \in Named(e)
      PROVE  p \in Named(d) /\ e[p[1]][p[2]] = d[p[1]][p[2]]
    <2>1. p \in Places /\ p[1] \in Numbers /\ p[2] \in Slots /\ e[p[1]][p[2]].name \in Names \cup {Blank}
        BY PlaceParts DEF Named
    <2>2. p[1] # c  BY <1>1, <2>1
    <2>. QED  BY <1>1, <2>1, <2>2 DEF Named
<1>3. \A p \in Named(e) : /\ p \in Named(d) /\ ClusterOf(e, p) = ClusterOf(d, p)
                          /\ e[p[1]][p[2]].attr = d[p[1]][p[2]].attr
    BY <1>2 DEF ClusterOf
<1>4. \A p \in ds : e[ClusterOf(d, p)] = d[ClusterOf(d, p)]
    BY <1>1, EntryHeads, Numbering
<1>5. ASSUME NEW p \in Places, sw[p] # NoText, ~ Holds(own, t, e, p, sw[p])
      PROVE  /\ sw[p] = sv[p] /\ p \in Named(e)
             /\ \A x \in Clusters : own[x] = ClusterOf(d, p) => e[x] = d[x]
    <2>1. sw[p] = sv[p] /\ p[1] # c /\ Holds(own, t, d, p, sv[p])
        BY <1>5 DEF Vol, Texts
    <2>2. p \in Named(d) /\ own[c] # ClusterOf(d, p)
        BY <1>5, <2>1, EntryHeads DEF Holds
    <2>3. p \in Named(e)  BY <1>1, <2>1, <2>2, PlaceParts DEF Named
    <2>4. \A x \in Clusters : own[x] = ClusterOf(d, p) => x # c /\ x \in Numbers
        BY <2>2, Numbering
    <2>. QED  BY <1>1, <2>1, <2>3, <2>4
<1>6. \A p \in Places :
          \/ sw[p] = NoText \/ Holds(own, t, e, p, sw[p])
          \/ /\ sw[p] = sv[p] /\ p \in Named(e)
             /\ \A x \in Clusters : own[x] = ClusterOf(d, p) => e[x] = d[x]
    BY <1>5
<1>7. \A p \in ds : d[ClusterOf(d, p)][2].name = DotDot =>
          /\ e[ClusterOf(d, p)][2].name = DotDot
          /\ e[ClusterOf(d, p)][2].cl = d[ClusterOf(d, p)][2].cl
    BY <1>4
<1>. QED
    BY ONLY Whole(t, d), dirs \subseteq DirEntries(d), Vol(own, t, w, d, dirs, sv),
        ds \subseteq dirs, ds \subseteq Named(e), <1>3, <1>6, <1>7, VolWrite

\* What an entry s that is written into a slot leaves of the volume.
VolEntered(own, t, w, d, e, dirs, sv, c, i, s) ==
    /\ Vol(own, t, w, e, dirs, sv) /\ dirs \subseteq DirEntries(e)
    /\ \A p \in Named(e) : \/ p = <<c, i>> /\ p[1] = c /\ p[2] = i /\ e[p[1]][p[2]] = s
                           \/ p \in Named(d) /\ e[p[1]][p[2]] = d[p[1]][p[2]]
    /\ \A p \in Named(d) : p \in Named(e) /\ e[p[1]][p[2]] = d[p[1]][p[2]]

\* A new entry for a cluster that is taken and not named yet (fat_write_file,
\* fat_create_dir).
LEMMA VolEntry ==
    ASSUME NEW t, NEW w, NEW d, NEW e, Whole(t, d), NEW dirs, dirs \subseteq DirEntries(d),
           NEW sv, NEW own, Vol(own, t, w, d, dirs, sv),
           NEW c \in Numbers, NEW i \in Slots, NEW s, Written(d, e, c, i, s),
           d[c][i].name \in {Nul, Deleted}, s.attr \in {"dir", "file"},
           NEW h \in Clusters, s.cl = h, h \notin Heads(d), \A x \in Numbers : own[x] = h <=> x = h,
           \A p \in Places : sv[p] # NoText => p[1] # h,
           \A q \in FileEntries(d) : own[c] # ClusterOf(d, q)
    PROVE  VolEntered(own, t, w, d, e, dirs, sv, c, i, s)
<1>1. /\ e[c] = [j \in Slots |-> IF j = i THEN s ELSE d[c][j]]
      /\ \A x \in Numbers : x # c => e[x] = d[x]
    BY DEF Written
<1>2. ASSUME NEW p \in Places
      PROVE  \/ e[p[1]][p[2]] = d[p[1]][p[2]] /\ p # <<c, i>>
             \/ p = <<c, i>> /\ p[1] = c /\ p[2] = i /\ e[p[1]][p[2]] = s
    BY <1>1, PlaceParts
<1>3. d[c][i].name \notin Names \cup {Blank, DotDot}
    <2>1. Names \cap {Nul, Deleted, Blank, Dot, DotDot, Letter, Slash, "text"} = {}
        BY Wording
    <2>. QED  BY <2>1 DEF Nul, Deleted, Blank, DotDot
<1>4. \A p \in Named(e) : \/ p = <<c, i>> /\ p[1] = c /\ p[2] = i /\ e[p[1]][p[2]] = s
                          \/ p \in Named(d) /\ e[p[1]][p[2]] = d[p[1]][p[2]]
    BY <1>2 DEF Named
<1>5. \A p \in Named(d) : p \in Named(e) /\ e[p[1]][p[2]] = d[p[1]][p[2]]
    BY <1>2, <1>3 DEF Named
<1>6. dirs \subseteq DirEntries(e) /\ FileEntries(d) \subseteq FileEntries(e)
    BY <1>5 DEF DirEntries, FileEntries
<1>7. \A p \in Named(d) : ClusterOf(e, p) = ClusterOf(d, p)  BY <1>5 DEF ClusterOf
<1>8. \A p \in Named(e) : \/ p \in Named(d) /\ ClusterOf(e, p) = ClusterOf(d, p)
                          \/ ClusterOf(e, p) = h
    BY <1>4 DEF ClusterOf
<1>9. Heads(e) \subseteq Heads(d) \cup {h}  BY <1>8 DEF Heads, ClusterOf
<1>10. h \in Numbers  BY Numbering
<1>11. Divides(own, t, e) /\ Divides(own, w, e)  BY <1>9, <1>10 DEF Vol, Divides
<1>12. Marked(e)  BY <1>4 DEF Vol, Marked
<1>13. Upward(own, e, dirs)
    <2>. SUFFICES ASSUME NEW p \in dirs, own[p[1]] \in {Root} \cup {ClusterOf(e, q) : q \in dirs}
                  PROVE  /\ e[ClusterOf(e, p)][2].name = DotDot
                         /\ Parent(e, ClusterOf(e, p)) = own[p[1]]
        BY DEF Upward
    <2>1. dirs \subseteq Named(d) /\ ClusterOf(d, p) \in Numbers /\ 2 \in Slots
        BY EntryHeads, Numbering
    <2>2. ClusterOf(e, p) = ClusterOf(d, p)  BY <1>7, <2>1
    <2>3. own[p[1]] \in {Root} \cup {ClusterOf(d, q) : q \in dirs}  BY <1>7, <2>1
    <2>4. d[ClusterOf(d, p)][2].name = DotDot /\ Parent(d, ClusterOf(d, p)) = own[p[1]]
        BY <2>3 DEF Vol, Upward
    <2>5. PICK g \in Numbers : g = ClusterOf(d, p)  BY <2>1
    <2>6. e[g][2] = d[g][2]  BY <1>1, <1>3, <2>1, <2>4, <2>5
    <2>. QED  BY <2>2, <2>4, <2>5, <2>6 DEF Parent
<1>14. ASSUME NEW p \in Places, sv[p] # NoText
       PROVE  Holds(own, t, e, p, sv[p])
    <2>1. Holds(own, t, d, p, sv[p])  BY <1>14 DEF Vol, Texts
    <2>2. p \in FileEntries(d) /\ t[p[1]] # 0 /\ p \in Named(d) /\ p[1] \in Numbers /\ p[1] # h
        BY <1>14, <2>1, EntryHeads, PlaceParts DEF Holds
    <2>3. p \in FileEntries(e) /\ ClusterOf(e, p) = ClusterOf(d, p)  BY <1>6, <1>7, <2>2
    <2>4. ASSUME NEW q \in FileEntries(e) PROVE own[p[1]] # ClusterOf(e, q)
        <3>1. q \in Named(e)  BY DEF FileEntries
        <3>2. CASE ClusterOf(e, q) = h  BY <2>2, <3>2
        <3>3. CASE q \in Named(d) /\ ClusterOf(e, q) = ClusterOf(d, q)
            <4>1. q \in FileEntries(d)  BY <1>5, <3>3 DEF FileEntries
            <4>. QED  BY <2>1, <3>3, <4>1 DEF Holds
        <3>. QED  BY <1>8, <3>1, <3>2, <3>3
    <2>5. \A x \in Clusters : own[x] = ClusterOf(d, p) /\ t[x] # 0 => e[x] = d[x]
        BY <1>1, <2>2, Numbering
    <2>. QED  BY ONLY <2>1, <2>2, <2>3, <2>4, <2>5, HoldsStill
<1>15. Texts(own, t, e, sv)  BY <1>14 DEF Texts
<1>16. Attached(own, t, Folders(e)) /\ Attached(own, w, Folders(e))
    <2>1. \A p \in DirEntries(d) : p \in DirEntries(e) /\ ClusterOf(e, p) = ClusterOf(d, p)
        BY <1>5, <1>7 DEF DirEntries
    <2>2. \A p \in DirEntries(e) : p \in DirEntries(d) \/ ClusterOf(e, p) = h
        BY <1>4 DEF DirEntries, ClusterOf
    <2>3. Folders(d) \subseteq Folders(e) /\ Folders(e) \subseteq Folders(d) \cup {h}
        BY <2>1, <2>2 DEF Folders
    <2>4. Folders(e) \in {Folders(d), Folders(d) \cup {h}}
        <3>1. CASE h \in Folders(e)  BY ONLY <2>3, <3>1
        <3>2. CASE h \notin Folders(e)
            <4>1. Folders(e) = Folders(d)  BY ONLY <2>3, <3>2
            <4>. QED  BY ONLY <4>1
        <3>. QED  BY ONLY <3>1, <3>2
    <2>. QED  BY <2>4, AttachedMore DEF Vol
<1>. QED  BY <1>4, <1>5, <1>6, <1>11, <1>12, <1>13, <1>15, <1>16 DEF Vol, VolEntered

\* The first sector of a new directory: '..' names the directory its entry is in
\* (fat_create_dir).
LEMMA VolDots ==
    ASSUME NEW t, NEW w, NEW d, NEW e, Whole(t, d), NEW dirs, dirs \subseteq DirEntries(d),
           NEW sv, NEW own, Vol(own, t, w, d, dirs, sv),
           NEW h \in Clusters, NEW g \in Clusters, Replaced(d, e, h, DirSector(h, g)),
           own[h] = h, \A p \in dirs : ClusterOf(d, p) # h, \A x \in Numbers : own[x] = h => x = h,
           \A p \in Places : sv[p] # NoText => p[1] # h,
           \A q \in Named(d) : ClusterOf(d, q) = h => q \in DirEntries(d) /\ own[q[1]] = g,
           NEW ds, ds \subseteq Named(e),
           \A p \in ds : p \in dirs \/ (p \in Named(d) /\ ClusterOf(d, p) = h)
    PROVE  Vol(own, t, w, e, ds, sv)
<1>1. /\ h \in Numbers /\ g \in Numbers /\ g # 0 /\ 2 \in Slots /\ Clusters \subseteq Numbers
      /\ LastCluster \in Nat
    BY Numbering
<1>2. e[h] = DirSector(h, g) /\ \A x \in Numbers : x # h => e[x] = d[x]  BY DEF Replaced
<1>3. \A i \in Slots : DirSector(h, g)[i].name \notin Names \cup {Blank}
    BY <1>1, NewSectors
<1>4. DirSector(h, g)[2].name = DotDot /\ DirSector(h, g)[2].cl = g
    BY <1>1 DEF DirSector, EmptySector, Slot
<1>5. ASSUME NEW p \in Named(e)
      PROVE  p \in Named(d) /\ e[p[1]][p[2]] = d[p[1]][p[2]] /\ p[1] # h
    <2>1. p \in Places /\ p[1] \in Numbers /\ p[2] \in Slots /\ e[p[1]][p[2]].name \in Names \cup {Blank}
        BY PlaceParts DEF Named
    <2>2. p[1] # h  BY <1>2, <1>3, <2>1
    <2>. QED  BY <1>2, <2>1, <2>2 DEF Named
<1>6. \A p \in Named(e) : ClusterOf(e, p) = ClusterOf(d, p)  BY <1>5 DEF ClusterOf
<1>7. Heads(e) \subseteq Heads(d)  BY <1>5 DEF Heads
<1>8. Divides(own, t, e) /\ Divides(own, w, e)  BY <1>7 DEF Vol, Divides
<1>9. Marked(e) /\ FileEntries(e) \subseteq FileEntries(d)
    BY <1>5 DEF Vol, Marked, FileEntries
<1>10. Upward(own, e, ds)
    <2>. SUFFICES ASSUME NEW p \in ds, own[p[1]] \in {Root} \cup {ClusterOf(e, q) : q \in ds}
                  PROVE  /\ e[ClusterOf(e, p)][2].name = DotDot
                         /\ Parent(e, ClusterOf(e, p)) = own[p[1]]
        BY DEF Upward
    <2>1. p \in Named(d) /\ p[1] # h /\ ClusterOf(e, p) = ClusterOf(d, p)  BY <1>5, <1>6
    <2>2. CASE ClusterOf(d, p) = h  BY <1>1, <1>2, <1>4, <2>1, <2>2 DEF Parent
    <2>3. CASE ClusterOf(d, p) # h
        <3>1. p \in dirs /\ p[1] \in Numbers /\ ClusterOf(d, p) \in Numbers
            BY <1>1, <2>1, <2>3, EntryHeads, PlaceParts
        <3>2. own[p[1]] # h  BY <2>1, <3>1
        <3>3. own[p[1]] \in {Root} \cup {ClusterOf(d, q) : q \in dirs}
            <4>1. ASSUME NEW q \in ds, own[p[1]] = ClusterOf(e, q)
                  PROVE  q \in dirs /\ own[p[1]] = ClusterOf(d, q)
                BY <1>6, <3>2, <4>1
            <4>. QED  BY <4>1
        <3>4. d[ClusterOf(d, p)][2].name = DotDot /\ Parent(d, ClusterOf(d, p)) = own[p[1]]
            BY <3>1, <3>3 DEF Vol, Upward
        <3>5. e[ClusterOf(d, p)] = d[ClusterOf(d, p)]  BY <1>2, <2>3, <3>1
        <3>. QED  BY <2>1, <3>4, <3>5 DEF Parent
    <2>. QED  BY <2>2, <2>3
<1>11. ASSUME NEW p \in Places, sv[p] # NoText
       PROVE  Holds(own, t, e, p, sv[p])
    <2>1. Holds(own, t, d, p, sv[p])  BY <1>11 DEF Vol, Texts
    <2>2. /\ p \in FileEntries(d) /\ t[p[1]] # 0 /\ p \in Named(d) /\ p[1] \in Numbers /\ p[2] \in Slots
          /\ p[1] # h
        BY <1>11, <2>1, EntryHeads, PlaceParts DEF Holds
    <2>3. p \in FileEntries(e) /\ ClusterOf(e, p) = ClusterOf(d, p)
        BY <1>2, <2>2 DEF FileEntries, Named, ClusterOf
    <2>4. \A q \in FileEntries(e) : own[p[1]] # ClusterOf(e, q)
        BY <1>6, <1>9, <2>1 DEF Holds, FileEntries
    <2>5. ClusterOf(d, p) # h  BY <2>2, EntryHeads
    <2>7. \A x \in Clusters : own[x] = ClusterOf(d, p) /\ t[x] # 0 => e[x] = d[x]
        BY <1>1, <1>2, <2>5
    <2>. QED  BY ONLY <2>1, <2>2, <2>3, <2>4, <2>7, HoldsStill
<1>12. Texts(own, t, e, sv)  BY <1>11 DEF Texts
<1>13. Attached(own, t, Folders(e)) /\ Attached(own, w, Folders(e))
    <2>1. Heads(d) \subseteq Clusters /\ Folders(d) \subseteq Heads(d)  BY EntryHeads
    <2>2. Folders(e) \subseteq Folders(d)  BY <1>5, <1>6 DEF Folders, DirEntries
    <2>. QED  BY <2>1, <2>2, AttachedLess DEF Vol
<1>. QED  BY <1>8, <1>9, <1>10, <1>12, <1>13 DEF Vol

-----------------------------------------------------------------------------
\* The directories above c start with the root or have an entry (fat_open_dir).
LEMMA LineageMembers ==
    ASSUME NEW own, NEW t, NEW d, NEW dirs, NEW c, NEW pth, NEW A, NEW depth, NEW k,
           Line(own, t, d, dirs, c, pth, A, depth, k), NEW a \in A
    PROVE  a \in {Root} \cup {ClusterOf(d, x) : x \in dirs}
<1>1. CASE a # Root
    <2>1. PICK q \in dirs : ClusterOf(d, q) = a  BY <1>1 DEF Line
    <2>. QED  BY <2>1
<1>. QED  BY <1>1

\* A directory stays below the root while no directory above it loses its entry, its
\* name or the sector it is in (rm and mv do nothing to the working directory's).
LEMMA LineageStays ==
    ASSUME NEW own, NEW t, NEW d, NEW dirs, NEW c, NEW pth, Lineage(own, t, d, dirs, c, pth),
           NEW o, NEW u, NEW e, NEW ds,
           \A q \in dirs : t[q[1]] # 0 /\ own[q[1]] \in {Root} \cup {ClusterOf(d, x) : x \in dirs} =>
               /\ q \in ds /\ ClusterOf(e, q) = ClusterOf(d, q) /\ NameOf(e, q) = NameOf(d, q)
               /\ u[q[1]] # 0 /\ o[q[1]] = own[q[1]]
    PROVE  Lineage(o, u, e, ds, c, pth)
<1>1. PICK A, depth, k : Line(own, t, d, dirs, c, pth, A, depth, k)  BY DEF Lineage
<1>2. ASSUME NEW a \in A \ {Root}
      PROVE  \E q \in ds :
                /\ ClusterOf(e, q) = a /\ u[q[1]] # 0
                /\ o[q[1]] \in A /\ depth[a] = depth[o[q[1]]] + 1
                /\ ~ Lost(pth) => /\ NameOf(e, q) \in Names
                                  /\ pth[k + 2 * depth[a] - 1] = NameOf(e, q)
                                  /\ pth[k + 2 * depth[a]] = Slash
    <2>1. PICK q \in dirs : /\ ClusterOf(d, q) = a /\ t[q[1]] # 0
                            /\ own[q[1]] \in A /\ depth[a] = depth[own[q[1]]] + 1
                            /\ ~ Lost(pth) => /\ NameOf(d, q) \in Names
                                              /\ pth[k + 2 * depth[a] - 1] = NameOf(d, q)
                                              /\ pth[k + 2 * depth[a]] = Slash
        BY <1>1 DEF Line
    <2>2. own[q[1]] \in {Root} \cup {ClusterOf(d, x) : x \in dirs}
        BY <1>1, <2>1, LineageMembers
    <2>3. /\ q \in ds /\ ClusterOf(e, q) = ClusterOf(d, q) /\ NameOf(e, q) = NameOf(d, q)
          /\ u[q[1]] # 0 /\ o[q[1]] = own[q[1]]
        BY <2>1, <2>2
    <2>. QED  BY <2>1, <2>3
<1>3. Line(o, u, e, ds, c, pth, A, depth, k)  BY <1>1, <1>2 DEF Line
<1>. QED  BY <1>3 DEF Lineage

\* The last of a lineage is a directory itself (fat_open_dir).
LEMMA LineageEnd ==
    ASSUME NEW own, NEW t, NEW d, NEW dirs, NEW c, NEW pth, Lineage(own, t, d, dirs, c, pth)
    PROVE  c \in Clusters /\ c \in {Root} \cup {ClusterOf(d, x) : x \in dirs}
<1>1. PICK A, depth, k : Line(own, t, d, dirs, c, pth, A, depth, k)  BY DEF Lineage
<1>2. c \in A /\ c \in Clusters  BY <1>1 DEF Line
<1>. QED  BY <1>1, <1>2, LineageMembers

\* The root is below the root (fat_cd_root, fat_init).
LEMMA LineageRoot ==
    ASSUME NEW own, NEW t, NEW d, NEW dirs, NEW pth, pth = <<>> \/ pth = <<Slash>>
    PROVE  Lineage(own, t, d, dirs, Root, pth)
<1>1. PICK depth : depth = [x \in Clusters |-> 0]  OBVIOUS
<1>2. PICK k \in {0, 1} : Len(pth) = k /\ (k = 1 => pth[1] = Slash)  OBVIOUS
<1>3. {Root} \in SUBSET Clusters /\ depth \in [Clusters -> Nat] /\ depth[Root] = 0
    BY <1>1, Numbering
<1>4. Len(pth) = k + 2 * depth[Root]  BY <1>2, <1>3
<1>5. <<>> \in Seq(Words) /\ <<Slash>> \in Seq(Words)  BY DEF Words
<1>6. pth \in Seq(Words)  BY <1>5
<1>7. Line(own, t, d, dirs, Root, pth, {Root}, depth, k)
    BY <1>2, <1>3, <1>4, <1>6 DEF Line
<1>. QED  BY <1>7 DEF Lineage

\* cd into a directory adds it to the lineage and to the path (fat_open_dir).
LEMMA LineageDown ==
    ASSUME NEW own, NEW t, NEW d, Whole(t, d), NEW dirs, dirs \subseteq DirEntries(d),
           NEW c, NEW pth, Lineage(own, t, d, dirs, c, pth),
           NEW q \in dirs, t[q[1]] # 0, own[q[1]] = c, NEW n \in Names, NameOf(d, q) = n
    PROVE  Lineage(own, t, d, dirs, ClusterOf(d, q), pth \o <<n, Slash>>)
<1>1. PICK A, depth, k : Line(own, t, d, dirs, c, pth, A, depth, k)  BY DEF Lineage
<1>2. PICK h \in Clusters : h = ClusterOf(d, q) /\ h # Root  BY EntryHeads
<1>3. /\ A \in SUBSET Clusters /\ depth \in [Clusters -> Nat] /\ c \in A /\ depth[Root] = 0
      /\ \A a \in A : depth[a] <= depth[c]
      /\ k \in {0, 1} /\ pth \in Seq(Words)
      /\ ~ Lost(pth) => Len(pth) = k + 2 * depth[c] /\ (k = 1 => pth[1] = Slash)
    BY <1>1 DEF Line
<1>4. \A a \in A \ {Root} : \E r \in dirs :
          /\ ClusterOf(d, r) = a /\ t[r[1]] # 0
          /\ own[r[1]] \in A /\ depth[a] = depth[own[r[1]]] + 1
          /\ ~ Lost(pth) => /\ NameOf(d, r) \in Names /\ pth[k + 2 * depth[a] - 1] = NameOf(d, r)
                            /\ pth[k + 2 * depth[a]] = Slash
    BY <1>1 DEF Line
<1>5. h \notin A
    <2>. SUFFICES ASSUME h \in A PROVE FALSE  OBVIOUS
    <2>1. PICK r \in dirs : ClusterOf(d, r) = h /\ depth[h] = depth[own[r[1]]] + 1
        BY <1>2, <1>4
    <2>2. r = q  BY <1>2, <2>1, EntryHeads
    <2>3. depth[h] = depth[c] + 1 /\ depth[h] <= depth[c] /\ depth[c] \in Nat /\ depth[h] \in Nat
        BY <1>3, <2>1, <2>2
    <2>. QED  BY <2>3
<1>. DEFINE B == A \cup {h}
            deep == [depth EXCEPT ![h] = depth[c] + 1]
            long == pth \o <<n, Slash>>
<1>6. /\ deep \in [Clusters -> Nat] /\ deep[h] = depth[c] + 1 /\ depth[c] \in Nat
      /\ deep[Root] = 0 /\ \A a \in A : deep[a] = depth[a] /\ depth[a] \in Nat
    BY <1>2, <1>3, <1>5, Numbering
<1>7. /\ long \in Seq(Words) /\ Len(long) = Len(pth) + 2 /\ Len(pth) \in Nat
      /\ \A i \in 1 .. Len(pth) : long[i] = pth[i]
      /\ long[Len(pth) + 1] = n /\ long[Len(pth) + 2] = Slash
    <2>1. pth \in Seq(Words) /\ <<n, Slash>> \in Seq(Words)  BY <1>3 DEF Words
    <2>. QED  BY <2>1
<1>8. ~ Lost(long) =>
          /\ ~ Lost(pth) /\ Len(pth) = k + 2 * depth[c]
          /\ Len(long) = k + 2 * deep[h] /\ (k = 1 => long[1] = Slash)
    <2>1. Lost(pth) => Lost(long)  BY <1>3, <1>7 DEF Lost
    <2>2. ASSUME ~ Lost(long), k = 1 PROVE long[1] = Slash
        <3>1. Len(pth) = 1 + 2 * depth[c] /\ pth[1] = Slash  BY <1>3, <2>1, <2>2
        <3>2. 1 \in 1 .. Len(pth)  BY <1>6, <1>7, <3>1
        <3>. QED  BY <1>7, <3>1, <3>2
    <2>3. \A m, x, y \in Nat : m = k + 2 * x /\ y = x + 1 => m + 2 = k + 2 * y  BY <1>3
    <2>. QED  BY <1>3, <1>6, <1>7, <2>1, <2>2, <2>3
<1>. HIDE DEF deep, long
<1>9. \A a \in B : deep[a] <= deep[h]  BY <1>3, <1>6
<1>10. ASSUME NEW a \in B \ {Root}
       PROVE  \E r \in dirs :
                 /\ ClusterOf(d, r) = a /\ t[r[1]] # 0
                 /\ own[r[1]] \in B /\ deep[a] = deep[own[r[1]]] + 1
                 /\ ~ Lost(long) => /\ NameOf(d, r) \in Names
                                    /\ long[k + 2 * deep[a] - 1] = NameOf(d, r)
                                    /\ long[k + 2 * deep[a]] = Slash
    <2>1. CASE a = h
        <3>1. deep[h] = deep[c] + 1  BY <1>3, <1>6
        <3>2. ~ Lost(long) => k + 2 * deep[h] - 1 = Len(pth) + 1 /\ k + 2 * deep[h] = Len(pth) + 2
            <4>1. PICK x \in Nat, y \in Nat, l \in Nat :
                      x = depth[c] /\ y = deep[h] /\ y = x + 1 /\ l = Len(pth)
                BY <1>6, <1>7, <3>1
            <4>2. ~ Lost(long) => l = k + 2 * x  BY <1>8, <4>1
            <4>3. k \in Int /\ \A z \in Nat : l = k + 2 * z /\ y = z + 1 => k + 2 * y - 1 = l + 1 /\ k + 2 * y = l + 2
                BY <1>3
            <4>. QED  BY ONLY <4>1, <4>2, <4>3
        <3>. QED  BY <1>2, <1>3, <1>7, <2>1, <3>1, <3>2
    <2>2. CASE a \in A \ {Root}
        <3>1. PICK r \in dirs :
                 /\ ClusterOf(d, r) = a /\ t[r[1]] # 0
                 /\ own[r[1]] \in A /\ depth[a] = depth[own[r[1]]] + 1
                 /\ ~ Lost(pth) => /\ NameOf(d, r) \in Names
                                   /\ pth[k + 2 * depth[a] - 1] = NameOf(d, r)
                                   /\ pth[k + 2 * depth[a]] = Slash
            BY <1>4, <2>2
        <3>2. deep[a] = depth[a] /\ deep[a] = deep[own[r[1]]] + 1 /\ deep[a] \in Nat /\ deep[a] >= 1
              /\ deep[a] <= depth[c]
            BY <1>3, <1>6, <2>2, <3>1
        <3>3. ASSUME ~ Lost(long)
              PROVE  k + 2 * deep[a] - 1 \in 1 .. Len(pth) /\ k + 2 * deep[a] \in 1 .. Len(pth)
            <4>1. PICK z, m \in Nat : z = deep[a] /\ m = depth[c]  BY <1>6, <3>2
            <4>2. z >= 1 /\ z <= m /\ Len(pth) = k + 2 * m /\ k \in {0, 1}
                BY <1>3, <1>8, <3>2, <3>3, <4>1
            <4>3. k + 2 * z - 1 \in 1 .. Len(pth) /\ k + 2 * z \in 1 .. Len(pth)
                BY ONLY <4>2, z \in Nat, m \in Nat
            <4>. QED  BY <4>1, <4>3
        <3>4. ASSUME ~ Lost(long)
              PROVE  /\ long[k + 2 * deep[a] - 1] = pth[k + 2 * deep[a] - 1]
                     /\ long[k + 2 * deep[a]] = pth[k + 2 * deep[a]]
            BY <1>7, <3>3, <3>4
        <3>. QED  BY <1>8, <3>1, <3>2, <3>4
    <2>. QED  BY <2>1, <2>2
<1>11. B \in SUBSET Clusters /\ h \in B  BY <1>2, <1>3
<1>12. Line(own, t, d, dirs, h, long, B, deep, k)
    BY <1>3, <1>6, <1>7, <1>8, <1>9, <1>10, <1>11 DEF Line
<1>. HIDE DEF B
<1>13. Lineage(own, t, d, dirs, h, long)  BY <1>12 DEF Lineage
<1>. QED  BY <1>2, <1>13 DEF long

\* A lineage without a path that shows it (fat_cd_back).
LEMMA LineageLost ==
    ASSUME NEW own, NEW t, NEW d, NEW dirs, NEW c, NEW pth, Lineage(own, t, d, dirs, c, pth)
    PROVE  Lineage(own, t, d, dirs, c, <<Letter>>)
<1>1. PICK A, depth, k : Line(own, t, d, dirs, c, pth, A, depth, k)  BY DEF Lineage
<1>2. Lost(<<Letter>>) /\ <<Letter>> \in Seq(Words)  BY DEF Lost, Words
<1>3. Line(own, t, d, dirs, c, <<Letter>>, A, depth, k)  BY <1>1, <1>2 DEF Line
<1>. QED  BY <1>3 DEF Lineage

\* cd .. takes the last name off the path, or leaves one letter (fat_cd_back).
LEMMA CutPathShorter ==
    ASSUME path \in Seq(Words), NEW j \in Nat, Len(path) = j + 2, path[j + 1] \in Names,
           j # 0 => path[j] = Slash
    PROVE  /\ CutPath \in Seq(Words)
           /\ Lost(CutPath) \/ (Len(CutPath) = j /\ \A i \in 1 .. j : CutPath[i] = path[i])
<1>. DEFINE slashes == {i \in 1 .. Len(path) - 1 : path[i] = Slash}
<1>1. Slash \notin Names  BY VolumeAssumption, Zenon
<1>2. Len(path) - 1 = j + 1 /\ j + 1 \notin slashes /\ slashes \in SUBSET (1 .. j)
    BY <1>1
<1>3. CASE j # 0
    <2>1. j \in slashes /\ \A i \in slashes : i <= j  BY <1>2, <1>3
    <2>2. Max(slashes) = j
        <3>. HIDE DEF slashes
        <3>1. \A x \in slashes : (\A i \in slashes : x >= i) => x = j  BY <1>2, <2>1
        <3>2. \E x \in slashes : \A i \in slashes : x >= i  BY <1>2, <2>1
        <3>. QED  BY <3>1, <3>2 DEF Max
    <2>3. CutPath = SubSeq(path, 1, j)  BY <2>1, <2>2 DEF CutPath
    <2>. QED  BY <2>3
<1>4. CASE j = 0
    <2>1. slashes = {} /\ path[1] # Slash /\ Len(path) # 0  BY <1>1, <1>2, <1>4
    <2>2. CutPath = <<Letter>>  BY <2>1 DEF CutPath
    <2>. QED  BY <2>2 DEF Lost, Words
<1>. QED  BY <1>3, <1>4

\* A path that starts with the letter does so until cd / or a restart (fat_cd_back).
LEMMA CutPathLost ==
    ASSUME path \in Seq(Words), Lost(path)
    PROVE  CutPath \in Seq(Words) /\ Lost(CutPath)
<1>. DEFINE slashes == {i \in 1 .. Len(path) - 1 : path[i] = Slash}
<1>1. path[1] = Letter /\ Letter # Slash /\ Len(path) \in Nat \ {0}
    BY DEF Lost, Letter, Slash
<1>2. CASE slashes # {}
    <2>1. slashes \in SUBSET (0 .. Len(path))  OBVIOUS
    <2>. HIDE DEF slashes
    <2>2. PICK m \in slashes : \A i \in slashes : i <= m
        BY <1>1, <1>2, <2>1, GreatestElement
    <2>3. Max(slashes) \in slashes
        <3>1. \A i \in slashes : m >= i  BY <2>1, <2>2
        <3>. QED  BY <2>2, <3>1 DEF Max
    <2>. USE DEF slashes
    <2>4. PICK g \in 1 .. Len(path) - 1 : g = Max(slashes)  BY <2>3
    <2>5. CutPath = SubSeq(path, 1, g)  BY <1>2, <2>4 DEF CutPath
    <2>. HIDE DEF slashes
    <2>6. /\ CutPath \in Seq(Words) /\ Len(CutPath) = g /\ g \in Nat \ {0}
          /\ CutPath[1] = path[1]
        <3>1. g \in Nat \ {0} /\ g <= Len(path) /\ \A i \in 1 .. g : i \in 1 .. Len(path)
            BY <1>1
        <3>. QED  BY <2>5, <3>1
    <2>7. CutPath # <<>>  BY <2>6
    <2>. QED  BY <1>1, <2>6, <2>7 DEF Lost
<1>3. CASE slashes = {}
    <2>1. CutPath = <<Letter>>  BY <1>1, <1>3 DEF CutPath
    <2>. QED  BY <2>1 DEF Lost, Words
<1>. QED  BY <1>2, <1>3

\* The path cut is pth without its last name, or starts with the letter.
Cuts(pth, cut) ==
    /\ Lost(pth) => cut \in Seq(Words) /\ Lost(cut)
    /\ \A j \in Nat :
          Len(pth) = j + 2 /\ pth[j + 1] \in Names /\ (j # 0 => pth[j] = Slash) =>
             /\ cut \in Seq(Words)
             /\ Lost(cut) \/ (Len(cut) = j /\ \A i \in 1 .. j : cut[i] = pth[i])

\* That is what fat_cd_back makes of the path.
LEMMA PathIsCut ==
    /\ path \in Seq(Words) => Cuts(path, CutPath)
    /\ Cuts(<<Letter>>, <<Letter>>)
<1>1. path \in Seq(Words) => Cuts(path, CutPath)
    BY CutPathShorter, CutPathLost DEF Cuts
<1>2. Lost(<<Letter>>) /\ <<Letter>> \in Seq(Words)  BY DEF Lost, Words
<1>. QED  BY <1>1, <1>2 DEF Cuts

\* cd .. takes the last one off: '..' names the directory above (fat_cd_back).
LEMMA LineageUp ==
    ASSUME NEW own, NEW t, NEW d, Whole(t, d), NEW dirs, dirs \subseteq DirEntries(d),
           Upward(own, d, dirs), NEW c, c # Root, NEW pth, Lineage(own, t, d, dirs, c, pth),
           NEW cut, Cuts(pth, cut)
    PROVE  Lineage(own, t, d, dirs, Parent(d, c), cut)
<1>1. PICK A, depth, k : Line(own, t, d, dirs, c, pth, A, depth, k)  BY DEF Lineage
<1>2. /\ A \in SUBSET Clusters /\ depth \in [Clusters -> Nat] /\ c \in A /\ depth[Root] = 0
      /\ \A a \in A : depth[a] <= depth[c]
      /\ k \in {0, 1} /\ pth \in Seq(Words)
      /\ ~ Lost(pth) => Len(pth) = k + 2 * depth[c] /\ (k = 1 => pth[1] = Slash)
    BY <1>1 DEF Line
<1>3. \A a \in A \ {Root} : \E r \in dirs :
          /\ ClusterOf(d, r) = a /\ t[r[1]] # 0
          /\ own[r[1]] \in A /\ depth[a] = depth[own[r[1]]] + 1
          /\ ~ Lost(pth) => /\ NameOf(d, r) \in Names /\ pth[k + 2 * depth[a] - 1] = NameOf(d, r)
                            /\ pth[k + 2 * depth[a]] = Slash
    BY <1>1 DEF Line
<1>4. PICK q \in dirs : /\ ClusterOf(d, q) = c /\ own[q[1]] \in A /\ depth[c] = depth[own[q[1]]] + 1
                        /\ ~ Lost(pth) => pth[k + 2 * depth[c] - 1] \in Names
    BY <1>2, <1>3
<1>5. own[q[1]] \in {Root} \cup {ClusterOf(d, x) : x \in dirs}
    BY <1>1, <1>4, LineageMembers
<1>6. Parent(d, c) = own[q[1]]  BY <1>4, <1>5 DEF Upward
<1>7. PICK g : g = Parent(d, c) /\ g \in A /\ depth[c] = depth[g] + 1  BY <1>4, <1>6
<1>8. depth[g] \in Nat /\ depth[c] \in Nat  BY <1>2, <1>7
<1>. DEFINE B == {a \in A : depth[a] <= depth[g]}
            j == k + 2 * depth[g]
<1>9. /\ cut \in Seq(Words)
      /\ ~ Lost(cut) =>
            ~ Lost(pth) /\ Len(cut) = j /\ \A i \in 1 .. j : cut[i] = pth[i]
    <2>1. CASE Lost(pth)  BY <1>2, <2>1 DEF Cuts
    <2>2. CASE ~ Lost(pth)
        <3>1. j \in Nat /\ k + 2 * depth[c] = j + 2 /\ k + 2 * depth[c] - 1 = j + 1
            <4>1. PICK x, y \in Nat : x = depth[g] /\ y = depth[c]  BY <1>8
            <4>2. y = x + 1 /\ k \in {0, 1}  BY <1>2, <1>7, <4>1
            <4>3. k + 2 * x \in Nat /\ k + 2 * y = (k + 2 * x) + 2 /\ k + 2 * y - 1 = (k + 2 * x) + 1
                BY ONLY <4>2, x \in Nat, y \in Nat
            <4>. QED  BY <4>1, <4>3
        <3>2. Len(pth) = j + 2 /\ pth[j + 1] \in Names  BY <1>2, <1>4, <2>2, <3>1
        <3>3. ASSUME j # 0 PROVE pth[j] = Slash
            <4>1. CASE g = Root
                <5>1. depth[g] = 0 /\ k \in {0, 1}  BY <1>2, <4>1
                <5>2. j = 1 /\ k = 1  BY <3>3, <5>1
                <5>. QED  BY <1>2, <2>2, <5>2
            <4>2. CASE g # Root  BY <1>3, <1>7, <2>2, <4>2
            <4>. QED  BY <4>1, <4>2
        <3>. HIDE DEF j
        <3>. QED  BY <1>2, <2>2, <3>1, <3>2, <3>3 DEF Cuts
    <2>. QED  BY <2>1, <2>2
<1>10. ASSUME ~ Lost(cut), k = 1 PROVE cut[1] = Slash
    <2>1. 1 \in 1 .. j  BY <1>8, <1>10
    <2>. QED  BY <1>2, <1>9, <1>10, <2>1
<1>11. ASSUME NEW a \in B \ {Root}
       PROVE  \E r \in dirs :
                 /\ ClusterOf(d, r) = a /\ t[r[1]] # 0
                 /\ own[r[1]] \in B /\ depth[a] = depth[own[r[1]]] + 1
                 /\ ~ Lost(cut) => /\ NameOf(d, r) \in Names
                                   /\ cut[k + 2 * depth[a] - 1] = NameOf(d, r)
                                   /\ cut[k + 2 * depth[a]] = Slash
    <2>1. PICK r \in dirs :
              /\ ClusterOf(d, r) = a /\ t[r[1]] # 0
              /\ own[r[1]] \in A /\ depth[a] = depth[own[r[1]]] + 1
              /\ ~ Lost(pth) => /\ NameOf(d, r) \in Names
                                /\ pth[k + 2 * depth[a] - 1] = NameOf(d, r)
                                /\ pth[k + 2 * depth[a]] = Slash
        BY <1>3
    <2>2. /\ depth[own[r[1]]] \in Nat /\ depth[a] \in Nat /\ depth[g] \in Nat
          /\ depth[a] <= depth[g]
        BY <1>2, <1>7, <2>1
    <2>3. depth[own[r[1]]] <= depth[g] /\ depth[a] >= 1  BY <2>1, <2>2
    <2>4. k + 2 * depth[a] - 1 \in 1 .. j /\ k + 2 * depth[a] \in 1 .. j
        BY <1>2, <2>2, <2>3
    <2>5. ~ Lost(cut) => /\ cut[k + 2 * depth[a] - 1] = pth[k + 2 * depth[a] - 1]
                         /\ cut[k + 2 * depth[a]] = pth[k + 2 * depth[a]]
        BY <1>9, <2>4
    <2>. QED  BY <1>9, <2>1, <2>3, <2>5
<1>12. g \in B /\ B \in SUBSET Clusters /\ \A a \in B : depth[a] <= depth[g]
    BY <1>2, <1>7, <1>8
<1>13. Line(own, t, d, dirs, g, cut, B, depth, k)
    BY <1>2, <1>9, <1>10, <1>11, <1>12 DEF Line
<1>. HIDE DEF B
<1>. QED  BY <1>7, <1>13 DEF Lineage

\* rm or mv of an entry of the working directory is not about a directory above it
\* (fat_delete_file, fat_rename).
LEMMA LineageUnlink ==
    ASSUME NEW own, NEW t, NEW d, NEW e, Whole(t, d), NEW dirs, dirs \subseteq DirEntries(d),
           NEW c, NEW pth, Lineage(own, t, d, dirs, c, pth), NEW p, own[p[1]] = c,
           NEW ds, \A q \in dirs : q = p \/ (/\ q \in ds /\ ClusterOf(e, q) = ClusterOf(d, q)
                                            /\ NameOf(e, q) = NameOf(d, q))
    PROVE  Lineage(own, t, e, ds, c, pth)
<1>1. PICK A, depth, k : Line(own, t, d, dirs, c, pth, A, depth, k)  BY DEF Lineage
<1>2. ASSUME NEW a \in A \ {Root}
      PROVE  \E q \in ds :
                /\ ClusterOf(e, q) = a /\ t[q[1]] # 0
                /\ own[q[1]] \in A /\ depth[a] = depth[own[q[1]]] + 1
                /\ ~ Lost(pth) => /\ NameOf(e, q) \in Names
                                  /\ pth[k + 2 * depth[a] - 1] = NameOf(e, q)
                                  /\ pth[k + 2 * depth[a]] = Slash
    <2>1. PICK q \in dirs : /\ ClusterOf(d, q) = a /\ t[q[1]] # 0
                            /\ own[q[1]] \in A /\ depth[a] = depth[own[q[1]]] + 1
                            /\ ~ Lost(pth) => /\ NameOf(d, q) \in Names
                                              /\ pth[k + 2 * depth[a] - 1] = NameOf(d, q)
                                              /\ pth[k + 2 * depth[a]] = Slash
        BY <1>1 DEF Line
    <2>2. depth[a] <= depth[c] /\ depth[a] \in Nat /\ depth[c] \in Nat  BY <1>1 DEF Line
    <2>3. q # p  BY <2>1, <2>2
    <2>. QED  BY <2>1, <2>3
<1>3. Line(own, t, e, ds, c, pth, A, depth, k)  BY <1>1, <1>2 DEF Line
<1>. QED  BY <1>3 DEF Lineage

-----------------------------------------------------------------------------
\* The cluster that was taken and that nothing names or follows yet.
New == (IF op.pc \in {"entry", "dots"} THEN {op.file} \ {0} ELSE {})
       \cup (IF op.pc \in {"zero", "link"} THEN {op.new} ELSE {})

\* Cluster c is a chain of its own, with no text under its entries.
Alone(own, t, sv, c) ==
    /\ t[c] = Eoc
    /\ \A x \in Numbers : own[x] = c <=> x = c
    /\ \A p \in Places : sv[p] # NoText => p[1] # c

\* So is the cluster that the command has taken.
NewInv(own) == \A c \in New : Alone(own, fat, saved, c)

\* What a command relies on while it walks the working directory.
Walks(own) ==
    /\ op.pc # "idle" => own[op.at] = cwd /\ fat[op.at] # 0
    /\ op.pc = "free" => own[op.file] \notin Heads(disk)
    /\ op.pc \in {"mark", "zero", "link"} /\ op.cmd # "save" =>
          op.file = op.at /\ fat[op.file] = Eoc
    /\ op.pc = "entry" => disk[op.at][op.slot].name \in {Nul, Deleted}
    /\ op.pc = "link" => disk[op.new] = EmptySector
    /\ op.pc = "dots" =>
          /\ op.file \in Clusters \ {Root}
          /\ \A q \in Named(disk) : ClusterOf(disk, q) = op.file =>
                q \in DirEntries(disk) /\ own[q[1]] = cwd
    /\ op.pc \in {"check", "place", "entry"} => op.cmd # "save"
    /\ op.pc \in {"locate", "data"} => op.cmd = "save"
    /\ op.pc = "locate" => op.off = 0 /\ op.text.len \in 1 .. MaxBlocks

\* A text the first blocks of which are written.
Part(own, t, d, p, n, file, text, off) ==
    /\ p \in FileEntries(d) /\ text.len \in 1 .. MaxBlocks
    /\ off \in 0 .. text.len - 1 /\ n \in {off, off + 1} /\ n # 0
    /\ \E s \in [1 .. n -> Clusters] :
          /\ LiesIn(own, t, d, ClusterOf(d, p), s, n, text, off) /\ s[n] = file
          /\ \A i, j \in 1 .. n : s[i] = s[j] => i = j

\* The text being saved, as far as it is written.
Saving(own) ==
    op.cmd = "save" /\ op.pc \in {"data", "mark", "zero", "link"} =>
        /\ saved[<<op.at, op.slot>>] = NoText /\ op.found = TRUE
        /\ Part(own, fat, disk, <<op.at, op.slot>>, IF op.pc = "data" THEN op.off + 1 ELSE op.off,
                op.file, op.text, op.off)

\* The volume, on the disk and as the driver sees the table.
Volume(own) == Vol(own, fat, View, disk, Filled, saved)

\* The path, or one that is lost once cd . has been in it (fat_open_dir).
Trail == IF "here" \in events THEN <<Letter>> ELSE path

Fits(own) ==
    /\ Volume(own) /\ NewInv(own) /\ Walks(own) /\ Saving(own)
    /\ Lineage(own, fat, disk, Filled, cwd, Trail)

TextInv ==
    /\ saved = [p \in Places |-> saved[p]]
    /\ Clean => \E own : Fits(own)

\* No entry of a table leads to a cluster.
Unled(t, x) == \A y \in Numbers : t[y] # x

\* The entry '.' is in the first cluster of a directory, and names it.
DotsApart(d, t, w) ==
    \A x \in Clusters : \A i \in Slots :
        d[x][i].name = Dot => d[x][i].cl = x /\ Unled(t, x) /\ Unled(w, x)

\* So it is on the disk, and cd .. does not come to fat_open_dir.
DotInv ==
    /\ op.pc = "open" => op.name # DotDot
    /\ Clean =>
          /\ DotsApart(disk, fat, View)
          /\ op.pc = "dots" => /\ op.file \in Clusters
                               /\ Unled(fat, op.file) /\ Unled(View, op.file)

-----------------------------------------------------------------------------
\* What is to be shown of the state after a step (fat.c).
LEMMA FitsNext ==
    ASSUME NEW o, Vol(o, fat', View', disk', Filled', saved'), NewInv(o)', Walks(o)', Saving(o)',
           Lineage(o, fat', disk', Filled', cwd', Trail')
    PROVE  Fits(o)'
<1>1. Volume(o)'  BY DEF Volume
<1>2. Lineage(o, fat, disk, Filled, cwd, Trail)'  OBVIOUS
<1>. QED  BY <1>1, <1>2 DEF Fits

\* Facts about the volume that most steps need (fat.c).
LEMMA FitsFacts ==
    ASSUME IInv, Clean, NEW own, Fits(own)
    PROVE  /\ Whole(fat, disk) /\ WholeInv /\ OpInv /\ AreSectors(disk) /\ OpType /\ CacheInv /\ TableInv
           /\ fat \in [Numbers -> FatEntry] /\ View \in [Numbers -> FatEntry]
           /\ Filled \subseteq DirEntries(disk) /\ own \in [Numbers -> Numbers]
           /\ cwd \in Clusters /\ cwd \in Numbers /\ cwd \in Heads(disk) /\ own[cwd] = cwd /\ fat[cwd] # 0
           /\ \A q \in FileEntries(disk) : ClusterOf(disk, q) # cwd
           /\ \A h \in Heads(disk) : own[h] = h /\ h \in Clusters /\ h \in Numbers /\ fat[h] # 0
           /\ op.pc # "idle" => op.at \in Numbers /\ own[op.at] = cwd /\ fat[op.at] # 0
<1>1. Intact(events)  BY DEF Clean, Intact
<1>2. /\ Whole(fat, disk) /\ WholeInv /\ OpInv /\ AreSectors(disk) /\ OpType /\ CacheInv /\ TableInv
      /\ fat \in [Numbers -> FatEntry] /\ View \in [Numbers -> FatEntry]
    BY <1>1 DEF IInv, TypeInv, TableInv, WholeInv
<1>3. Filled \subseteq DirEntries(disk)  BY DEF Filled
<1>4. own \in [Numbers -> Numbers] /\ \A h \in Heads(disk) : own[h] = h
    BY DEF Fits, Volume, Vol, Divides
<1>5. cwd \in Clusters /\ cwd \in {Root} \cup {ClusterOf(disk, x) : x \in Filled}
    BY LineageEnd DEF Fits
<1>6. /\ \A h \in Heads(disk) : h \in Clusters /\ h \in Numbers /\ fat[h] # 0
      /\ Root \in Heads(disk)
    BY <1>2, EntryHeads, Numbering
<1>7. \A x \in Filled : ClusterOf(disk, x) \in Heads(disk)  BY <1>2, <1>3, EntryHeads
<1>8. cwd \in Heads(disk)  BY <1>5, <1>6, <1>7
<1>9. \A q \in FileEntries(disk) : ClusterOf(disk, q) # cwd
    BY <1>2, <1>3, <1>5, EntryHeads
<1>10. op.pc # "idle" => op.at \in Numbers /\ own[op.at] = cwd /\ fat[op.at] # 0
    BY <1>2 DEF OpType, Fits, Walks
<1>. QED  BY <1>2, <1>3, <1>4, <1>5, <1>6, <1>8, <1>9, <1>10

\* A directory whose first sector is filled stays so while its entry and unfilled
\* sectors do (fat_create_dir).
LEMMA FilledStays ==
    ASSUME op.pc # "dots", op'.pc # "dots"
    PROVE  Filled = DirEntries(disk) /\ Filled' = DirEntries(disk')
<1>1. Unfilled = {} /\ Unfilled' = {}  BY DEF Unfilled
<1>. QED  BY <1>1 DEF Filled

\* Steps that write nothing.
LEMMA QuietFits ==
    ASSUME IInv, IInv', Clean, NEW own, Fits(own), UNCHANGED <<fat, disk, saved>>,
           cache' = cache \/ Looks(cache'), op.pc # "dots", op'.pc # "dots",
           NewInv(own)', Walks(own)', Saving(own)', Lineage(own, fat, disk, Filled, cwd', Trail')
    PROVE  Fits(own)'
<1>1. View' \in {View, fat}  BY LookKeeps DEF IInv, TypeInv, Looks
<1>2. Filled' = Filled  BY FilledStays
<1>3. Vol(own, fat, View, disk, Filled, saved)  BY DEF Fits, Volume
<1>4. Vol(own, fat, View', disk, Filled, saved)  BY <1>1, <1>3, VolLook DEF Vol
<1>5. Vol(own, fat', View', disk', Filled', saved')  BY <1>2, <1>4
<1>6. Lineage(own, fat', disk', Filled', cwd', Trail')  BY <1>2
<1>. QED  BY <1>5, <1>6, FitsNext

\* The walk along a directory stays in its chain.
LEMMA WalkFits ==
    ASSUME IInv, Clean, NEW own, Fits(own), op.pc # "idle", NEW end, WalkOn(end)
    PROVE  /\ Looks(cache')
           /\ \/ op' = end /\ fat[op.at] = Eoc
              \/ \E c \in Clusters : op' = [op EXCEPT !.at = c] /\ own[c] = cwd /\ fat[c] # 0
<1>1. op.at \in Numbers /\ own[op.at] = cwd /\ fat[op.at] # 0
      /\ fat \in [Numbers -> FatEntry] /\ Whole(fat, disk) /\ CacheInv /\ TableInv
    BY FitsFacts
<1>2. Following(op.at) = fat[op.at] /\ Following(op.at) \in FatEntry
    BY <1>1, FollowingType
<1>3. \/ op' = end /\ fat[op.at] = Eoc
      \/ fat[op.at] # Eoc /\ op' = [op EXCEPT !.at = fat[op.at]]
    BY <1>2 DEF WalkOn
<1>4. ASSUME fat[op.at] # Eoc
      PROVE  fat[op.at] \in Clusters /\ own[fat[op.at]] = cwd /\ fat[fat[op.at]] # 0
    <2>1. fat[op.at] \in Clusters  BY <1>1, <1>2, <1>4 DEF FatEntry
    <2>2. own[fat[op.at]] = own[op.at]  BY <1>1, <2>1 DEF Fits, Volume, Vol, Divides
    <2>3. fat[fat[op.at]] # 0  BY <1>1, <2>1 DEF Whole, Joined
    <2>. QED  BY <1>1, <2>1, <2>2, <2>3
<1>. QED  BY <1>3, <1>4, LooksOnly DEF WalkOn

\* What the walks leave of the command's variables.
LEMMA OpFits ==
    ASSUME IInv, Clean, NEW own, Fits(own), op.pc # "idle", UNCHANGED <<fat, disk, saved, cwd, Trail>>,
           \/ op' = Idle
           \/ \E c \in Numbers :
                 \/ /\ op.pc \in {"check", "place", "open", "list", "remove", "rename", "read", "locate"}
                    /\ op' = [op EXCEPT !.at = c] /\ own[c] = cwd /\ fat[c] # 0
                 \/ op.pc = "chain" /\ op' = [op EXCEPT !.file = c]
                 \/ op.pc = "read" /\ op' = [op EXCEPT !.pc = "chain", !.file = c]
           \/ op.pc = "check" /\ op' = [op EXCEPT !.pc = "place", !.at = cwd]
           \/ /\ op.pc = "place" /\ op' = [op EXCEPT !.pc = "mark", !.file = op.at]
              /\ fat[op.at] = Eoc
    PROVE  NewInv(own)' /\ Walks(own)' /\ Saving(own)' /\ op'.pc # "dots"
<1>1. OpShape /\ own[cwd] = cwd /\ fat[cwd] # 0  BY FitsFacts DEF OpType
<1>2. Walks(own)  BY DEF Fits
<1>3. CASE op' = Idle
    <2>1. op'.pc = "idle"  BY <1>3 DEF Idle
    <2>. QED  BY <2>1 DEF NewInv, New, Walks, Saving
<1>4. CASE \E c \in Numbers :
              /\ op.pc \in {"check", "place", "open", "list", "remove", "rename", "read", "locate"}
              /\ op' = [op EXCEPT !.at = c] /\ own[c] = cwd /\ fat[c] # 0
    <2>1. PICK c \in Numbers : op' = [op EXCEPT !.at = c] /\ own[c] = cwd /\ fat[c] # 0
        BY <1>4
    <2>2. /\ op'.pc = op.pc /\ op'.cmd = op.cmd /\ op'.at = c /\ op'.off = op.off /\ op'.text = op.text
        BY <1>1, <2>1 DEF OpShape
    <2>. QED  BY <1>2, <1>4, <2>1, <2>2 DEF NewInv, New, Walks, Saving
<1>5. CASE \E c \in Numbers :
              \/ op.pc = "chain" /\ op' = [op EXCEPT !.file = c]
              \/ op.pc = "read" /\ op' = [op EXCEPT !.pc = "chain", !.file = c]
    <2>1. op'.pc = "chain" /\ op'.at = op.at  BY <1>1, <1>5 DEF OpShape
    <2>. QED  BY <1>2, <2>1 DEF NewInv, New, Walks, Saving
<1>6. CASE op.pc = "check" /\ op' = [op EXCEPT !.pc = "place", !.at = cwd]
    <2>1. op'.pc = "place" /\ op'.at = cwd /\ op'.cmd = op.cmd
        BY <1>1, <1>6 DEF OpShape
    <2>. QED  BY <1>1, <1>2, <1>6, <2>1 DEF NewInv, New, Walks, Saving
<1>7. CASE /\ op.pc = "place" /\ op' = [op EXCEPT !.pc = "mark", !.file = op.at]
           /\ fat[op.at] = Eoc
    <2>1. op'.pc = "mark" /\ op'.at = op.at /\ op'.file = op.at /\ op'.cmd = op.cmd
        BY <1>1, <1>7 DEF OpShape
    <2>. QED  BY <1>1, <1>2, <1>7, <2>1 DEF NewInv, New, Walks, Saving
<1>. QED  BY <1>3, <1>4, <1>5, <1>6, <1>7

-----------------------------------------------------------------------------
\* A step that writes nothing and keeps to the working directory (fat.c).
LEMMA StayFits ==
    ASSUME IInv, IInv', Clean, NEW own, Fits(own), op.pc \notin {"idle", "dots"},
           UNCHANGED <<fat, disk, saved, cwd, Trail>>,
           cache' = cache \/ Looks(cache'),
           NewInv(own)', Walks(own)', Saving(own)', op'.pc # "dots"
    PROVE  Fits(own)'
<1>1. Lineage(own, fat, disk, Filled, cwd', Trail')  BY DEF Fits
<1>. QED  BY <1>1, QuietFits

\* A step that only reads the table, through the cached sector, and goes on to the
\* next sector of the directory (fat_next_cluster).
LEMMA LookFits ==
    ASSUME IInv, IInv', Clean, NEW own, Fits(own), Check \/ Read \/ Chain \/ Dir
    PROVE  Fits(own)'
<1>1. /\ UNCHANGED <<fat, disk, saved, cwd, Trail>> /\ op.pc \in {"check", "read", "chain", "list"}
      /\ op.pc # "idle"
    BY DEF Trail, Check, Read, Chain, Dir
<1>2. Clusters \subseteq Numbers  BY Numbering
<1>3. ASSUME NEW end, WalkOn(end)
      PROVE  /\ Looks(cache')
             /\ \/ op' = end
                \/ \E c \in Numbers : op' = [op EXCEPT !.at = c] /\ own[c] = cwd /\ fat[c] # 0
    BY <1>1, <1>2, <1>3, WalkFits
<1>4. CASE Check
    <2>1. /\ cache' = cache \/ Looks(cache')
          /\ \/ op' = Idle \/ op' = [op EXCEPT !.pc = "place", !.at = cwd]
             \/ \E c \in Numbers : op' = [op EXCEPT !.at = c] /\ own[c] = cwd /\ fat[c] # 0
        BY <1>3, <1>4 DEF Check
    <2>2. op.pc = "check"  BY <1>4 DEF Check
    <2>3. NewInv(own)' /\ Walks(own)' /\ Saving(own)' /\ op'.pc # "dots"
        BY <1>1, <2>1, <2>2, OpFits
    <2>. QED  BY <1>1, <2>1, <2>3, StayFits
<1>5. CASE Read
    <2>1. op.pc = "read" /\ OpType  BY <1>5 DEF Read, IInv, TypeInv
    <2>2. CASE Hits = {}
        <3>1. /\ Looks(cache')
              /\ \/ op' = Idle
                 \/ \E c \in Numbers : op' = [op EXCEPT !.at = c] /\ own[c] = cwd /\ fat[c] # 0
            BY <1>3, <1>5, <2>2 DEF Read
        <3>2. NewInv(own)' /\ Walks(own)' /\ Saving(own)' /\ op'.pc # "dots"
            BY <1>1, <2>1, <3>1, OpFits
        <3>. QED  BY <1>1, <3>1, <3>2, StayFits
    <2>3. CASE Hits # {}
        <3>1. At[Min(Hits)].cl \in Numbers  BY <1>1, <2>3, HitIsSlot
        <3>2. /\ cache' = cache
              /\ \/ op' = Idle
                 \/ \E c \in Numbers : op' = [op EXCEPT !.pc = "chain", !.file = c]
            BY <1>5, <2>3, <3>1 DEF Read
        <3>3. NewInv(own)' /\ Walks(own)' /\ Saving(own)' /\ op'.pc # "dots"
            BY <1>1, <2>1, <3>2, OpFits
        <3>. QED  BY <1>1, <3>2, <3>3, StayFits
    <2>. QED  BY <2>2, <2>3
<1>6. CASE Chain
    <2>1. op.pc = "chain" /\ op.file \in Numbers /\ CacheInv /\ TableInv
        BY <1>6 DEF Chain, IInv, TypeInv, OpType
    <2>2. Following(op.file) \in Numbers \cup {Eoc}  BY <2>1, FollowingType, Numbering
    <2>3. /\ Looks(cache')
          /\ op' = Idle \/ \E c \in Numbers : op' = [op EXCEPT !.file = c]
        BY <1>6, <2>2, LooksOnly DEF Chain
    <2>4. NewInv(own)' /\ Walks(own)' /\ Saving(own)' /\ op'.pc # "dots"
        BY <1>1, <2>1, <2>3, OpFits
    <2>. QED  BY <1>1, <2>3, <2>4, StayFits
<1>7. CASE Dir
    <2>1. op.pc = "list"  BY <1>7 DEF Dir
    <2>2. /\ cache' = cache \/ Looks(cache')
          /\ \/ op' = Idle
             \/ \E c \in Numbers : op' = [op EXCEPT !.at = c] /\ own[c] = cwd /\ fat[c] # 0
        BY <1>3, <1>7 DEF Dir
    <2>3. NewInv(own)' /\ Walks(own)' /\ Saving(own)' /\ op'.pc # "dots"
        BY <1>1, <2>1, <2>2, OpFits
    <2>. QED  BY <1>1, <2>2, <2>3, StayFits
<1>. QED  BY <1>4, <1>5, <1>6, <1>7

\* An entry that a search finds is in the present directory.
LEMMA HitFits ==
    ASSUME IInv, Clean, NEW own, Fits(own), op.pc # "idle", op.name \in Names,
           NEW i \in Hits
    PROVE  /\ i \in Slots /\ <<op.at, i>> \in Places /\ <<op.at, i>> \in Named(disk)
           /\ ClusterOf(disk, <<op.at, i>>) = At[i].cl /\ At[i].cl \in Clusters
           /\ At[i].cl \in Numbers /\ At[i].cl \in Heads(disk)
           /\ At[i].name \in Names /\ At[i].attr \in {"dir", "file"}
<1>1. /\ op.at \in Numbers /\ op.name \in Names /\ Whole(fat, disk)
      /\ Marked(disk) /\ "" \notin Names
    <2>1. "" \notin Names  BY Wording, Zenon
    <2>. QED  BY <2>1, FitsFacts DEF Fits, Volume, Vol
<1>2. i \in Slots  BY HitsAreSlots DEF IInv
<1>3. At[i].name = op.name  BY <1>1 DEF Hits, Matches
<1>4. <<op.at, i>> \in Places /\ At[i] = disk[op.at][i]
    BY <1>1, <1>2 DEF Places, Numbers, At
<1>5. <<op.at, i>> \in Named(disk)  BY <1>1, <1>3, <1>4 DEF Named
<1>6. ClusterOf(disk, <<op.at, i>>) = At[i].cl  BY <1>4 DEF ClusterOf
<1>7. At[i].cl \in Heads(disk) /\ At[i].cl \in Clusters
    <2>1. PICK p \in Named(disk) : p = <<op.at, i>> /\ ClusterOf(disk, p) = At[i].cl
        BY <1>5, <1>6
    <2>2. \A q \in Named(disk) : ClusterOf(disk, q) \in Heads(disk) /\ ClusterOf(disk, q) \in Clusters
        BY ONLY <1>1, EntryHeads
    <2>. QED  BY <2>1, <2>2
<1>8. At[i].attr \in {"dir", "file"}  BY <1>1, <1>4, <1>5 DEF Marked
<1>. QED  BY <1>1, <1>2, <1>3, <1>4, <1>5, <1>6, <1>7, <1>8, Numbering

\* A word that a command searches for and finds is a short name or '.' or '..'
\* (str_equal_fat).
LEMMA HitWords ==
    ASSUME IInv, op.pc \notin {"idle", "list", "rename"}, Hits # {}
    PROVE  op.name \in Names \cup {Dot, DotDot}
<1>1. op.name \in Typed \/ op.pc \in {"list", "rename"}  BY HitIsSlot
<1>. QED  BY <1>1, HitIsSlot

\* A directory that has the entry '.' in the sector at hand is the present one
\* (fat.c:513).
LEMMA DotIsHere ==
    ASSUME IInv, DotInv, Clean, NEW own, Fits(own), op.pc # "idle",
           NEW i \in Slots, disk[op.at][i].name = Dot
    PROVE  op.at = cwd /\ disk[op.at][i].cl = cwd
<1>1. /\ op.at \in Numbers /\ own[op.at] = cwd /\ fat[op.at] # 0 /\ own[cwd] = cwd
      /\ fat \in [Numbers -> FatEntry] /\ Whole(fat, disk)
      /\ \A h \in Heads(disk) : own[h] = h
      /\ Filled \subseteq DirEntries(disk)
    BY FitsFacts
<1>2. cwd \in {Root} \cup {ClusterOf(disk, x) : x \in Filled}  BY LineageEnd DEF Fits
<1>3. cwd \in Folders(disk) /\ Folders(disk) \subseteq Heads(disk) /\ Heads(disk) \subseteq Clusters
      /\ Clusters \subseteq Numbers
    BY <1>1, <1>2, EntryHeads, Numbering DEF Folders
<1>4. Attached(own, fat, Folders(disk))  BY DEF Fits, Volume, Vol
<1>5. op.at \in Clusters
    <2>1. \A y \in Clusters \cap DOMAIN fat : fat[y] \in Clusters => fat[y] \in Clusters
        OBVIOUS
    <2>. QED  BY <1>1, <1>3, <1>4, <2>1 DEF Attached
<1>6. disk[op.at][i].cl = op.at /\ \A y \in Numbers : fat[y] # op.at
    BY <1>5 DEF DotInv, DotsApart, Unled
<1>7. op.at \in Folders(disk)
    <2>. SUFFICES ASSUME op.at \notin Folders(disk) PROVE FALSE  OBVIOUS
    <2>. DEFINE S == Clusters \ {op.at}
    <2>1. S \in SUBSET Numbers /\ Folders(disk) \subseteq S  BY <1>3
    <2>2. \A y \in S \cap DOMAIN fat : fat[y] \in Clusters => fat[y] \in S
        BY <1>1, <1>6
    <2>3. op.at \notin S  OBVIOUS
    <2>. HIDE DEF S
    <2>. QED  BY <1>1, <1>3, <1>4, <2>1, <2>2, <2>3 DEF Attached
<1>8. op.at = cwd  BY <1>1, <1>3, <1>7
<1>. QED  BY <1>6, <1>8

\* fat_open_dir enters a directory below the working one, or the working one itself.
LEMMA OpenFits ==
    ASSUME IInv, IInv', DotInv, Clean, NEW own, Fits(own), Open
    PROVE  Fits(own)'
<1>1. UNCHANGED <<fat, disk, saved>> /\ op.pc = "open" /\ op.pc # "idle"  BY DEF Open
<1>2. CASE WalkOn(Idle) /\ UNCHANGED <<cwd, path, events>>
    <2>1. /\ Looks(cache')
          /\ \/ op' = Idle
             \/ \E c \in Numbers : op' = [op EXCEPT !.at = c] /\ own[c] = cwd /\ fat[c] # 0
        BY <1>1, <1>2, WalkFits, Numbering
    <2>2. UNCHANGED <<cwd, Trail>>  BY <1>2 DEF Trail
    <2>3. NewInv(own)' /\ Walks(own)' /\ Saving(own)' /\ op'.pc # "dots"
        BY <1>1, <2>1, <2>2, OpFits
    <2>. QED  BY <1>1, <2>1, <2>2, <2>3, StayFits
<1>3. ASSUME NEW i \in Hits, At[i].attr = "dir", cwd' = At[i].cl,
             path' = Entered(op.name), Looks(cache'), op' = Idle,
             events' = events \cup (IF op.name = Dot THEN {"here"} ELSE {})
      PROVE  Fits(own)'
    <2>1. op'.pc = "idle"  BY <1>3 DEF Idle
    <2>2. NewInv(own)' /\ Walks(own)' /\ Saving(own)'
        BY <2>1 DEF NewInv, New, Walks, Saving
    <2>3. i \in Slots /\ At[i].name = op.name /\ op.name \in Names \cup {Dot}
        <3>1. op.name \in Names \cup {Dot, DotDot}  BY <1>1, <1>3, HitWords
        <3>2. op.name # DotDot  BY <1>1 DEF DotInv
        <3>3. "" \notin Names \cup {Dot}
            <4>1. "" \notin Names  BY Wording, Zenon
            <4>2. "" # Dot  BY Zenon DEF Dot
            <4>. QED  BY <4>1, <4>2, Zenon
        <3>4. i \in Slots  BY <1>3, HitsAreSlots DEF IInv
        <3>5. Matches(i, op.name) /\ op.name # ""
            BY <1>3, <3>1, <3>2, <3>3, Zenon DEF Hits
        <3>6. At[i].name = op.name  BY <3>5, Zenon DEF Matches
        <3>. QED  BY <3>1, <3>2, <3>4, <3>6
    <2>4. CASE op.name \in Names
        <3>. DEFINE p == <<op.at, i>>
        <3>1. /\ p \in Named(disk) /\ ClusterOf(disk, p) = cwd' /\ own[p[1]] = cwd /\ fat[p[1]] # 0
              /\ disk[p[1]][p[2]].attr = "dir" /\ disk[p[1]][p[2]].name = At[i].name
            BY <1>1, <1>3, <2>4, HitFits, FitsFacts DEF At
        <3>. HIDE DEF p
        <3>2. p \in Filled /\ Filled \subseteq DirEntries(disk) /\ Whole(fat, disk)
            BY <1>1, <2>1, <3>1, FilledStays, FitsFacts DEF DirEntries
        <3>3. NameOf(disk, p) = op.name  BY <2>3, <3>1 DEF NameOf
        <3>4. Lineage(own, fat, disk, Filled, cwd', Trail \o <<op.name, Slash>>)
            BY <2>4, <3>1, <3>2, <3>3, LineageDown DEF Fits
        <3>5. op.name # Dot  BY <2>4, Wording
        <3>6. Trail' \in {Trail \o <<op.name, Slash>>, <<Letter>>}
            BY <1>3, <3>5 DEF Trail, Entered
        <3>7. Lineage(own, fat, disk, Filled, cwd', Trail')  BY <3>4, <3>6, LineageLost
        <3>. QED  BY <1>1, <1>3, <2>1, <2>2, <3>7, QuietFits
    <2>5. CASE op.name = Dot
        <3>1. cwd' = cwd  BY <1>1, <1>3, <2>3, <2>5, DotIsHere DEF At
        <3>2. Trail' = <<Letter>>  BY <1>3, <2>5 DEF Trail
        <3>3. Lineage(own, fat, disk, Filled, cwd', Trail')
            BY <3>1, <3>2, LineageLost DEF Fits
        <3>. QED  BY <1>1, <1>3, <2>1, <2>2, <3>3, QuietFits
    <2>. QED  BY <2>3, <2>4, <2>5
<1>4. CASE ~ (WalkOn(Idle) /\ UNCHANGED <<cwd, path, events>>)
    <2>. DEFINE dirs == {i \in Hits : At[i].attr = "dir"}
    <2>1. dirs # {} /\ cwd' = At[Min(dirs)].cl /\ path' = Entered(op.name) /\ cache' = Loaded(op.at)
          /\ op' = Idle /\ events' = events \cup (IF op.name = Dot THEN {"here"} ELSE {})
        BY <1>4 DEF Open
    <2>2. Min(dirs) \in dirs  BY <2>1, HitsAreSlots, MinIsIn DEF IInv
    <2>3. PICK i : i \in dirs /\ cwd' = At[i].cl  BY <2>1, <2>2
    <2>4. Looks(cache')  BY <2>1, LooksOnly
    <2>. QED  BY <1>3, <2>1, <2>3, <2>4
<1>. QED  BY <1>2, <1>4

-----------------------------------------------------------------------------
\* What a slot that is written leaves of the other entries.
LEMMA SlotEntries ==
    ASSUME NEW d, NEW e, NEW c \in Numbers, NEW i \in Slots, NEW s, Written(d, e, c, i, s),
           s.attr = d[c][i].attr, s.cl = d[c][i].cl, d[c][i].name \in Names \cup {Blank}
    PROVE  /\ DirEntries(e) \subseteq DirEntries(d)
           /\ \A p \in Named(d) : p # <<c, i>> \/ s.name \in Names \cup {Blank} =>
                 /\ p \in Named(e) /\ ClusterOf(e, p) = ClusterOf(d, p)
                 /\ e[p[1]][p[2]].attr = d[p[1]][p[2]].attr
                 /\ p # <<c, i>> => NameOf(e, p) = NameOf(d, p)
           /\ \A p \in Named(e) : p \in Named(d) /\ ClusterOf(e, p) = ClusterOf(d, p)
<1>1. /\ e[c] = [j \in Slots |-> IF j = i THEN s ELSE d[c][j]]
      /\ \A x \in Numbers : x # c => e[x] = d[x]
    BY DEF Written
<1>2. ASSUME NEW p \in Places
      PROVE  \/ e[p[1]][p[2]] = d[p[1]][p[2]] /\ p # <<c, i>>
             \/ p = <<c, i>> /\ p[1] = c /\ p[2] = i /\ e[p[1]][p[2]] = s
    BY <1>1, PlaceParts
<1>3. \A p \in Named(d) : p # <<c, i>> \/ s.name \in Names \cup {Blank} =>
          /\ p \in Named(e) /\ ClusterOf(e, p) = ClusterOf(d, p)
          /\ e[p[1]][p[2]].attr = d[p[1]][p[2]].attr
          /\ p # <<c, i>> => NameOf(e, p) = NameOf(d, p)
    BY <1>2 DEF Named, ClusterOf, NameOf
<1>4. \A p \in Named(e) : p \in Named(d) /\ ClusterOf(e, p) = ClusterOf(d, p)
                          /\ e[p[1]][p[2]].attr = d[p[1]][p[2]].attr
    BY <1>2 DEF Named, ClusterOf
<1>5. DirEntries(e) \subseteq DirEntries(d)  BY <1>4 DEF DirEntries
<1>. QED  BY <1>3, <1>4, <1>5

\* A name, or a size, is written into an entry of the present directory.
LEMMA SlotFits ==
    ASSUME IInv, Clean, NEW own, Fits(own), op.pc \notin {"idle", "dots"}, op'.pc # "dots",
           UNCHANGED <<fat, cache, cwd, Trail>>, NEW i \in Slots, NEW s,
           Written(disk, disk', op.at, i, s), s.attr = disk[op.at][i].attr,
           s.cl = disk[op.at][i].cl, disk[op.at][i].name \in Names \cup {Blank},
           \A p \in Places : saved'[p] \in {NoText, saved[p]},
           saved'[<<op.at, i>>] # NoText => s.name \in Names \cup {Blank}
    PROVE  /\ Vol(own, fat', View', disk', Filled', saved')
           /\ Lineage(own, fat', disk', Filled', cwd', Trail')
<1>1. /\ op.at \in Numbers /\ own[op.at] = cwd /\ Whole(fat, disk)
      /\ Filled \subseteq DirEntries(disk)
      /\ \A q \in FileEntries(disk) : own[op.at] # ClusterOf(disk, q)
    BY FitsFacts
<1>2. disk[op.at][i].name # DotDot
    <2>1. Names \cap {Nul, Deleted, Blank, Dot, DotDot, Letter, Slash, "text"} = {}
        BY Wording
    <2>. QED  BY <2>1 DEF Blank, DotDot
<1>3. View' = View  BY DEF View, Seen, Numbers
<1>4. Filled = DirEntries(disk) /\ Filled' = DirEntries(disk')  BY FilledStays
<1>5. /\ DirEntries(disk') \subseteq DirEntries(disk)
      /\ \A p \in Named(disk) : p # <<op.at, i>> \/ s.name \in Names \cup {Blank} =>
             /\ p \in Named(disk') /\ ClusterOf(disk', p) = ClusterOf(disk, p)
             /\ disk'[p[1]][p[2]].attr = disk[p[1]][p[2]].attr
             /\ p # <<op.at, i>> => NameOf(disk', p) = NameOf(disk, p)
    <2>1. PICK c \in Numbers : c = op.at  BY <1>1
    <2>2. PICK d, e : d = disk /\ e = disk'  OBVIOUS
    <2>3. /\ Written(d, e, c, i, s) /\ s.attr = d[c][i].attr /\ s.cl = d[c][i].cl
          /\ d[c][i].name \in Names \cup {Blank}
        BY <2>1, <2>2
    <2>4. /\ DirEntries(e) \subseteq DirEntries(d)
          /\ \A p \in Named(d) : p # <<c, i>> \/ s.name \in Names \cup {Blank} =>
                 /\ p \in Named(e) /\ ClusterOf(e, p) = ClusterOf(d, p)
                 /\ e[p[1]][p[2]].attr = d[p[1]][p[2]].attr
                 /\ p # <<c, i>> => NameOf(e, p) = NameOf(d, p)
        BY ONLY <2>3, i \in Slots, SlotEntries
    <2>. QED  BY ONLY <2>1, <2>2, <2>4
<1>6. DirEntries(disk') \subseteq Named(disk')  BY DEF DirEntries
<1>7. Vol(own, fat, View, disk, Filled, saved)  BY DEF Fits, Volume
<1>8. Vol(own, fat, View, disk', Filled', saved')
    BY <1>1, <1>2, <1>4, <1>5, <1>6, <1>7, VolSlot
<1>9. \A q \in Filled : q = <<op.at, i>>
          \/ (q \in Filled' /\ ClusterOf(disk', q) = ClusterOf(disk, q) /\ NameOf(disk', q) = NameOf(disk, q))
    BY <1>4, <1>5 DEF DirEntries
<1>10. Lineage(own, fat, disk', Filled', cwd, Trail)
    <2>1. PICK p : p = <<op.at, i>> /\ own[p[1]] = cwd  BY <1>1
    <2>2. \A q \in Filled : q = p
              \/ (q \in Filled' /\ ClusterOf(disk', q) = ClusterOf(disk, q) /\ NameOf(disk', q) = NameOf(disk, q))
        BY <1>9, <2>1
    <2>3. Whole(fat, disk) /\ Filled \subseteq DirEntries(disk) /\ Lineage(own, fat, disk, Filled, cwd, Trail)
        BY <1>1 DEF Fits
    <2>. QED  BY ONLY <2>1, <2>2, <2>3, LineageUnlink
<1>. QED  BY <1>3, <1>8, <1>10

\* A word of a command that writes or removes an entry is not '.' or '..' as long as
\* all is well (fat.c:587).
LEMMA NoDots ==
    ASSUME Clean', NEW words, Dotted(words) \subseteq events'
    PROVE  words \cap {Dot, DotDot} = {}
    BY DEF Clean, Dotted

\* fat_rename writes a name and leaves the texts where they are.
LEMMA RenameFits ==
    ASSUME IInv, IInv', Clean, Clean', NEW own, Fits(own), Rename
    PROVE  Fits(own)'
<1>1. UNCHANGED <<fat, cwd, Trail, saved>> /\ op.pc = "rename"
    <2>1. UNCHANGED <<fat, cwd, path, saved>> /\ op.pc = "rename"  BY DEF Rename
    <2>2. "here" \in events' <=> "here" \in events  BY DEF Rename, Dotted
    <2>. QED  BY <2>1, <2>2 DEF Trail
<1>2. CASE Hits = {}
    <2>1. WalkOn(Idle) /\ UNCHANGED disk  BY <1>2 DEF Rename
    <2>2. /\ Looks(cache')
          /\ \/ op' = Idle
             \/ \E c \in Numbers : op' = [op EXCEPT !.at = c] /\ own[c] = cwd /\ fat[c] # 0
        BY <1>1, <2>1, WalkFits, Numbering
    <2>3. NewInv(own)' /\ Walks(own)' /\ Saving(own)' /\ op'.pc # "dots"
        BY <1>1, <2>1, <2>2, OpFits
    <2>. QED  BY <1>1, <2>1, <2>2, <2>3, StayFits
<1>3. CASE Hits # {}
    <2>1. PICK i, w : /\ i = Min(Hits) /\ w = IF op.word = "" THEN Blank ELSE Stored(op.word)
                      /\ disk' = [disk EXCEPT ![op.at][i].name = w]
        BY <1>3 DEF Rename
    <2>2. /\ cache' = cache /\ op' = Idle /\ (At[i].cl = 0 => "zero" \in events')
          /\ {op.name, op.word} \cap {Dot, DotDot} = {}
        <3>1. /\ cache' = cache /\ op' = Idle
              /\ events' = events \cup {"renamed"} \cup (IF At[i].cl = 0 THEN {"zero"} ELSE {})
                                \cup Dotted({op.name, op.word})
            BY <1>3, <2>1 DEF Rename
        <3>. QED  BY <3>1, NoDots
    <2>3. /\ op.at \in Numbers /\ i \in Slots
          /\ At[i].name \in Names \cup {Dot, DotDot, Blank, Nul}
          /\ At[i].name = Nul => At[i].cl = 0
        BY <1>1, <1>3, <2>1, HitIsSlot
    <2>4. disk[op.at][i].name \in Names \cup {Blank}
        <3>1. At[i].name # Nul  BY <2>2, <2>3 DEF Clean
        <3>2. At[i].name \notin {Dot, DotDot}
            <4>1. Matches(i, op.name)  BY <1>1, <1>3, <2>1, HitIsSlot DEF Hits
            <4>2. op.name # At[i].name \/ At[i].name \notin {Dot, DotDot}  BY <2>2
            <4>3. Blank \notin {Dot, DotDot} /\ Nul \notin {Dot, DotDot}
                BY DEF Blank, Nul, Dot, DotDot
            <4>. QED  BY <4>1, <4>2, <4>3, Zenon DEF Matches
        <3>. QED  BY <2>3, <3>1, <3>2 DEF At
    <2>5. w \in Names \cup {Blank}
        <3>1. op.word \in Typed \cup {""}  BY Zenon DEF IInv, TypeInv, OpType, NoWord
        <3>2. op.word \in Typed => Stored(op.word) \in Names  BY <2>2, Wording
        <3>. QED  BY <2>1, <3>1, <3>2, Zenon
    <2>. DEFINE s == Slot(w, disk[op.at][i].attr, disk[op.at][i].cl, disk[op.at][i].size)
    <2>6. Written(disk, disk', op.at, i, s)  BY <2>1, <2>3, SlotExcept DEF IInv, TypeInv
    <2>7. s.name = w /\ s.attr = disk[op.at][i].attr /\ s.cl = disk[op.at][i].cl
        BY DEF Slot
    <2>. HIDE DEF s
    <2>8. op'.pc = "idle"  BY <2>2 DEF Idle
    <2>9. /\ Vol(own, fat', View', disk', Filled', saved')
          /\ Lineage(own, fat', disk', Filled', cwd', Trail')
        BY <1>1, <2>2, <2>3, <2>4, <2>5, <2>6, <2>7, <2>8, SlotFits
    <2>10. NewInv(own)' /\ Walks(own)' /\ Saving(own)'
        BY <2>8 DEF NewInv, New, Walks, Saving
    <2>. QED  BY <2>9, <2>10, FitsNext
<1>. QED  BY <1>2, <1>3

\* fat_delete_file unlinks an entry: its text is gone and no other.
LEMMA UnlinkFits ==
    ASSUME IInv, IInv', Clean, Clean', NEW own, Fits(own), Unlink, saved = [p \in Places |-> saved[p]]
    PROVE  Fits(own)'
<1>1. UNCHANGED <<fat, cwd, Trail>> /\ op.pc = "remove"
    <2>1. UNCHANGED <<fat, cwd, path>> /\ op.pc = "remove"  BY DEF Unlink
    <2>2. "here" \in events' <=> "here" \in events  BY DEF Unlink, Dotted
    <2>. QED  BY <2>1, <2>2 DEF Trail
<1>2. CASE Hits = {} /\ ~op.found
    <2>1. WalkOn(Idle) /\ UNCHANGED <<disk, saved>>  BY <1>2 DEF Unlink
    <2>2. /\ Looks(cache')
          /\ \/ op' = Idle
             \/ \E c \in Numbers : op' = [op EXCEPT !.at = c] /\ own[c] = cwd /\ fat[c] # 0
        BY <1>1, <2>1, WalkFits, Numbering
    <2>3. NewInv(own)' /\ Walks(own)' /\ Saving(own)' /\ op'.pc # "dots"
        BY <1>1, <2>1, <2>2, OpFits
    <2>. QED  BY <1>1, <2>1, <2>2, <2>3, StayFits
<1>3. CASE Hits = {} /\ op.found
    <2>1. op' = Idle /\ UNCHANGED <<cache, disk, saved>>  BY <1>3 DEF Unlink
    <2>2. NewInv(own)' /\ Walks(own)' /\ Saving(own)' /\ op'.pc # "dots"
        BY <1>1, <2>1, OpFits
    <2>. QED  BY <1>1, <2>1, <2>2, StayFits
<1>4. CASE Hits # {}
    <2>1. PICK i, f : i = Min(Hits) /\ f = At[i].cl  OBVIOUS
    <2>2. i \in Hits  BY <1>1, <1>4, <2>1, HitIsSlot
    <2>3. /\ disk' = [disk EXCEPT ![op.at][i].name = Deleted] /\ cache' = cache
          /\ saved' = [saved EXCEPT ![<<op.at, i>>] = NoText]
          /\ op' = [op EXCEPT !.pc = "free", !.file = f, !.slot = i + 1, !.found = TRUE]
        BY <1>4, <2>1 DEF Unlink
    <2>0. op.name \in Names
        <3>1. op.name \in Names \cup {Dot, DotDot}  BY <1>1, <1>4, HitWords
        <3>2. Dotted({op.name}) \subseteq events'  BY <1>4 DEF Unlink
        <3>3. {op.name} \cap {Dot, DotDot} = {}  BY <3>2, NoDots
        <3>. QED  BY <3>1, <3>3
    <2>4. /\ i \in Slots /\ <<op.at, i>> \in Places /\ At[i].name \in Names
          /\ f \in Heads(disk) /\ f \in Numbers /\ op.at \in Numbers /\ own[f] = f
          /\ own[op.at] = cwd /\ fat[op.at] # 0
        BY <1>1, <2>0, <2>1, <2>2, HitFits, FitsFacts
    <2>5. disk[op.at][i].name \in Names \cup {Blank}  BY <2>4 DEF At
    <2>. DEFINE s == Slot(Deleted, disk[op.at][i].attr, disk[op.at][i].cl, disk[op.at][i].size)
    <2>6. Written(disk, disk', op.at, i, s)  BY <2>3, <2>4, SlotExcept DEF IInv, TypeInv
    <2>7. s.attr = disk[op.at][i].attr /\ s.cl = disk[op.at][i].cl  BY DEF Slot
    <2>. HIDE DEF s
    <2>8. op'.pc = "free" /\ op'.at = op.at /\ op'.file = f
        BY <2>3 DEF IInv, TypeInv, OpType, OpShape
    <2>9. /\ \A p \in Places : saved'[p] \in {NoText, saved[p]}
          /\ saved'[<<op.at, i>>] = NoText
        BY <2>3, <2>4
    <2>10. /\ Vol(own, fat', View', disk', Filled', saved')
           /\ Lineage(own, fat', disk', Filled', cwd', Trail')
        BY <1>1, <2>3, <2>4, <2>5, <2>6, <2>7, <2>8, <2>9, SlotFits
    <2>11. f \notin Heads(disk')
        <3>1. OpInv'  BY DEF Clean, Intact, IInv
        <3>2. Doomed(op.file)'  BY <2>8, <3>1 DEF OpInv
        <3>3. op'.file \notin Heads(disk')
            BY <3>2 DEF Doomed, Heads, Named, Places, Slots
        <3>. QED  BY <2>8, <3>3
    <2>12. NewInv(own)' /\ Saving(own)'  BY <2>8 DEF NewInv, New, Saving
    <2>13. Walks(own)'
        <3>1. op'.file \notin Heads(disk)'
            BY <2>8, <2>11 DEF Heads, Named, Places, Slots
        <3>. QED  BY <1>1, <2>4, <2>8, <3>1 DEF Walks
    <2>. QED  BY <2>10, <2>12, <2>13, FitsNext
<1>. QED  BY <1>2, <1>3, <1>4 DEF Unlink

\* fat_write_file finds the file to save to, whose old text is gone from then on.
LEMMA LocateFits ==
    ASSUME IInv, IInv', Clean, Clean', NEW own, Fits(own), Locate, saved = [p \in Places |-> saved[p]]
    PROVE  Fits(own)'
<1>1. UNCHANGED <<fat, cwd, Trail>> /\ op.pc = "locate"
    <2>1. UNCHANGED <<fat, cwd, path>> /\ op.pc = "locate"  BY DEF Locate
    <2>2. "here" \in events' <=> "here" \in events  BY DEF Locate, Dotted
    <2>. QED  BY <2>1, <2>2 DEF Trail
<1>2. op.cmd = "save" /\ op.off = 0 /\ op.text.len \in 1 .. MaxBlocks /\ OpShape
    BY <1>1, FitsFacts DEF Fits, Walks, OpType
<1>3. CASE Hits = {}
    <2>1. WalkOn([op EXCEPT !.pc = "data"]) /\ UNCHANGED <<disk, saved>>
          /\ op'.pc # "data"
        BY <1>3 DEF Locate, Clean
    <2>2. [op EXCEPT !.pc = "data"].pc = "data"  BY <1>2 DEF OpShape
    <2>3. /\ Looks(cache')
          /\ \E c \in Numbers : op' = [op EXCEPT !.at = c] /\ own[c] = cwd /\ fat[c] # 0
        BY <1>1, <2>1, <2>2, WalkFits, Numbering
    <2>4. NewInv(own)' /\ Walks(own)' /\ Saving(own)' /\ op'.pc # "dots"
        BY <1>1, <2>1, <2>3, OpFits
    <2>. QED  BY <1>1, <2>1, <2>3, <2>4, StayFits
<1>4. CASE Hits # {}
    <2>1. PICK i, f, p, z : i = Min(Hits) /\ f = At[i].cl /\ p = <<op.at, i>> /\ z = op.text.len
        OBVIOUS
    <2>2. i \in Hits  BY <1>1, <1>4, <2>1, HitIsSlot
    <2>3. /\ disk' = [disk EXCEPT ![op.at][i].size = z] /\ cache' = cache
          /\ saved' = [saved EXCEPT ![p] = NoText]
          /\ op' = [op EXCEPT !.pc = "data", !.file = f, !.slot = i, !.found = TRUE]
          /\ At[i].attr # "dir"
        BY <1>4, <2>1 DEF Locate, Clean
    <2>0. op.name \in Names
        <3>1. op.name \in Names \cup {Dot, DotDot}  BY <1>1, <1>4, HitWords
        <3>2. Dotted({op.name}) \subseteq events'  BY <1>4 DEF Locate
        <3>3. {op.name} \cap {Dot, DotDot} = {}  BY <3>2, NoDots
        <3>. QED  BY <3>1, <3>3
    <2>4. /\ i \in Slots /\ p \in Places /\ p \in Named(disk) /\ ClusterOf(disk, p) = f
          /\ At[i].name \in Names /\ At[i].attr = "file" /\ f \in Heads(disk) /\ f \in Clusters
          /\ op.at \in Numbers /\ own[f] = f /\ fat[f] # 0
          /\ own[op.at] = cwd /\ fat[op.at] # 0
        BY <1>1, <2>0, <2>1, <2>2, <2>3, HitFits, FitsFacts
    <2>5. disk[op.at][i].name \in Names \cup {Blank} /\ disk[op.at][i].attr = "file"
        BY <2>4 DEF At
    <2>. DEFINE s == Slot(disk[op.at][i].name, disk[op.at][i].attr, disk[op.at][i].cl, z)
    <2>6. Written(disk, disk', op.at, i, s)  BY <2>3, <2>4, SlotExcept DEF IInv, TypeInv
    <2>7. s.name = disk[op.at][i].name /\ s.attr = disk[op.at][i].attr /\ s.cl = disk[op.at][i].cl
        BY DEF Slot
    <2>. HIDE DEF s
    <2>8. /\ op'.pc = "data" /\ op'.cmd = op.cmd /\ op'.at = op.at /\ op'.slot = i /\ op'.file = f
          /\ op'.found = TRUE /\ op'.text = op.text /\ op'.off = op.off
        BY <1>2, <2>3 DEF OpShape
    <2>9. saved'[p] = NoText /\ \A q \in Places : saved'[q] \in {NoText, saved[q]}
        BY <2>3, <2>4
    <2>10. /\ Vol(own, fat', View', disk', Filled', saved')
           /\ Lineage(own, fat', disk', Filled', cwd', Trail')
        <3>1. saved'[<<op.at, i>>] = NoText  BY <2>1, <2>9
        <3>. QED  BY <1>1, <2>3, <2>4, <2>5, <2>6, <2>7, <2>8, <2>9, <3>1, SlotFits
    <2>11. p \in FileEntries(disk') /\ ClusterOf(disk', p) = f
        <3>1. /\ p \in Named(disk') /\ ClusterOf(disk', p) = ClusterOf(disk, p)
              /\ disk'[p[1]][p[2]].attr = disk[p[1]][p[2]].attr
            <4>1. s.name \in Names \cup {Blank}  BY <2>5, <2>7
            <4>2. \A q \in Named(disk) : q # <<op.at, i>> \/ s.name \in Names \cup {Blank} =>
                      /\ q \in Named(disk') /\ ClusterOf(disk', q) = ClusterOf(disk, q)
                      /\ disk'[q[1]][q[2]].attr = disk[q[1]][q[2]].attr
                      /\ q # <<op.at, i>> => NameOf(disk', q) = NameOf(disk, q)
                <5>1. i \in Slots /\ op.at \in Numbers  BY <2>4
                <5>. QED  BY ONLY <2>5, <2>6, <2>7, <5>1, SlotEntries
            <4>. QED  BY <2>4, <4>1, <4>2
        <3>. QED  BY <2>1, <2>4, <2>5, <3>1 DEF FileEntries
    <2>12. Part(own, fat, disk', p, 1, f, op.text, 0)
        <3>. DEFINE r == [b \in 1 .. 1 |-> f]
        <3>1. r \in [1 .. 1 -> Clusters] /\ r[1] = f /\ \A x, y \in 1 .. 1 : r[x] = r[y] => x = y
            BY <2>4
        <3>2. LiesIn(own, fat, disk', f, r, 1, op.text, 0)
            <4>1. \A b \in 1 .. 1 : r[b] = f /\ ~ (b < 1)  BY <3>1
            <4>2. \A b \in 1 .. 0 : FALSE  OBVIOUS
            <4>. QED  BY <2>4, <3>1, <4>1, <4>2 DEF LiesIn
        <3>3. 0 \in 0 .. op.text.len - 1 /\ op.text.len \in 1 .. MaxBlocks /\ 1 \in {0, 0 + 1}
            BY <1>2
        <3>. HIDE DEF r
        <3>4. LiesIn(own, fat, disk', ClusterOf(disk', p), r, 1, op.text, 0)
            BY <2>11, <3>2
        <3>. QED  BY <2>11, <3>1, <3>3, <3>4 DEF Part
    <2>13. NewInv(own)'  BY <2>8 DEF NewInv, New
    <2>14. Walks(own)'  BY <1>1, <1>2, <2>4, <2>8 DEF Walks
    <2>15. Saving(own)'
        <3>1. <<op'.at, op'.slot>> = p /\ op'.off = 0 /\ op'.off + 1 = 1 /\ fat' = fat
            BY <1>1, <1>2, <2>1, <2>8
        <3>2. Part(own, fat', disk', <<op'.at, op'.slot>>, op'.off + 1, op'.file, op'.text, op'.off)
            BY <2>8, <2>12, <3>1
        <3>. QED  BY <2>8, <2>9, <3>1, <3>2 DEF Saving
    <2>. QED  BY <2>10, <2>13, <2>14, <2>15, FitsNext
<1>. QED  BY <1>3, <1>4

\* What is seen of the table once a cluster is given back behind the cache
\* (fat_delete_file).
LEMMA FreeLooks ==
    ASSUME CacheInv, TableInv, OpType, Free
    PROVE  View' \in {View, fat}
<1>1. PICK f : f = op.file  OBVIOUS
<1>2. f \in Numbers /\ cache' = Loaded(f) /\ fat' = [fat EXCEPT ![f] = 0]
    BY <1>1 DEF Free, OpType
<1>3. Looks(Loaded(f)) /\ f \in DOMAIN Loaded(f).buf  BY <1>2, LooksOnly, FollowingSeen
<1>4. View' = Seen(Loaded(f))
    <2>1. View' = [x \in Numbers |-> IF x \in DOMAIN Loaded(f).buf THEN Loaded(f).buf[x]
                                     ELSE fat'[x]]
        BY <1>2 DEF View, Seen, Numbers
    <2>2. \A x \in Numbers : x \notin DOMAIN Loaded(f).buf => fat'[x] = fat[x]
        BY <1>2, <1>3 DEF TableInv
    <2>. QED  BY <2>1, <2>2 DEF Seen
<1>. QED  BY <1>3, <1>4, SeenLooks

\* fat_free_chain frees a cluster of the file that was unlinked, and of no other.
LEMMA FreeFits ==
    ASSUME IInv, IInv', Clean, NEW own, Fits(own), Free
    PROVE  Fits(own)'
<1>1. PICK f : f = op.file  OBVIOUS
<1>0. UNCHANGED Trail  BY DEF Free, Trail
<1>2. /\ UNCHANGED <<disk, cwd, Trail>> /\ op.pc = "free" /\ f \in Numbers /\ OpShape
      /\ fat' = [fat EXCEPT ![f] = 0]
      /\ saved' = [p \in Places |-> IF p[1] = f THEN NoText ELSE saved[p]]
      /\ \/ Following(f) = Eoc /\ op' = [op EXCEPT !.pc = "remove"]
         \/ Following(f) # Eoc /\ op' = [op EXCEPT !.file = Following(f)]
    BY <1>0, <1>1 DEF Free, IInv, TypeInv, OpType
<1>3. /\ Whole(fat, disk) /\ OpInv /\ fat \in [Numbers -> FatEntry] /\ CacheInv /\ TableInv /\ OpType
      /\ op.at \in Numbers /\ own[op.at] = cwd /\ fat[op.at] # 0 /\ cwd \in Heads(disk)
      /\ Filled \subseteq DirEntries(disk)
    BY <1>2, FitsFacts
<1>4. own[f] \notin Heads(disk) /\ Vol(own, fat, View, disk, Filled, saved)
    BY <1>1, <1>2 DEF Fits, Walks, Volume
<1>5. op'.pc \in {"free", "remove"} /\ op'.at = op.at  BY <1>2 DEF OpShape
<1>6. Filled' = Filled  BY <1>2, <1>5, FilledStays
<1>7. PICK u \in {fat, View} : View' = u  BY <1>2, <1>3, FreeLooks, Zenon
<1>8. Vol(own, fat', View', disk, Filled, saved')
    <2>1. fat \in [Numbers -> FatEntry] /\ Whole(fat, disk)  BY <1>3
    <2>2. PICK t, v, w, d, sv, sw, dirs :
              /\ t = fat /\ v = fat' /\ w = View /\ d = disk /\ sv = saved /\ sw = saved'
              /\ dirs = Filled
        OBVIOUS
    <2>3. DOMAIN v = Numbers /\ v[f] = 0 /\ \A x \in Numbers \ {f} : v[x] = t[x]
        BY <1>2, <1>3, <2>2
    <2>4. \A p \in Places : sw[p] = NoText \/ (sw[p] = sv[p] /\ p[1] # f)  BY <1>2, <2>2
    <2>5. t \in [Numbers -> FatEntry] /\ Whole(t, d) /\ own[f] \notin Heads(d)
          /\ Vol(own, t, w, d, dirs, sv)
        BY <1>4, <2>1, <2>2
    <2>6. f \in Numbers  BY <1>2
    <2>7. Vol(own, v, t, d, dirs, sw) /\ Vol(own, v, w, d, dirs, sw)
        BY ONLY <2>3, <2>4, <2>5, <2>6, VolFree
    <2>. QED  BY <1>7, <2>2, <2>7
<1>9. Vol(own, fat', View', disk', Filled', saved')  BY <1>2, <1>6, <1>8
<1>10. Lineage(own, fat', disk', Filled', cwd', Trail')
    <2>1. \A h \in {Root} \cup {ClusterOf(disk, x) : x \in Filled} : h \in Heads(disk)
        BY <1>3, EntryHeads
    <2>2. ASSUME NEW q \in Filled, fat[q[1]] # 0,
                 own[q[1]] \in {Root} \cup {ClusterOf(disk, x) : x \in Filled}
          PROVE  /\ q \in Filled' /\ ClusterOf(disk', q) = ClusterOf(disk, q) /\ fat'[q[1]] # 0
                 /\ NameOf(disk', q) = NameOf(disk, q)
        <3>1. q[1] # f /\ q[1] \in Numbers
            BY <1>3, <1>4, <2>1, <2>2, EntryHeads, PlaceParts
        <3>. QED  BY <1>2, <1>3, <1>6, <2>2, <3>1
    <2>3. Lineage(own, fat, disk, Filled, cwd, Trail)  BY DEF Fits
    <2>4. Lineage(own, fat', disk', Filled', cwd, Trail)
        BY ONLY <2>2, <2>3, LineageStays
    <2>. QED  BY <1>2, <2>4
<1>11. ASSUME op'.pc = "free" PROVE own[op'.file] \notin Heads(disk)'
    <2>1. op' = [op EXCEPT !.file = Following(f)] /\ Following(f) # Eoc
        BY <1>2, <1>11 DEF OpShape
    <2>2. op'.file = Following(f)  BY <1>2, <2>1 DEF OpShape
    <2>3. Doomed(f)  BY <1>1, <1>2, <1>3 DEF OpInv
    <2>4. Following(f) = fat[f] /\ fat[f] \in FatEntry /\ fat[f] # 0
        BY <1>2, <1>3, <2>3, FollowingType DEF Doomed
    <2>5. fat[f] \in Clusters  BY <2>1, <2>4 DEF FatEntry
    <2>6. own[fat[f]] = own[f]  BY <1>2, <1>3, <1>4, <2>5 DEF Vol, Divides
    <2>7. own[op'.file] \notin Heads(disk)  BY <1>4, <2>2, <2>4, <2>6
    <2>. QED  BY <1>2, <2>7 DEF Heads, Named, Places, Slots
<1>12. NewInv(own)' /\ Saving(own)'  BY <1>5 DEF NewInv, New, Saving
<1>13. own[op'.at] = cwd' /\ fat'[op'.at] # 0  BY <1>2, <1>3, <1>4, <1>5
<1>14. Walks(own)'  BY <1>5, <1>11, <1>13 DEF Walks
<1>. QED  BY <1>9, <1>10, <1>12, <1>14, FitsNext

\* A command starts, or the directory is changed without a look at the table.
LEMMA CallFits ==
    ASSUME IInv, IInv', Clean, NEW own, Fits(own), Call
    PROVE  Fits(own)'
<1>1. UNCHANGED <<fat, disk, cache, saved>> /\ op.pc = "idle"
    BY DEF Call, Create, MkDir, CdTo, Remove, Cat, List, Move, Save, Start, CdRoot, CdBack
<1>2. own[cwd] = cwd /\ fat[cwd] # 0 /\ Whole(fat, disk) /\ Filled \subseteq DirEntries(disk)
      /\ Lineage(own, fat, disk, Filled, cwd, Trail)
    BY FitsFacts DEF Fits
<1>3. ASSUME cwd' = cwd, UNCHANGED Trail,
             NEW pc \in {"check", "open", "remove", "read", "list", "rename", "locate"},
             NEW cmd, NEW n, NEW w, NEW x,
             pc = "check" => cmd # "save",
             pc = "locate" => cmd = "save" /\ x.len \in 1 .. MaxBlocks,
             op' = [pc |-> pc, cmd |-> cmd, name |-> n, word |-> w, at |-> cwd, slot |-> 1,
                    found |-> FALSE, file |-> 0, new |-> 0, off |-> 0, text |-> x]
      PROVE  Fits(own)'
    <2>1. op'.pc = pc /\ op'.cmd = cmd /\ op'.at = cwd /\ op'.off = 0 /\ op'.text = x
        BY <1>3
    <2>2. NewInv(own)' /\ Saving(own)'  BY <1>3, <2>1 DEF NewInv, New, Saving
    <2>3. Walks(own)'  BY <1>1, <1>2, <1>3, <2>1 DEF Walks
    <2>4. Lineage(own, fat, disk, Filled, cwd', Trail')  BY <1>2, <1>3
    <2>. QED  BY <1>1, <1>3, <2>1, <2>2, <2>3, <2>4, QuietFits
<1>4. CASE \E n \in Typed : Create(n) \/ MkDir(n) \/ CdTo(n) \/ Remove(n) \/ Cat(n)
    <2>1. PICK n \in Typed, pc \in {"check", "open", "remove", "read"},
               cmd \in {"create", "mkdir", "cd", "rm", "cat"} : Start(Command(pc, cmd, n))
        BY <1>4 DEF Create, MkDir, CdTo, Remove, Cat
    <2>2. /\ cwd' = cwd /\ UNCHANGED Trail
          /\ op' = [pc |-> pc, cmd |-> cmd, name |-> n, word |-> "", at |-> cwd, slot |-> 1,
                    found |-> FALSE, file |-> 0, new |-> 0, off |-> 0, text |-> NoText]
        BY <2>1 DEF Start, Command, Idle, Trail
    <2>3. /\ pc \in {"check", "open", "remove", "read", "list", "rename", "locate"}
          /\ (pc = "check" => cmd # "save") /\ pc # "locate"
        BY ONLY pc \in {"check", "open", "remove", "read"},
                cmd \in {"create", "mkdir", "cd", "rm", "cat"}
    <2>. QED  BY ONLY <1>3, <2>2, <2>3
<1>5. CASE \E n, w \in Typed \cup {""} : Move(n, w)
    <2>1. PICK n, w : Move(n, w)  BY <1>5
    <2>2. /\ cwd' = cwd /\ UNCHANGED Trail
          /\ op' = [pc |-> "rename", cmd |-> "mv", name |-> n, word |-> w, at |-> cwd, slot |-> 1,
                    found |-> FALSE, file |-> 0, new |-> 0, off |-> 0, text |-> NoText]
        BY <2>1 DEF Move, Start, Command, Idle, Trail
    <2>. QED  BY <1>3, <2>2
<1>6. CASE \E n \in Typed, v \in Versions, len \in 1 .. MaxBlocks : Save(n, v, len)
    <2>1. PICK n \in Typed, v \in Versions, len \in 1 .. MaxBlocks : Save(n, v, len)
        BY <1>6
    <2>2. /\ cwd' = cwd /\ UNCHANGED Trail
          /\ op' = [pc |-> "locate", cmd |-> "save", name |-> n, word |-> "", at |-> cwd, slot |-> 1,
                    found |-> FALSE, file |-> 0, new |-> 0, off |-> 0, text |-> [v |-> v, len |-> len]]
        BY <2>1 DEF Save, Start, Command, Idle, Trail
    <2>3. [v |-> v, len |-> len].len \in 1 .. MaxBlocks  OBVIOUS
    <2>. QED  BY <1>3, <2>2, <2>3
<1>7. CASE List
    <2>1. /\ cwd' = cwd /\ UNCHANGED Trail
          /\ op' = [pc |-> "list", cmd |-> "dir", name |-> "", word |-> "", at |-> cwd, slot |-> 1,
                    found |-> FALSE, file |-> 0, new |-> 0, off |-> 0, text |-> NoText]
        BY <1>7 DEF List, Start, Command, Idle, Trail
    <2>. QED  BY <1>3, <2>1
<1>8. CASE CdRoot \/ CdBack
    <2>1. op' = op  BY <1>8 DEF CdRoot, CdBack
    <2>2. NewInv(own)' /\ Saving(own)' /\ Walks(own)'
        BY <1>1, <2>1 DEF NewInv, New, Saving, Walks
    <2>3. Lineage(own, fat, disk, Filled, cwd', Trail')
        <3>1. CASE CdRoot
            <4>1. cwd' = Root /\ Trail' = <<>>  BY <3>1 DEF CdRoot, Trail
            <4>. QED  BY <4>1, LineageRoot
        <3>2. CASE CdBack
            <4>1. cwd' = Parent(disk, cwd) /\ cwd # Root  BY <3>2 DEF CdBack
            <4>2. Upward(own, disk, Filled)  BY DEF Fits, Volume, Vol
            <4>3. Cuts(Trail, Trail')
                <5>1. CASE "here" \in events  BY <3>2, <5>1, PathIsCut DEF CdBack, Trail
                <5>2. CASE "here" \notin events
                    <6>1. Trail = path /\ Trail' = CutPath
                        BY <3>2, <5>2 DEF CdBack, Trail
                    <6>2. Trail \in Seq(Words)  BY <1>2 DEF Lineage, Line
                    <6>. QED  BY <6>1, <6>2, PathIsCut
                <5>. QED  BY <5>1, <5>2
            <4>. QED  BY <1>2, <4>1, <4>2, <4>3, LineageUp
        <3>. QED  BY <1>8, <3>1, <3>2
    <2>. QED  BY <1>1, <2>1, <2>2, <2>3, QuietFits
<1>. QED  BY <1>4, <1>5, <1>6, <1>7, <1>8 DEF Call

\* The power goes off (fat_init).
LEMMA CrashFits ==
    ASSUME IInv, IInv', Clean, Clean', NEW own, Fits(own), Crash
    PROVE  Fits(own)'
<1>1. /\ UNCHANGED <<fat, disk, saved>> /\ cache' = NoCache /\ cwd' = Root /\ Trail' = <<Slash>>
      /\ op' = Idle /\ op.pc # "dots"
    BY DEF Crash, Clean, Trail
<1>2. op'.pc = "idle"  BY <1>1 DEF Idle
<1>3. View' = fat
    <2>1. DOMAIN NoCache.buf = {}  BY DEF NoCache
    <2>2. View' = [x \in Numbers |-> IF x \in DOMAIN NoCache.buf THEN NoCache.buf[x] ELSE fat[x]]
        BY <1>1 DEF View, Seen, Numbers
    <2>. QED  BY <2>1, <2>2 DEF IInv, TypeInv, TableInv
<1>4. Filled' = Filled  BY <1>1, <1>2, FilledStays
<1>5. Vol(own, fat, View, disk, Filled, saved)  BY DEF Fits, Volume
<1>6. Vol(own, fat, fat, disk, Filled, saved)  BY <1>5, VolLook
<1>7. Vol(own, fat', View', disk', Filled', saved')  BY <1>1, <1>3, <1>4, <1>6
<1>8. Lineage(own, fat', disk', Filled', cwd', Trail')  BY <1>1, LineageRoot
<1>9. NewInv(own)' /\ Saving(own)' /\ Walks(own)'
    BY <1>2 DEF NewInv, New, Saving, Walks
<1>. QED  BY <1>7, <1>8, <1>9, FitsNext

-----------------------------------------------------------------------------
\* What a step leaves of a text that is being written.
LEMMA PartStill ==
    ASSUME NEW own, NEW t, NEW d, NEW p, NEW n, NEW file, NEW text, NEW off,
           Part(own, t, d, p, n, file, text, off),
           NEW o, NEW u, NEW e, p \in FileEntries(e), ClusterOf(e, p) = ClusterOf(d, p),
           \A x \in Clusters : own[x] = ClusterOf(d, p) /\ t[x] # 0 =>
               o[x] = own[x] /\ u[x] = t[x] /\ e[x] = d[x]
    PROVE  Part(o, u, e, p, n, file, text, off)
<1>1. /\ text.len \in 1 .. MaxBlocks /\ off \in 0 .. text.len - 1
      /\ n \in {off, off + 1} /\ n # 0
    BY DEF Part
<1>2. n \in Nat /\ off \in 0 .. n  BY <1>1
<1>3. PICK s \in [1 .. n -> Clusters] :
          /\ LiesIn(own, t, d, ClusterOf(d, p), s, n, text, off) /\ s[n] = file
          /\ \A i, j \in 1 .. n : s[i] = s[j] => i = j
    BY DEF Part
<1>4. LiesIn(o, u, e, ClusterOf(e, p), s, n, text, off)  BY <1>2, <1>3, LiesStill
<1>. QED  BY <1>1, <1>3, <1>4 DEF Part

\* fat_alloc_cluster marks an entry of the table as it sees it.
LEMMA TakeSeen ==
    ASSUME IInv, NEW c, FreeSeen # {}, c = Min(FreeSeen), Take(c)
    PROVE  /\ c \in Clusters /\ View' = fat'
           /\ \E u : /\ u = View \/ u = fat
                     /\ u[c] = 0 /\ fat' = [u EXCEPT ![c] = Eoc]
                     /\ \A x \in Numbers : fat[x] # 0 => u[x] = fat[x]
<1>. DEFINE ch == Scanned(FatSector(c))
            t == Seen(ch)
<1>1. c \in FreeSeen /\ c \in Clusters
    <2>1. FreeSeen \subseteq Clusters /\ Clusters \subseteq Nat
        BY Numbering DEF FreeSeen, Clusters
    <2>. QED  BY <2>1, MinIsIn
<1>2. ch.buf[c] = 0 /\ c \in DOMAIN ch.buf
    <2>1. Shows(ch, fat) /\ ch.nr = FatSector(c)  BY LookShows DEF Scanned, Sector, IInv
    <2>2. c \in Numbers  BY <1>1, Numbering
    <2>. QED  BY <1>1, <2>1, <2>2 DEF FreeSeen, Shows, EntriesOf, Numbers
<1>3. Looks(ch)  BY LooksOnly
<1>4. (t = View \/ t = fat) /\ \A x \in Numbers : fat[x] # 0 => t[x] = fat[x]
    BY <1>3, SeenLooks, SeenAgrees DEF IInv, TypeInv
<1>5. t[c] = 0  BY <1>1, <1>2, Numbering DEF Seen
<1>6. fat' = [t EXCEPT ![c] = Eoc] /\ View' = fat'
    BY <1>2, <1>3, FlushSeen DEF IInv, TypeInv, Take
<1>. HIDE DEF t
<1>. QED  BY <1>1, <1>4, <1>5, <1>6

\* The links that the driver sees behind the clusters of a directory are on the disk
\* (fat_load_sector).
LEMMA DirsInUse ==
    ASSUME NEW own, NEW t \in [Numbers -> FatEntry], NEW u \in [Numbers -> FatEntry], NEW d,
           Whole(t, d), Attached(own, u, Folders(d)), \A y \in Numbers : t[y] # 0 => u[y] = t[y],
           NEW x \in Numbers, u[x] # 0, own[x] \in Folders(d)
    PROVE  t[x] # 0
<1>. DEFINE S == {y \in Numbers : t[y] # 0}
<1>1. S \in SUBSET Numbers /\ Clusters \subseteq Numbers  BY Numbering
<1>2. Folders(d) \subseteq S  BY <1>1, EntryHeads
<1>3. ASSUME NEW y \in S \cap DOMAIN u, u[y] \in Clusters PROVE u[y] \in S
    <2>1. y \in Numbers /\ t[y] \in Clusters /\ u[y] = t[y]  BY <1>3
    <2>2. t[t[y]] # 0  BY <2>1 DEF Whole, Joined
    <2>. QED  BY <1>1, <2>1, <2>2
<1>. HIDE DEF S
<1>4. x \in S  BY <1>1, <1>2, <1>3 DEF Attached
<1>. QED  BY <1>4 DEF S

\* The clusters of directories keep their owner and the link behind them
\* (fat_alloc_cluster).
LeavesDirs(own, o) ==
    \A x \in Numbers : fat'[x] # 0 /\ o[x] \in Folders(disk) =>
        fat[x] # 0 /\ own[x] = o[x] /\ fat'[x] = fat[x]

\* What a cluster that is taken leaves of the volume (fat_alloc_cluster).
TakenFits(own, o, c) ==
    /\ LeavesDirs(own, o)
    /\ c \in Clusters
    /\ Vol(o, fat', View', disk', Filled', saved') /\ Lineage(o, fat', disk', Filled', cwd', Trail')
    /\ Alone(o, fat', saved', c)
    /\ \A x \in Numbers : fat[x] # 0 /\ own[x] \in Heads(disk) => o[x] = own[x] /\ fat'[x] = fat[x]

\* fat_alloc_cluster takes a cluster that belongs to no file.
LEMMA TakeFits ==
    ASSUME IInv, Clean, NEW own, Fits(own), NEW c, FreeSeen # {}, c = Min(FreeSeen), Take(c),
           UNCHANGED <<disk, saved, cwd, Trail>>, op.pc # "dots", op'.pc # "dots"
    PROVE  \E o : TakenFits(own, o, c)
<1>1. /\ Whole(fat, disk) /\ WholeInv /\ Filled \subseteq DirEntries(disk)
      /\ fat \in [Numbers -> FatEntry] /\ View \in [Numbers -> FatEntry]
    BY FitsFacts
<1>2. Filled' = Filled  BY FilledStays
<1>3. c \in Clusters /\ View' = fat'  BY TakeSeen
<1>4. PICK u : /\ u = View \/ u = fat
               /\ u[c] = 0 /\ fat' = [u EXCEPT ![c] = Eoc]
               /\ \A x \in Numbers : fat[x] # 0 => u[x] = fat[x]
    BY TakeSeen
<1>5. PICK o \in [Numbers -> Numbers] :
          \A x \in Numbers : o[x] = IF x = c THEN c ELSE IF own[x] = c THEN 0 ELSE own[x]
    <2>. DEFINE o == [x \in Numbers |-> IF x = c THEN c ELSE IF own[x] = c THEN 0 ELSE own[x]]
    <2>1. o \in [Numbers -> Numbers]  BY <1>3, FitsFacts, Numbering
    <2>. QED  BY <2>1
<1>6. PICK t, w, d, dirs, sv, v :
          /\ t = fat /\ w = View /\ d = disk /\ dirs = Filled /\ sv = saved /\ v = fat'
    OBVIOUS
<1>7. /\ t \in [Numbers -> FatEntry] /\ w \in [Numbers -> FatEntry] /\ Whole(t, d)
      /\ dirs \subseteq DirEntries(d)
    BY <1>1, <1>6
<1>8. Vol(own, t, w, d, dirs, sv) /\ Lineage(own, t, d, dirs, cwd, Trail)
    BY <1>6 DEF Fits, Volume
<1>9. /\ u \in [Numbers -> FatEntry] /\ Vol(own, t, u, d, dirs, sv)
      /\ \A x \in Numbers : t[x] # 0 => u[x] = t[x]
    BY <1>4, <1>6, <1>7, <1>8, VolLook
<1>10. Joined(u, Heads(d))  BY <1>1, <1>4, <1>6 DEF WholeInv, Whole
<1>11. /\ u[c] = 0 /\ v[c] = Eoc /\ v \in [Numbers -> FatEntry]
       /\ \A x \in Numbers \ {c} : v[x] = u[x]
    BY <1>1, <1>3, <1>4, <1>6, Numbering DEF FatEntry
<1>12. /\ Vol(o, v, v, d, dirs, sv) /\ v[c] = Eoc /\ o[c] = c
       /\ \A x \in Numbers : o[x] = c => x = c
       /\ \A p \in Places : sv[p] # NoText => p[1] # c
       /\ \A x \in Numbers : t[x] # 0 /\ own[x] \in Heads(d) =>
             x # c /\ o[x] = own[x] /\ v[x] = t[x]
    <2>1. VolTaken(own, t, d, dirs, sv, c, o, v)
        BY ONLY <1>3, <1>5, <1>7, <1>8, <1>9, <1>10, <1>11, VolTake
    <2>. QED  BY <2>1 DEF VolTaken
<1>13. Alone(o, v, sv, c)  BY <1>12 DEF Alone
<1>14. Lineage(o, v, d, dirs, cwd, Trail)
    <2>1. {Root} \cup {ClusterOf(d, x) : x \in dirs} \subseteq Heads(d)
        BY <1>7, EntryHeads
    <2>2. \A q \in dirs : q[1] \in Numbers  BY <1>7, EntryHeads, PlaceParts
    <2>3. \A q \in dirs : t[q[1]] # 0 /\ own[q[1]] \in {Root} \cup {ClusterOf(d, x) : x \in dirs} =>
              q \in dirs /\ ClusterOf(d, q) = ClusterOf(d, q) /\ v[q[1]] # 0 /\ o[q[1]] = own[q[1]]
        BY <1>12, <2>1, <2>2
    <2>. QED  BY ONLY <1>8, <2>3, LineageStays
<1>15. Vol(o, fat', View', disk', Filled', saved') /\ Lineage(o, fat', disk', Filled', cwd', Trail')
       /\ Alone(o, fat', saved', c)
    BY <1>2, <1>3, <1>6, <1>12, <1>13, <1>14
<1>16. \A x \in Numbers : fat[x] # 0 /\ own[x] \in Heads(disk) => o[x] = own[x] /\ fat'[x] = fat[x]
    BY <1>6, <1>12
<1>17. LeavesDirs(own, o)
    <2>. SUFFICES ASSUME NEW x \in Numbers, v[x] # 0, o[x] \in Folders(d)
                  PROVE  t[x] # 0 /\ own[x] = o[x] /\ v[x] = t[x]
        BY <1>6 DEF LeavesDirs
    <2>1. Folders(d) \subseteq Heads(d) /\ 0 \notin Heads(d) /\ \A h \in Heads(d) : t[h] # 0 /\ h \in Numbers
        BY <1>7, EntryHeads, Numbering
    <2>2. x # c  BY <1>5, <1>9, <1>11, <2>1
    <2>3. own[x] = o[x] /\ u[x] # 0 /\ v[x] = u[x]  BY <1>5, <1>11, <2>1, <2>2
    <2>4. Attached(own, u, Folders(d))  BY <1>9 DEF Vol
    <2>5. t[x] # 0  BY <1>7, <1>9, <2>3, <2>4, DirsInUse
    <2>. QED  BY <1>9, <2>3, <2>5
<1>18. TakenFits(own, o, c)  BY <1>3, <1>15, <1>16, <1>17 DEF TakenFits
<1>. QED  BY <1>18

\* fat_write_file and fat_create_dir take a cluster for the new entry.
LEMMA PlaceFits ==
    ASSUME IInv, IInv', Clean, NEW own, Fits(own), Place
    PROVE  \E o : Fits(o)' /\ LeavesDirs(own, o)
<1>1. UNCHANGED <<disk, saved, cwd, Trail>> /\ op.pc = "place"  BY DEF Trail, Place
<1>2. /\ op.at \in Numbers /\ own[op.at] = cwd /\ fat[op.at] # 0 /\ cwd \in Heads(disk)
      /\ op.cmd # "save" /\ OpShape
    BY <1>1, FitsFacts DEF Fits, Walks, OpType
<1>. DEFINE entry(c) == [op EXCEPT !.pc = "entry", !.slot = Min(OpenSlots), !.file = c]
<1>3. \/ OpenSlots # {} /\ FreeSeen # {} /\ Take(Min(FreeSeen)) /\ op' = entry(Min(FreeSeen))
      \/ OpenSlots # {} /\ FindNone /\ op' = entry(0)
      \/ UNCHANGED fat /\ WalkOn([op EXCEPT !.pc = "mark", !.file = op.at])
    BY <1>1 DEF Place
<1>4. ASSUME NEW c, OpenSlots # {}, op' = entry(c)
      PROVE  /\ op'.pc = "entry" /\ op'.at = op.at /\ op'.cmd = op.cmd /\ op'.file = c
             /\ disk[op'.at][op'.slot].name \in {Nul, Deleted}
    <2>1. OpenSlots \subseteq Slots /\ Slots \subseteq Nat  BY Numbering DEF OpenSlots
    <2>2. PICK i \in OpenSlots : i = Min(OpenSlots)  BY <1>4, <2>1, MinIsIn
    <2>3. /\ op'.pc = "entry" /\ op'.at = op.at /\ op'.cmd = op.cmd /\ op'.file = c /\ op'.slot = i
        BY <1>2, <1>4, <2>2 DEF OpShape
    <2>. QED  BY <2>2, <2>3 DEF At, OpenSlots
<1>. HIDE DEF entry
<1>5. CASE OpenSlots # {} /\ FreeSeen # {} /\ Take(Min(FreeSeen)) /\ op' = entry(Min(FreeSeen))
    <2>1. PICK c : c = Min(FreeSeen) /\ Take(c) /\ op' = entry(c)  BY <1>5
    <2>2. /\ op'.pc = "entry" /\ op'.at = op.at /\ op'.cmd = op.cmd /\ op'.file = c
          /\ disk[op'.at][op'.slot].name \in {Nul, Deleted}
        BY <1>4, <1>5, <2>1
    <2>3. PICK o : TakenFits(own, o, c)  BY <1>1, <1>5, <2>1, <2>2, TakeFits
    <2>4. o[op.at] = cwd /\ fat'[op.at] # 0  BY <1>2, <2>3 DEF TakenFits
    <2>5. New' = {c} \ {0}  BY <2>2 DEF New
    <2>6. NewInv(o)'
        BY <2>3, <2>5 DEF NewInv, TakenFits, Alone, Numbers, Places, Slots, Eoc
    <2>7. Walks(o)'  BY <1>1, <1>2, <2>2, <2>4 DEF Walks
    <2>8. Saving(o)'  BY <1>2, <2>2 DEF Saving
    <2>9. Vol(o, fat', View', disk', Filled', saved') /\ Lineage(o, fat', disk', Filled', cwd', Trail')
        BY <2>3 DEF TakenFits
    <2>. QED  BY <2>3, <2>6, <2>7, <2>8, <2>9, FitsNext DEF TakenFits
<1>6. CASE OpenSlots # {} /\ FindNone /\ op' = entry(0)
    <2>1. UNCHANGED fat /\ Looks(cache')  BY <1>6, LooksOnly DEF FindNone
    <2>2. /\ op'.pc = "entry" /\ op'.at = op.at /\ op'.cmd = op.cmd /\ op'.file = 0
          /\ disk[op'.at][op'.slot].name \in {Nul, Deleted}
        BY <1>4, <1>6
    <2>3. New' = {}  BY <2>2 DEF New
    <2>4. NewInv(own)' /\ Walks(own)' /\ Saving(own)'
        BY <1>1, <1>2, <2>1, <2>2, <2>3 DEF NewInv, Walks, Saving
    <2>5. Fits(own)'  BY <1>1, <2>1, <2>2, <2>4, StayFits
    <2>. QED  BY <2>1, <2>5 DEF LeavesDirs
<1>7. CASE UNCHANGED fat /\ WalkOn([op EXCEPT !.pc = "mark", !.file = op.at])
    <2>1. /\ Looks(cache')
          /\ \/ op' = [op EXCEPT !.pc = "mark", !.file = op.at] /\ fat[op.at] = Eoc
             \/ \E c \in Numbers : op' = [op EXCEPT !.at = c] /\ own[c] = cwd /\ fat[c] # 0
        BY <1>1, <1>7, WalkFits, Numbering
    <2>2. NewInv(own)' /\ Walks(own)' /\ Saving(own)' /\ op'.pc # "dots"
        BY <1>1, <1>7, <2>1, OpFits
    <2>3. Fits(own)'  BY <1>1, <1>7, <2>1, <2>2, StayFits
    <2>. QED  BY <1>7, <2>3 DEF LeavesDirs
<1>. QED  BY <1>3, <1>5, <1>6, <1>7

\* fat_extend_dir and fat_write_data take a cluster to link.
LEMMA MarkFits ==
    ASSUME IInv, IInv', Clean, NEW own, Fits(own), Mark
    PROVE  \E o : Fits(o)' /\ LeavesDirs(own, o)
<1>1. UNCHANGED <<disk, saved, cwd, Trail>> /\ op.pc = "mark"  BY DEF Trail, Mark
<1>2. /\ op.at \in Numbers /\ own[op.at] = cwd /\ fat[op.at] # 0 /\ cwd \in Heads(disk)
      /\ op.cmd # "save" => op.file = op.at /\ fat[op.file] = Eoc
      /\ OpShape /\ Whole(fat, disk) /\ Saving(own)
    BY <1>1, FitsFacts DEF Fits, Walks, OpType
<1>3. CASE FreeSeen # {}
    <2>1. PICK c : /\ c = Min(FreeSeen) /\ Take(c)
                   /\ op' = [op EXCEPT !.pc = "zero", !.new = c]
        BY <1>3 DEF Mark
    <2>2. /\ op'.pc = "zero" /\ op'.new = c /\ op'.at = op.at /\ op'.cmd = op.cmd
          /\ op'.file = op.file /\ op'.slot = op.slot /\ op'.found = op.found
          /\ op'.off = op.off /\ op'.text = op.text
        BY <1>2, <2>1 DEF OpShape
    <2>3. PICK o : TakenFits(own, o, c)  BY <1>1, <1>3, <2>1, <2>2, TakeFits
    <2>4. o[op.at] = cwd /\ fat'[op.at] = fat[op.at]  BY <1>2, <2>3 DEF TakenFits
    <2>5. New' = {c}  BY <2>2 DEF New
    <2>6. NewInv(o)'
        BY <2>3, <2>5 DEF NewInv, TakenFits, Alone, Numbers, Places, Slots, Eoc
    <2>7. Walks(o)'  BY <1>1, <1>2, <2>2, <2>4 DEF Walks, Eoc
    <2>8. Saving(o)'
        <3>. SUFFICES ASSUME op.cmd = "save" PROVE Saving(o)'  BY <2>2 DEF Saving
        <3>1. PICK p : p = <<op.at, op.slot>>  OBVIOUS
        <3>2. /\ saved[p] = NoText /\ op.found = TRUE
              /\ Part(own, fat, disk, p, op.off, op.file, op.text, op.off)
            BY <1>1, <1>2, <3>1 DEF Saving
        <3>3. p \in FileEntries(disk) /\ ClusterOf(disk, p) \in Heads(disk)
            BY <1>2, <3>2, EntryHeads DEF Part
        <3>4. \A x \in Clusters : own[x] = ClusterOf(disk, p) /\ fat[x] # 0 =>
                  o[x] = own[x] /\ fat'[x] = fat[x]
            BY <2>3, <3>3, Numbering DEF TakenFits
        <3>5. Part(o, fat', disk, p, op.off, op.file, op.text, op.off)
            <4>1. PICK u, d : u = fat' /\ d = disk  OBVIOUS
            <4>2. p \in FileEntries(d) /\ ClusterOf(d, p) = ClusterOf(disk, p)
                BY <3>3, <4>1
            <4>3. \A x \in Clusters : own[x] = ClusterOf(disk, p) /\ fat[x] # 0 =>
                      o[x] = own[x] /\ u[x] = fat[x] /\ d[x] = disk[x]
                BY <3>4, <4>1
            <4>4. Part(own, fat, disk, p, op.off, op.file, op.text, op.off)  BY <3>2
            <4>5. Part(o, u, d, p, op.off, op.file, op.text, op.off)
                BY ONLY <4>2, <4>3, <4>4, PartStill
            <4>. QED  BY <4>1, <4>5
        <3>6. Part(o, fat', disk', <<op'.at, op'.slot>>, op'.off, op'.file, op'.text, op'.off)
            BY <1>1, <2>2, <3>1, <3>5
        <3>7. saved'[<<op'.at, op'.slot>>] = NoText  BY <1>1, <2>2, <3>1, <3>2
        <3>. QED  BY <2>2, <3>2, <3>6, <3>7 DEF Saving
    <2>9. Vol(o, fat', View', disk', Filled', saved') /\ Lineage(o, fat', disk', Filled', cwd', Trail')
        BY <2>3 DEF TakenFits
    <2>. QED  BY <2>3, <2>6, <2>7, <2>8, <2>9, FitsNext DEF TakenFits
<1>4. CASE FreeSeen = {}
    <2>1. UNCHANGED fat /\ Looks(cache') /\ op' = Idle
        BY <1>4, LooksOnly DEF Mark, FindNone
    <2>2. NewInv(own)' /\ Walks(own)' /\ Saving(own)' /\ op'.pc # "dots"
        BY <1>1, <2>1, OpFits
    <2>3. Fits(own)'  BY <1>1, <2>1, <2>2, StayFits
    <2>. QED  BY <2>1, <2>3 DEF LeavesDirs
<1>. QED  BY <1>3, <1>4

\* The next cluster of a text is linked behind the ones that are written.
LEMMA PartLonger ==
    ASSUME NEW own, NEW t, NEW d, NEW p, NEW file, NEW text, NEW off,
           Part(own, t, d, p, off, file, text, off),
           NEW c \in Clusters, NEW o, NEW u, o[c] = ClusterOf(d, p), u[c] # 0, u[file] = c,
           \A x \in Clusters : own[x] = ClusterOf(d, p) /\ t[x] # 0 =>
               x # c /\ o[x] = own[x] /\ u[x] # 0 /\ (x # file => u[x] = t[x])
    PROVE  Part(o, u, d, p, off + 1, c, text, off)
<1>1. /\ p \in FileEntries(d) /\ text.len \in 1 .. MaxBlocks /\ off \in 0 .. text.len - 1 /\ off # 0
    BY DEF Part
<1>2. off \in Nat /\ off \in 1 .. off /\ off + 1 \in {off, off + 1} /\ off + 1 # 0
    BY <1>1
<1>3. PICK s \in [1 .. off -> Clusters] :
          /\ LiesIn(own, t, d, ClusterOf(d, p), s, off, text, off) /\ s[off] = file
          /\ \A i, j \in 1 .. off : s[i] = s[j] => i = j
    BY DEF Part
<1>. DEFINE r == [b \in 1 .. off + 1 |-> IF b = off + 1 THEN c ELSE s[b]]
<1>4. /\ r \in [1 .. off + 1 -> Clusters] /\ r[off + 1] = c
      /\ \A b \in 1 .. off : r[b] = s[b]
    BY <1>2
<1>5. \A b \in 1 .. off + 1 : b = off + 1 \/ b \in 1 .. off  BY <1>2
<1>. HIDE DEF r
<1>6. \A b \in 1 .. off : /\ s[b] \in Clusters /\ own[s[b]] = ClusterOf(d, p) /\ t[s[b]] # 0
                          /\ b < off => t[s[b]] = s[b + 1]
    BY <1>3 DEF LiesIn
<1>7. \A b \in 1 .. off : /\ s[b] # c /\ o[s[b]] = ClusterOf(d, p) /\ u[s[b]] # 0
                          /\ (s[b] # file => u[s[b]] = t[s[b]])
    BY <1>6
<1>8. ASSUME NEW b \in 1 .. off PROVE u[r[b]] = r[b + 1]
    <2>1. CASE b = off  BY <1>2, <1>3, <1>4, <2>1
    <2>2. CASE b # off
        <3>1. b < off /\ b + 1 \in 1 .. off  BY <1>2, <2>2
        <3>2. s[b] # file  BY <1>2, <1>3, <2>2
        <3>. QED  BY <1>4, <1>6, <1>7, <3>1, <3>2
    <2>. QED  BY <2>1, <2>2
<1>9. \A b \in 1 .. off + 1 : /\ o[r[b]] = ClusterOf(d, p) /\ u[r[b]] # 0
                              /\ b < off + 1 => u[r[b]] = r[b + 1]
    BY <1>2, <1>4, <1>5, <1>7, <1>8
<1>10. \A i, j \in 1 .. off + 1 : r[i] = r[j] => i = j  BY <1>3, <1>4, <1>5, <1>7
<1>11. r[1] = ClusterOf(d, p) /\ \A b \in 1 .. off : d[r[b]] = TextSector(text.v, b, b = text.len)
    BY <1>1, <1>2, <1>3, <1>4 DEF LiesIn
<1>12. LiesIn(o, u, d, ClusterOf(d, p), r, off + 1, text, off)
    BY <1>9, <1>11 DEF LiesIn
<1>. QED  BY <1>1, <1>2, <1>4, <1>10, <1>12 DEF Part

\* fat_extend_chain links the new cluster to the last one.
LEMMA LinkSeen ==
    ASSUME IInv, Link
    PROVE  /\ View' = fat'
           /\ \E u : /\ u = View \/ u = fat
                     /\ fat' = [u EXCEPT ![op.file] = op.new]
                     /\ \A x \in Numbers : fat[x] # 0 => u[x] = fat[x]
<1>. DEFINE ch == Loaded(op.file)
            t == Seen(ch)
<1>1. op.file \in Numbers  BY DEF IInv, TypeInv, OpType
<1>2. cache' = [ch EXCEPT !.buf[op.file] = op.new] /\ fat' = Flushed(cache')
    BY DEF Link
<1>3. Looks(ch) /\ op.file \in DOMAIN ch.buf  BY <1>1, LooksOnly, FollowingSeen DEF IInv
<1>4. (t = View \/ t = fat) /\ \A x \in Numbers : fat[x] # 0 => t[x] = fat[x]
    BY <1>3, SeenLooks, SeenAgrees DEF IInv, TypeInv
<1>. HIDE DEF ch
<1>5. fat' = [t EXCEPT ![op.file] = op.new] /\ View' = fat'
    BY <1>2, <1>3, FlushSeen DEF IInv, TypeInv
<1>. HIDE DEF t
<1>. QED  BY <1>4, <1>5

\* The directory or file to which the new cluster is added, and the entry of the file.
LEMMA LinkOwner ==
    ASSUME IInv, Clean, NEW own, Fits(own), op.pc = "link"
    PROVE  /\ own[op.file] \in Heads(disk) /\ fat[op.file] # 0
           /\ \A q \in Places : saved[q] # NoText => own[op.file] # ClusterOf(disk, q)
           /\ op.cmd # "save" => own[op.file] = cwd
           /\ op.cmd = "save" => own[op.file] = ClusterOf(disk, <<op.at, op.slot>>)
           /\ own[op.file] \in Folders(disk) => fat[op.file] = Eoc
<1>1. /\ Whole(fat, disk) /\ own[op.at] = cwd /\ fat[op.at] # 0 /\ cwd \in Heads(disk)
      /\ \A q \in FileEntries(disk) : ClusterOf(disk, q) # cwd
      /\ Saving(own) /\ Walks(own)
    BY FitsFacts DEF Fits
<1>2. \A q \in Places : saved[q] # NoText => q \in FileEntries(disk)
    BY DEF Fits, Volume, Vol, Texts, Holds
<1>3. CASE op.cmd # "save"
    <2>1. op.file = op.at  BY <1>1, <1>3 DEF Walks
    <2>2. fat[op.file] = Eoc  BY <1>1, <1>3 DEF Walks
    <2>. QED  BY <1>1, <1>2, <1>3, <2>1, <2>2
<1>4. CASE op.cmd = "save"
    <2>1. PICK p : p = <<op.at, op.slot>>  OBVIOUS
    <2>2. saved[p] = NoText /\ Part(own, fat, disk, p, op.off, op.file, op.text, op.off)
        BY <1>1, <1>4, <2>1 DEF Saving
    <2>3. p \in FileEntries(disk) /\ ClusterOf(disk, p) \in Heads(disk)
        BY <1>1, <2>2, EntryHeads DEF Part
    <2>4. own[op.file] = ClusterOf(disk, p) /\ fat[op.file] # 0
        <3>1. op.off \in 1 .. op.off  BY <2>2 DEF Part
        <3>. QED  BY <2>2, <3>1 DEF Part, LiesIn
    <2>5. \A q \in Places : saved[q] # NoText => q # p /\ ClusterOf(disk, q) # ClusterOf(disk, p)
        BY <1>1, <1>2, <2>2, <2>3, EntryHeads
    <2>6. ClusterOf(disk, p) \notin Folders(disk)  BY <1>1, <2>3, EntryHeads DEF Folders
    <2>. QED  BY <1>4, <2>1, <2>3, <2>4, <2>5, <2>6
<1>. QED  BY <1>3, <1>4

\* The cluster that is linked belongs to the file or directory it is linked to; other
\* clusters of directories keep their owner and the link behind them (fat_extend_chain).
Joins(own, o) ==
    /\ op.new \in Clusters /\ disk[op.new] = EmptySector
    /\ o[op.new] = own[op.file] /\ fat'[op.new] = Eoc
    /\ \A x \in Numbers : fat'[x] # 0 /\ o[x] \in Folders(disk) /\ x # op.new =>
          fat[x] # 0 /\ own[x] = o[x] /\ (x # op.file => fat'[x] = fat[x])

\* fat_extend_chain links the cluster it has taken behind the last one.
LEMMA LinkFits ==
    ASSUME IInv, IInv', Clean, NEW own, Fits(own), Link
    PROVE  \E o : Fits(o)' /\ Joins(own, o)
<1>1. UNCHANGED <<disk, saved, cwd, Trail>> /\ op.pc = "link"  BY DEF Trail, Link
<1>2. PICK c, f : c = op.new /\ f = op.file  OBVIOUS
<1>3. /\ OpShape /\ f \in Numbers /\ c \in Clusters
      /\ \/ op.cmd = "save" /\ op' = [op EXCEPT !.pc = "data", !.file = c]
         \/ op.cmd # "save" /\ op' = [op EXCEPT !.pc = "place", !.at = c]
    BY <1>1, <1>2, FitsFacts DEF OpType, Link
<1>4. /\ Whole(fat, disk) /\ WholeInv /\ Filled \subseteq DirEntries(disk)
      /\ fat \in [Numbers -> FatEntry] /\ View \in [Numbers -> FatEntry]
      /\ own \in [Numbers -> Numbers]
      /\ op.at \in Numbers /\ own[op.at] = cwd /\ fat[op.at] # 0 /\ cwd \in Heads(disk)
    BY <1>1, FitsFacts
<1>5. /\ own[f] \in Heads(disk) /\ fat[f] # 0
      /\ \A q \in Places : saved[q] # NoText => own[f] # ClusterOf(disk, q)
      /\ op.cmd # "save" => own[f] = cwd
      /\ op.cmd = "save" => own[f] = ClusterOf(disk, <<op.at, op.slot>>)
      /\ own[f] \in Folders(disk) => fat[f] = Eoc
    BY <1>1, <1>2, LinkOwner
<1>6. Alone(own, fat, saved, c) /\ disk[c] = EmptySector
    BY <1>1, <1>2 DEF Fits, NewInv, New, Walks
<1>7. op'.pc # "dots"  BY <1>3 DEF OpShape
<1>8. Filled' = Filled  BY <1>1, <1>7, FilledStays
<1>9. View' = fat'  BY LinkSeen
<1>10. PICK u : /\ u = View \/ u = fat
                /\ fat' = [u EXCEPT ![f] = c]
                /\ \A x \in Numbers : fat[x] # 0 => u[x] = fat[x]
    BY <1>2, LinkSeen
<1>11. PICK o \in [Numbers -> Numbers] : o[c] = own[f] /\ \A x \in Numbers \ {c} : o[x] = own[x]
    <2>. DEFINE o == [own EXCEPT ![c] = own[f]]
    <2>1. o \in [Numbers -> Numbers] /\ c \in Numbers  BY <1>3, <1>4, Numbering
    <2>. QED  BY <1>4, <2>1
<1>12. PICK t, w, d, dirs, sv, v :
          /\ t = fat /\ w = View /\ d = disk /\ dirs = Filled /\ sv = saved /\ v = fat'
    OBVIOUS
<1>13. /\ t \in [Numbers -> FatEntry] /\ w \in [Numbers -> FatEntry] /\ Whole(t, d)
       /\ dirs \subseteq DirEntries(d)
    BY <1>4, <1>12
<1>14. Vol(own, t, w, d, dirs, sv) /\ Lineage(own, t, d, dirs, cwd, Trail)
    BY <1>12 DEF Fits, Volume
<1>15. /\ u \in [Numbers -> FatEntry] /\ Vol(own, t, u, d, dirs, sv)
       /\ \A x \in Numbers : t[x] # 0 => u[x] = t[x]
    BY <1>10, <1>12, <1>13, <1>14, VolLook
<1>16. v \in [Numbers -> FatEntry] /\ v[f] = c /\ \A x \in Numbers \ {f} : v[x] = u[x]
    <2>1. c \in FatEntry  BY <1>3 DEF FatEntry
    <2>. QED  BY <1>3, <1>10, <1>12, <1>15, <2>1
<1>17. /\ f \in Numbers /\ own[f] \in Heads(d) /\ c \in Clusters /\ own[c] = c
       /\ own[f] \in Folders(d) => u[f] = Eoc
    BY <1>3, <1>5, <1>6, <1>12, <1>15, Numbering DEF Alone
<1>18. c \notin Heads(d) /\ u[c] = Eoc /\ \A x \in Numbers : u[x] # c
    <2>1. Fresh(c)  BY <1>1, <1>2, FitsFacts DEF OpInv
    <2>2. c \notin Heads(d) /\ \A x \in Numbers : w[x] # c  BY <1>12, <2>1 DEF Fresh
    <2>3. t[c] = Eoc /\ Eoc # 0 /\ c \in Numbers /\ c # 0
        BY <1>3, <1>6, <1>12, Numbering DEF Alone
    <2>4. \A x \in Numbers : t[x] # 0 => w[x] = t[x]
        BY <1>12, SeenAgrees DEF View, Looks, IInv
    <2>. QED  BY <1>10, <1>12, <1>15, <2>2, <2>3, <2>4
<1>19. \A i \in Slots : d[c][i].name \notin Names \cup {Blank}
    <2>1. \A i \in Slots : EmptySector[i].name \notin Names \cup {Blank}  BY NewSectors
    <2>. QED  BY <1>6, <1>12, <2>1
<1>20. \A p \in Places : sv[p] # NoText => p[1] # c /\ own[f] # ClusterOf(d, p)
    BY <1>5, <1>6, <1>12 DEF Alone
<1>21. /\ Vol(o, v, v, d, dirs, sv) /\ v[c] = Eoc /\ o[c] = own[f] /\ v[f] = c /\ f # c
       /\ \A x \in Numbers : t[x] # 0 /\ own[x] \in Heads(d) =>
             x # c /\ o[x] = own[x] /\ v[x] # 0 /\ (x # f => v[x] = t[x])
    <2>1. VolLinked(own, t, d, dirs, sv, f, c, o, v)
        BY ONLY <1>11, <1>13, <1>15, <1>16, <1>17, <1>18, <1>19, <1>20, VolLink
    <2>. QED  BY <2>1 DEF VolLinked
<1>22. Lineage(o, v, d, dirs, cwd, Trail)
    <2>1. {Root} \cup {ClusterOf(d, x) : x \in dirs} \subseteq Heads(d)
        BY <1>13, EntryHeads
    <2>2. \A q \in dirs : q[1] \in Numbers  BY <1>13, EntryHeads, PlaceParts
    <2>3. \A q \in dirs : t[q[1]] # 0 /\ own[q[1]] \in {Root} \cup {ClusterOf(d, x) : x \in dirs} =>
              q \in dirs /\ ClusterOf(d, q) = ClusterOf(d, q) /\ v[q[1]] # 0 /\ o[q[1]] = own[q[1]]
        BY <1>21, <2>1, <2>2
    <2>. QED  BY ONLY <1>14, <2>3, LineageStays
<1>23. Vol(o, fat', View', disk', Filled', saved') /\ Lineage(o, fat', disk', Filled', cwd', Trail')
    BY <1>1, <1>8, <1>9, <1>12, <1>21, <1>22
<1>24. v[op.at] # 0 /\ o[op.at] = cwd /\ Eoc # 0  BY <1>4, <1>12, <1>21, Numbering
<1>27. Joins(own, o)
    <2>1. ASSUME NEW x \in Numbers, v[x] # 0, o[x] \in Folders(d), x # c
          PROVE  t[x] # 0 /\ own[x] = o[x] /\ (x # f => v[x] = t[x])
        <3>1. own[x] = o[x]  BY <1>11, <2>1
        <3>2. Folders(d) \subseteq Heads(d)  BY <1>13, EntryHeads
        <3>3. CASE x = f  BY <1>5, <1>12, <3>1, <3>3
        <3>4. CASE x # f
            <4>1. u[x] # 0 /\ v[x] = u[x]  BY <1>16, <2>1, <3>4
            <4>2. Attached(own, u, Folders(d))  BY <1>15 DEF Vol
            <4>3. t[x] # 0  BY <1>13, <1>15, <2>1, <3>1, <4>1, <4>2, DirsInUse
            <4>. QED  BY <1>15, <3>1, <4>1, <4>3
        <3>. QED  BY <3>3, <3>4
    <2>2. o[c] = own[f] /\ v[c] = Eoc /\ disk[c] = EmptySector /\ c \in Clusters
        BY <1>3, <1>6, <1>21
    <2>. QED  BY <1>2, <1>12, <2>1, <2>2 DEF Joins
<1>25. CASE op.cmd # "save" /\ op' = [op EXCEPT !.pc = "place", !.at = c]
    <2>1. op'.pc = "place" /\ op'.at = c /\ op'.cmd = op.cmd  BY <1>3, <1>25 DEF OpShape
    <2>2. o[c] = cwd' /\ fat'[c] # 0  BY <1>1, <1>5, <1>12, <1>21, <1>24, <1>25
    <2>3. NewInv(o)' /\ Walks(o)' /\ Saving(o)'
        BY <1>25, <2>1, <2>2 DEF NewInv, New, Walks, Saving
    <2>4. Fits(o)'  BY <1>23, <2>3, FitsNext
    <2>. QED  BY <1>27, <2>4
<1>26. CASE op.cmd = "save" /\ op' = [op EXCEPT !.pc = "data", !.file = c]
    <2>1. /\ op'.pc = "data" /\ op'.file = c /\ op'.at = op.at /\ op'.cmd = op.cmd
          /\ op'.slot = op.slot /\ op'.found = op.found /\ op'.off = op.off /\ op'.text = op.text
        BY <1>3, <1>26 DEF OpShape
    <2>2. NewInv(o)' /\ Walks(o)'
        BY <1>1, <1>12, <1>24, <1>26, <2>1 DEF NewInv, New, Walks
    <2>3. PICK p : p = <<op.at, op.slot>>  OBVIOUS
    <2>4. /\ saved[p] = NoText /\ op.found = TRUE
          /\ Part(own, t, d, p, op.off, f, op.text, op.off)
        BY <1>1, <1>2, <1>12, <1>26, <2>3 DEF Fits, Saving
    <2>5. ClusterOf(d, p) = own[f]  BY <1>5, <1>12, <1>26, <2>3
    <2>6. o[c] = ClusterOf(d, p) /\ v[c] # 0 /\ v[f] = c /\ c \in Clusters
        BY <1>3, <1>21, <1>24, <2>5
    <2>7. \A x \in Clusters : own[x] = ClusterOf(d, p) /\ t[x] # 0 =>
              x # c /\ o[x] = own[x] /\ v[x] # 0 /\ (x # f => v[x] = t[x])
        BY <1>17, <1>21, <2>5, Numbering
    <2>8. Part(o, v, d, p, op.off + 1, c, op.text, op.off)
        BY ONLY <2>4, <2>6, <2>7, PartLonger
    <2>9. Part(o, fat', disk', <<op'.at, op'.slot>>, op'.off + 1, op'.file, op'.text, op'.off)
        BY <1>1, <1>12, <2>1, <2>3, <2>8
    <2>10. saved'[<<op'.at, op'.slot>>] = NoText  BY <1>1, <2>1, <2>3, <2>4
    <2>11. Saving(o)'  BY <2>1, <2>4, <2>9, <2>10 DEF Saving
    <2>12. Fits(o)'  BY <1>23, <2>2, <2>11, FitsNext
    <2>. QED  BY <1>27, <2>12
<1>. QED  BY <1>3, <1>25, <1>26

-----------------------------------------------------------------------------
\* fat_write_file and fat_create_dir write the entry.
LEMMA EntryFits ==
    ASSUME IInv, IInv', Clean, Clean', NEW own, Fits(own), Entry
    PROVE  Fits(own)' /\ HeadsOf(disk', Filled') \subseteq HeadsOf(disk, Filled)
<1>1. UNCHANGED <<fat, cache, saved, cwd, Trail>> /\ op.pc = "entry" /\ op.cmd # "save"
    <2>1. UNCHANGED <<fat, cache, saved, cwd, path>> /\ op.pc = "entry" /\ op.cmd # "save"
        BY DEF Entry, Fits, Walks
    <2>2. "here" \in events' <=> "here" \in events  BY DEF Entry, Dotted
    <2>. QED  BY <2>1, <2>2 DEF Trail
<1>2. PICK c, i, h, a : /\ c = op.at /\ i = op.slot /\ h = op.file
                        /\ a = IF op.cmd = "mkdir" THEN "dir" ELSE "file"
    OBVIOUS
<1>3. /\ c \in Numbers /\ i \in Slots /\ OpShape
      /\ own[c] = cwd /\ fat[c] # 0 /\ cwd \in Heads(disk)
      /\ \A q \in FileEntries(disk) : ClusterOf(disk, q) # cwd
      /\ Whole(fat, disk) /\ Filled \subseteq DirEntries(disk) /\ AreSectors(disk)
    BY <1>1, <1>2, FitsFacts DEF OpType
<1>. DEFINE s == Slot(Stored(op.name), a, h, 0)
<1>4. /\ disk' = [disk EXCEPT ![c][i] = s] /\ h # 0
      /\ \/ op.cmd = "mkdir" /\ op' = [op EXCEPT !.pc = "dots"]
         \/ op.cmd # "mkdir" /\ op' = Idle
    BY <1>2 DEF Entry, Clean
<1>5. s.attr = a /\ s.cl = h /\ a \in {"dir", "file"} /\ (a = "dir" <=> op.cmd = "mkdir")
    BY <1>2 DEF Slot
<1>. HIDE DEF s
<1>6. Written(disk, disk', c, i, s)  BY <1>3, <1>4, SlotExcept
<1>7. h \in Clusters /\ h \notin Heads(disk) /\ h # Root
    <2>1. Fresh(h)  BY <1>1, <1>2, <1>4, FitsFacts DEF OpInv
    <2>. QED  BY <2>1 DEF Fresh, Heads
<1>8. Alone(own, fat, saved, h)  BY <1>1, <1>2, <1>4 DEF Fits, NewInv, New
<1>9. disk[c][i].name \in {Nul, Deleted}  BY <1>1, <1>2 DEF Fits, Walks
<1>10. PICK t, w, d, e, dirs, sv :
           /\ t = fat /\ w = View /\ d = disk /\ e = disk' /\ dirs = Filled /\ sv = saved
    OBVIOUS
<1>11. /\ Whole(t, d) /\ dirs \subseteq DirEntries(d) /\ Vol(own, t, w, d, dirs, sv)
       /\ Lineage(own, t, d, dirs, cwd, Trail)
       /\ Written(d, e, c, i, s) /\ d[c][i].name \in {Nul, Deleted} /\ h \notin Heads(d)
    BY <1>3, <1>6, <1>7, <1>9, <1>10 DEF Fits, Volume
<1>12. /\ \A x \in Numbers : own[x] = h <=> x = h
       /\ \A p \in Places : sv[p] # NoText => p[1] # h
       /\ \A q \in FileEntries(d) : own[c] # ClusterOf(d, q)
    BY <1>3, <1>8, <1>10 DEF Alone
<1>13. /\ Vol(own, t, w, e, dirs, sv) /\ dirs \subseteq DirEntries(e)
       /\ \A p \in Named(e) : \/ p = <<c, i>> /\ p[1] = c /\ p[2] = i /\ e[p[1]][p[2]] = s
                              \/ p \in Named(d) /\ e[p[1]][p[2]] = d[p[1]][p[2]]
       /\ \A p \in Named(d) : p \in Named(e) /\ e[p[1]][p[2]] = d[p[1]][p[2]]
    <2>1. c \in Numbers /\ i \in Slots  BY <1>3
    <2>2. s.attr \in {"dir", "file"} /\ s.cl = h /\ h \in Clusters  BY <1>5, <1>7
    <2>3. VolEntered(own, t, w, d, e, dirs, sv, c, i, s)
        BY ONLY <1>11, <1>12, <2>1, <2>2, VolEntry
    <2>. QED  BY <2>3 DEF VolEntered
<1>14. Filled = DirEntries(d)
    <2>1. Unfilled = {}  BY <1>1 DEF Unfilled
    <2>. QED  BY <1>10, <2>1 DEF Filled
<1>15. \A p \in DirEntries(d) : ClusterOf(e, p) = ClusterOf(d, p) /\ ClusterOf(d, p) # h
                                /\ NameOf(e, p) = NameOf(d, p) /\ p \in DirEntries(e)
    <2>1. \A p \in DirEntries(d) : p \in Named(d) /\ ClusterOf(d, p) # h
        BY <1>11, EntryHeads
    <2>. QED  BY <1>13, <2>1 DEF ClusterOf, NameOf, DirEntries
<1>16. ASSUME NEW p \in DirEntries(e), p \notin DirEntries(d)
       PROVE  ClusterOf(e, p) = h /\ a = "dir" /\ p[1] = c
    BY <1>5, <1>13, <1>16 DEF ClusterOf, DirEntries
<1>17. Filled' = Filled
    <2>1. CASE op.cmd = "mkdir" /\ op' = [op EXCEPT !.pc = "dots"]
        <3>1. op'.pc = "dots" /\ op'.file = h  BY <1>2, <1>3, <2>1 DEF OpShape
        <3>2. Unfilled' = {h}  BY <3>1 DEF Unfilled
        <3>3. Filled' = {p \in DirEntries(e) : ClusterOf(e, p) # h}
            BY <1>10, <3>2 DEF Filled, DirEntries, Named, ClusterOf, Places, Slots
        <3>4. Filled' = DirEntries(d)  BY <1>15, <1>16, <3>3
        <3>. QED  BY <1>14, <3>4
    <2>2. CASE op.cmd # "mkdir" /\ op' = Idle
        <3>1. Unfilled' = {}  BY <2>2 DEF Unfilled, Idle
        <3>2. Filled' = DirEntries(e)
            BY <1>10, <3>1 DEF Filled, DirEntries, Named, ClusterOf, Places, Slots
        <3>3. DirEntries(e) = DirEntries(d)  BY <1>5, <1>15, <1>16, <2>2
        <3>. QED  BY <1>14, <3>2, <3>3
    <2>. QED  BY <1>4, <2>1, <2>2
<1>18. View' = View  BY <1>1 DEF View, Seen, Numbers
<1>19. Vol(own, fat', View', disk', Filled', saved')
    BY <1>1, <1>10, <1>13, <1>17, <1>18
<1>20. Lineage(own, fat', disk', Filled', cwd', Trail')
    <2>1. \A q \in dirs : t[q[1]] # 0 /\ own[q[1]] \in {Root} \cup {ClusterOf(d, x) : x \in dirs} =>
              /\ q \in dirs /\ ClusterOf(e, q) = ClusterOf(d, q) /\ NameOf(e, q) = NameOf(d, q)
              /\ t[q[1]] # 0 /\ own[q[1]] = own[q[1]]
        BY <1>11, <1>15
    <2>2. Lineage(own, t, e, dirs, cwd, Trail)  BY ONLY <1>11, <2>1, LineageStays
    <2>. QED  BY <1>1, <1>10, <1>17, <2>2
<1>21. ASSUME op.cmd # "mkdir", op' = Idle PROVE Fits(own)'
    <2>1. op'.pc = "idle"  BY <1>21 DEF Idle
    <2>2. NewInv(own)' /\ Walks(own)' /\ Saving(own)'
        BY <2>1 DEF NewInv, New, Walks, Saving
    <2>. QED  BY <1>19, <1>20, <2>2, FitsNext
<1>22. ASSUME op.cmd = "mkdir", op' = [op EXCEPT !.pc = "dots"] PROVE Fits(own)'
    <2>1. /\ op'.pc = "dots" /\ op'.at = c /\ op'.file = h
        BY <1>2, <1>3, <1>22 DEF OpShape
    <2>2. New' = {h}  BY <1>4, <2>1 DEF New
    <2>3. NewInv(own)'
        BY <1>1, <1>8, <2>2 DEF NewInv, Alone, Numbers, Places, Slots, Eoc
    <2>4. \A q \in Named(e) : ClusterOf(e, q) = h => q \in DirEntries(e) /\ own[q[1]] = cwd
        <3>. SUFFICES ASSUME NEW q \in Named(e), ClusterOf(e, q) = h
                      PROVE  q \in DirEntries(e) /\ own[q[1]] = cwd
            OBVIOUS
        <3>1. \A x \in Named(d) : ClusterOf(d, x) # h  BY <1>11, EntryHeads
        <3>2. q[1] = c /\ e[q[1]][q[2]] = s  BY <1>13, <3>1 DEF ClusterOf
        <3>. QED  BY <1>3, <1>5, <1>22, <3>2 DEF DirEntries
    <2>5. \A q \in Named(disk') : ClusterOf(disk', q) = op'.file => q \in DirEntries(disk') /\ own[q[1]] = cwd'
        BY <1>1, <1>10, <2>1, <2>4
    <2>6. op'.file \in Clusters \ {Root} /\ own[op'.at] = cwd' /\ fat'[op'.at] # 0
        BY <1>1, <1>3, <1>7, <2>1
    <2>7. Walks(own)'
        BY <2>1, <2>5, <2>6 DEF Walks, Named, DirEntries, ClusterOf, Places, Slots, Clusters
    <2>8. Saving(own)'  BY <2>1 DEF Saving
    <2>. QED  BY <1>19, <1>20, <2>3, <2>7, <2>8, FitsNext
<1>23. HeadsOf(disk', Filled') \subseteq HeadsOf(disk, Filled)
    BY <1>10, <1>14, <1>15, <1>17 DEF HeadsOf
<1>. QED  BY <1>4, <1>21, <1>22, <1>23

\* What a sector that is written whole leaves of the entries.
OthersStay(d, e, c) ==
    /\ \A p \in Named(e) : p \in Named(d) /\ p[1] # c /\ e[p[1]][p[2]] = d[p[1]][p[2]]
                           /\ ClusterOf(e, p) = ClusterOf(d, p)
    /\ \A p \in Named(d) : p[1] # c => p \in Named(e) /\ ClusterOf(e, p) = ClusterOf(d, p)
                                       /\ e[p[1]][p[2]] = d[p[1]][p[2]]

\* Sectors that get no names add none (fat_write_data, fat_extend_dir).
LEMMA SectorEntries ==
    ASSUME NEW d, NEW c \in Numbers, NEW s, NEW e, Replaced(d, e, c, s),
           \A i \in Slots : s[i].name \notin Names \cup {Blank}
    PROVE  OthersStay(d, e, c)
<1>1. e[c] = s /\ \A x \in Numbers : x # c => e[x] = d[x]  BY DEF Replaced
<1>2. ASSUME NEW p \in Named(e)
      PROVE  p \in Named(d) /\ p[1] # c /\ e[p[1]][p[2]] = d[p[1]][p[2]]
    <2>1. p \in Places /\ p[1] \in Numbers /\ p[2] \in Slots /\ e[p[1]][p[2]].name \in Names \cup {Blank}
        BY PlaceParts DEF Named
    <2>2. p[1] # c  BY <1>1, <2>1
    <2>. QED  BY <1>1, <2>1, <2>2 DEF Named
<1>3. ASSUME NEW p \in Named(d), p[1] # c
      PROVE  p \in Named(e) /\ e[p[1]][p[2]] = d[p[1]][p[2]]
    BY <1>1, <1>3, PlaceParts DEF Named
<1>. QED  BY <1>1, <1>2, <1>3 DEF ClusterOf, OthersStay

\* fat_init_dir_cluster fills the first cluster of the directory.
LEMMA DotsFits ==
    ASSUME IInv, IInv', Clean, Clean', NEW own, Fits(own), Dots
    PROVE  Fits(own)'
<1>1. UNCHANGED <<fat, cache, saved, cwd, Trail>> /\ op.pc = "dots" /\ op' = Idle /\ op.at = cwd
      /\ op'.pc = "idle"
    BY DEF Trail, Dots, Clean, Idle
<1>2. PICK g, h, s : g = cwd /\ h = op.file /\ s = DirSector(h, g) /\ disk' = [disk EXCEPT ![h] = s]
    BY <1>1 DEF Dots
<1>3. /\ g \in Clusters /\ g \in Numbers /\ h \in Clusters /\ h # Root /\ h \in Numbers
      /\ \A q \in Named(disk) : ClusterOf(disk, q) = h => q \in DirEntries(disk) /\ own[q[1]] = g
      /\ Whole(fat, disk) /\ Filled \subseteq DirEntries(disk) /\ AreSectors(disk)
    BY <1>1, <1>2, FitsFacts, Numbering DEF Fits, Walks
<1>4. Alone(own, fat, saved, h)
    <2>1. New = {h}
        <3>1. h # 0  BY <1>3, Numbering
        <3>. QED  BY <1>1, <1>2, <3>1 DEF New
    <2>. QED  BY <2>1 DEF Fits, NewInv
<1>5. PICK t, w, d, e, dirs, sv, ds :
          /\ t = fat /\ w = View /\ d = disk /\ e = disk' /\ dirs = Filled /\ sv = saved
          /\ ds = DirEntries(disk')
    OBVIOUS
<1>6. Filled' = ds
    <2>1. Unfilled' = {}  BY <1>1 DEF Unfilled
    <2>. QED  BY <1>5, <2>1 DEF Filled
<1>7. dirs = {p \in DirEntries(d) : ClusterOf(d, p) # h}
    BY <1>1, <1>2, <1>5 DEF Filled, Unfilled
<1>8. /\ Whole(t, d) /\ dirs \subseteq DirEntries(d) /\ Vol(own, t, w, d, dirs, sv)
      /\ Lineage(own, t, d, dirs, cwd, Trail)
      /\ Replaced(d, e, h, DirSector(h, g))
    BY <1>2, <1>3, <1>5 DEF Fits, Volume, Replaced, AreSectors, Numbers
<1>9. /\ own[h] = h /\ \A x \in Numbers : own[x] = h => x = h
      /\ \A p \in Places : sv[p] # NoText => p[1] # h
    BY <1>3, <1>4, <1>5 DEF Alone
<1>10. \A p \in dirs : ClusterOf(d, p) # h  BY <1>7
<1>11. \A q \in Named(d) : ClusterOf(d, q) = h => q \in DirEntries(d) /\ own[q[1]] = g
    BY <1>3, <1>5
<1>12. /\ \A p \in Named(e) : p \in Named(d) /\ p[1] # h /\ e[p[1]][p[2]] = d[p[1]][p[2]]
                              /\ ClusterOf(e, p) = ClusterOf(d, p)
       /\ \A p \in Named(d) : p[1] # h => p \in Named(e) /\ ClusterOf(e, p) = ClusterOf(d, p)
                                          /\ e[p[1]][p[2]] = d[p[1]][p[2]]
    <2>1. \A i \in Slots : s[i].name \notin Names \cup {Blank}
        BY <1>2, <1>3, NewSectors
    <2>2. Replaced(d, e, h, s) /\ h \in Numbers  BY <1>2, <1>3, <1>8
    <2>3. OthersStay(d, e, h)  BY ONLY <2>1, <2>2, SectorEntries
    <2>. QED  BY <2>3 DEF OthersStay
<1>13. ds \subseteq Named(e) /\ \A p \in ds : p \in dirs \/ (p \in Named(d) /\ ClusterOf(d, p) = h)
    BY <1>5, <1>7, <1>12 DEF DirEntries
<1>14. Vol(own, t, w, e, ds, sv)
    <2>1. h \in Clusters /\ g \in Clusters  BY <1>3
    <2>. QED  BY ONLY <2>1, <1>8, <1>9, <1>10, <1>11, <1>13, VolDots
<1>15. View' = View  BY <1>1 DEF View, Seen, Numbers
<1>16. Vol(own, fat', View', disk', Filled', saved')  BY <1>1, <1>5, <1>6, <1>14, <1>15
<1>17. Lineage(own, fat', disk', Filled', cwd', Trail')
    <2>1. \A q \in dirs : t[q[1]] # 0 /\ own[q[1]] \in {Root} \cup {ClusterOf(d, x) : x \in dirs} =>
              /\ q \in ds /\ ClusterOf(e, q) = ClusterOf(d, q) /\ NameOf(e, q) = NameOf(d, q)
              /\ t[q[1]] # 0 /\ own[q[1]] = own[q[1]]
        <3>. SUFFICES ASSUME NEW q \in dirs, own[q[1]] \in {Root} \cup {ClusterOf(d, x) : x \in dirs}
                      PROVE  q \in ds /\ ClusterOf(e, q) = ClusterOf(d, q) /\ NameOf(e, q) = NameOf(d, q)
            OBVIOUS
        <3>1. own[q[1]] # h  BY <1>3, <1>10
        <3>2. q[1] # h /\ q \in Named(d) /\ d[q[1]][q[2]].attr = "dir"
            BY <1>8, <1>9, <3>1 DEF DirEntries
        <3>. QED  BY <1>5, <1>12, <3>2 DEF DirEntries, NameOf
    <2>2. Lineage(own, t, e, ds, cwd, Trail)  BY ONLY <1>8, <2>1, LineageStays
    <2>. QED  BY <1>1, <1>5, <1>6, <2>2
<1>18. NewInv(own)' /\ Walks(own)' /\ Saving(own)'
    BY <1>1 DEF NewInv, New, Walks, Saving
<1>. QED  BY <1>16, <1>17, <1>18, FitsNext

\* What a sector of no directory leaves of the lineage.
LEMMA LineageSector ==
    ASSUME NEW own, NEW t, NEW d, NEW e, Whole(t, d), NEW dirs, dirs \subseteq DirEntries(d),
           NEW c, NEW pth, Lineage(own, t, d, dirs, c, pth), NEW x,
           own[x] \notin {Root} \cup {ClusterOf(d, q) : q \in dirs},
           NEW ds, \A p \in dirs : p[1] # x =>
                       p \in ds /\ ClusterOf(e, p) = ClusterOf(d, p) /\ NameOf(e, p) = NameOf(d, p)
    PROVE  Lineage(own, t, e, ds, c, pth)
<1>1. \A q \in dirs : t[q[1]] # 0 /\ own[q[1]] \in {Root} \cup {ClusterOf(d, r) : r \in dirs} =>
          /\ q \in ds /\ ClusterOf(e, q) = ClusterOf(d, q) /\ NameOf(e, q) = NameOf(d, q)
          /\ t[q[1]] # 0 /\ own[q[1]] = own[q[1]]
    <2>1. ASSUME NEW q \in dirs, own[q[1]] \in {Root} \cup {ClusterOf(d, r) : r \in dirs}
          PROVE  q[1] # x
        BY <2>1
    <2>. QED  BY <2>1
<1>. QED  BY ONLY <1>1, Lineage(own, t, d, dirs, c, pth), LineageStays

\* fat_extend_chain fills the new cluster with 0.
LEMMA ZeroFits ==
    ASSUME IInv, IInv', Clean, NEW own, Fits(own), Zero
    PROVE  Fits(own)'
<1>1. UNCHANGED <<fat, cache, saved, cwd, Trail>> /\ op.pc = "zero" /\ op' = [op EXCEPT !.pc = "link"]
    BY DEF Trail, Zero
<1>2. PICK c, s : c = op.new /\ s = EmptySector /\ disk' = [disk EXCEPT ![c] = s]
    BY DEF Zero
<1>3. /\ OpShape /\ c \in Numbers /\ c \in Clusters
      /\ op.at \in Numbers /\ own[op.at] = cwd /\ fat[op.at] # 0 /\ cwd \in Heads(disk)
      /\ Whole(fat, disk) /\ Filled \subseteq DirEntries(disk) /\ AreSectors(disk)
      /\ Walks(own) /\ Saving(own)
    BY <1>1, <1>2, FitsFacts, Numbering DEF OpType, Fits
<1>4. /\ op'.pc = "link" /\ op'.new = c /\ op'.at = op.at /\ op'.cmd = op.cmd
      /\ op'.file = op.file /\ op'.slot = op.slot /\ op'.found = op.found
      /\ op'.off = op.off /\ op'.text = op.text
    BY <1>1, <1>2, <1>3 DEF OpShape
<1>5. Alone(own, fat, saved, c) /\ c \notin Heads(disk)
    <2>1. Fresh(c)  BY <1>1, <1>2, FitsFacts DEF OpInv
    <2>. QED  BY <1>1, <1>2, <2>1 DEF Fits, NewInv, New, Fresh
<1>6. PICK t, w, d, e, dirs, sv, ds :
          /\ t = fat /\ w = View /\ d = disk /\ e = disk' /\ dirs = Filled /\ sv = saved
          /\ ds = DirEntries(e)
    OBVIOUS
<1>7. dirs = DirEntries(d) /\ Filled' = ds
    <2>1. Filled' = DirEntries(disk') /\ Filled = DirEntries(disk)
        BY <1>1, <1>4, FilledStays
    <2>. QED  BY <1>6, <2>1
<1>8. /\ Whole(t, d) /\ dirs \subseteq DirEntries(d) /\ Vol(own, t, w, d, dirs, sv)
      /\ Lineage(own, t, d, dirs, cwd, Trail)
    BY <1>3, <1>6 DEF Fits, Volume
<1>9. /\ c \in Numbers /\ Replaced(d, e, c, s)
      /\ \A i \in Slots : s[i].name \notin Names \cup {Blank}
    BY <1>2, <1>3, <1>6, NewSectors DEF Replaced, AreSectors, Numbers
<1>10. /\ \A p \in Named(e) : p \in Named(d) /\ p[1] # c /\ e[p[1]][p[2]] = d[p[1]][p[2]]
                              /\ ClusterOf(e, p) = ClusterOf(d, p)
       /\ \A p \in Named(d) : p[1] # c => p \in Named(e) /\ ClusterOf(e, p) = ClusterOf(d, p)
                                          /\ e[p[1]][p[2]] = d[p[1]][p[2]]
    <2>1. OthersStay(d, e, c)  BY ONLY <1>9, SectorEntries
    <2>. QED  BY <2>1 DEF OthersStay
<1>11. \A p \in Named(d) : ClusterOf(d, p) # c /\ ClusterOf(d, p) \in Heads(d)
    BY <1>5, <1>6, <1>8, EntryHeads
<1>12. own[c] = c  BY <1>3, <1>5 DEF Alone
<1>13. Vol(own, t, w, e, ds, sv)
    <2>1. \A p \in dirs : ClusterOf(d, p) # c  BY <1>8, <1>11 DEF DirEntries
    <2>2. \A p \in Places : sv[p] # NoText => own[c] # ClusterOf(d, p)
        BY <1>8, <1>11, <1>12 DEF Vol, Texts, Holds, FileEntries
    <2>3. ds \subseteq dirs /\ ds \subseteq Named(e)
        BY <1>6, <1>7, <1>10 DEF DirEntries
    <2>4. \A p \in Places :
              sv[p] = NoText \/ (sv[p] = sv[p] /\ p[1] # c) \/ Holds(own, t, e, p, sv[p])
        BY <1>5, <1>6 DEF Alone
    <2>. QED  BY ONLY <1>8, <1>9, <2>1, <2>2, <2>3, <2>4, VolSector
<1>14. Lineage(own, t, e, ds, cwd, Trail)
    <2>1. own[c] \notin {Root} \cup {ClusterOf(d, q) : q \in dirs}
        BY <1>5, <1>6, <1>8, <1>11, <1>12 DEF DirEntries, Heads
    <2>2. \A p \in dirs : p[1] # c =>
              p \in ds /\ ClusterOf(e, p) = ClusterOf(d, p) /\ NameOf(e, p) = NameOf(d, p)
        BY <1>6, <1>7, <1>10 DEF DirEntries, NameOf
    <2>. QED  BY ONLY <1>8, <2>1, <2>2, LineageSector
<1>15. View' = View  BY <1>1 DEF View, Seen, Numbers
<1>16. /\ Vol(own, fat', View', disk', Filled', saved')
       /\ Lineage(own, fat', disk', Filled', cwd', Trail')
    BY <1>1, <1>6, <1>7, <1>13, <1>14, <1>15
<1>17. NewInv(own)'
    <2>1. New' = {c}  BY <1>4 DEF New
    <2>. QED  BY <1>1, <1>5, <2>1 DEF NewInv, Alone, Numbers, Places, Slots, Eoc
<1>18. Walks(own)'
    <2>1. disk'[op'.new] = EmptySector  BY <1>2, <1>4, <1>6, <1>9 DEF Replaced
    <2>2. EmptySector' = EmptySector  BY DEF EmptySector, Slots, Slot, Nul
    <2>. QED  BY <1>1, <1>3, <1>4, <2>1, <2>2 DEF Walks
<1>19. Saving(own)'
    <2>. SUFFICES ASSUME op.cmd = "save" PROVE Saving(own)'  BY <1>4 DEF Saving
    <2>1. PICK p : p = <<op.at, op.slot>>  OBVIOUS
    <2>2. /\ saved[p] = NoText /\ op.found = TRUE
          /\ Part(own, t, d, p, op.off, op.file, op.text, op.off)
        BY <1>1, <1>3, <1>6, <2>1 DEF Saving
    <2>3. p \in FileEntries(d) /\ p \in Named(d) /\ p[1] = op.at
        BY <2>1, <2>2 DEF Part, FileEntries
    <2>4. p[1] # c  BY <1>3, <1>5, <1>12, <2>3
    <2>5. p \in FileEntries(e) /\ ClusterOf(e, p) = ClusterOf(d, p)
        BY <1>10, <2>3, <2>4 DEF FileEntries
    <2>6. \A x \in Clusters : own[x] = ClusterOf(d, p) /\ t[x] # 0 =>
              own[x] = own[x] /\ t[x] = t[x] /\ e[x] = d[x]
        <3>1. ASSUME NEW x \in Clusters, own[x] = ClusterOf(d, p) PROVE x # c /\ x \in Numbers
            BY <1>11, <1>12, <2>3, <3>1, Numbering
        <3>. QED  BY <1>9, <3>1 DEF Replaced
    <2>7. Part(own, t, e, p, op.off, op.file, op.text, op.off)
        BY ONLY <2>2, <2>5, <2>6, PartStill
    <2>8. Part(own, fat', disk', <<op'.at, op'.slot>>, op'.off, op'.file, op'.text, op'.off)
        BY <1>1, <1>4, <1>6, <2>1, <2>7
    <2>9. saved'[<<op'.at, op'.slot>>] = NoText  BY <1>1, <1>4, <2>1, <2>2
    <2>. QED  BY <1>4, <2>2, <2>8, <2>9 DEF Saving
<1>. QED  BY <1>16, <1>17, <1>18, <1>19, FitsNext

\* The next block of a text is written, in the cluster that was linked for it.
LEMMA PartWritten ==
    ASSUME NEW own, NEW t, NEW d, NEW p, NEW c, NEW text, NEW off,
           Part(own, t, d, p, off + 1, c, text, off),
           NEW e, p \in FileEntries(e), ClusterOf(e, p) = ClusterOf(d, p),
           Replaced(d, e, c, TextSector(text.v, off + 1, off + 1 = text.len))
    PROVE  /\ off + 1 = text.len => text.len \in 1 .. MaxBlocks /\ \E s \in [1 .. text.len -> Clusters] :
                 LiesIn(own, t, e, ClusterOf(e, p), s, text.len, text, text.len)
           /\ off + 1 # text.len => Part(own, t, e, p, off + 1, c, text, off + 1)
<1>1. text.len \in 1 .. MaxBlocks /\ off \in 0 .. text.len - 1  BY DEF Part
<1>2. /\ off \in Nat /\ off + 1 \in 1 .. off + 1 /\ off + 1 # 0
      /\ off + 1 # text.len => off + 1 \in 0 .. text.len - 1
    BY <1>1
<1>3. PICK s \in [1 .. off + 1 -> Clusters] :
          /\ LiesIn(own, t, d, ClusterOf(d, p), s, off + 1, text, off) /\ s[off + 1] = c
          /\ \A i, j \in 1 .. off + 1 : s[i] = s[j] => i = j
    BY DEF Part
<1>4. ASSUME NEW b \in 1 .. off + 1 PROVE e[s[b]] = TextSector(text.v, b, b = text.len)
    <2>1. CASE b = off + 1  BY <1>3, <2>1 DEF Replaced
    <2>2. CASE b # off + 1
        <3>1. b \in 1 .. off  BY <1>2, <2>2
        <3>2. s[b] # c /\ s[b] \in Numbers  BY <1>2, <1>3, <2>2, Numbering
        <3>. QED  BY <1>3, <3>1, <3>2 DEF Replaced, LiesIn
    <2>. QED  BY <2>1, <2>2
<1>5. LiesIn(own, t, e, ClusterOf(e, p), s, off + 1, text, off + 1)
    BY <1>3, <1>4 DEF LiesIn
<1>6. ASSUME off + 1 = text.len
      PROVE  \E r \in [1 .. text.len -> Clusters] :
                 LiesIn(own, t, e, ClusterOf(e, p), r, text.len, text, text.len)
    BY <1>5, <1>6
<1>7. ASSUME off + 1 # text.len PROVE Part(own, t, e, p, off + 1, c, text, off + 1)
    BY <1>1, <1>2, <1>3, <1>5, <1>7 DEF Part
<1>. QED  BY <1>1, <1>6, <1>7

\* The cluster that a text is written to belongs to its file.
LEMMA PartOwner ==
    ASSUME NEW own, NEW t, NEW d, Whole(t, d), NEW p, NEW n, NEW c, NEW text, NEW off,
           Part(own, t, d, p, n, c, text, off), \A h \in Heads(d) : own[h] = h
    PROVE  /\ own[c] = ClusterOf(d, p) /\ c \in Clusters
           /\ p \in FileEntries(d) /\ p \in Named(d) /\ ClusterOf(d, p) \in Heads(d)
           /\ \A q \in Named(d) : q # p => own[c] # ClusterOf(d, q) /\ ClusterOf(d, q) # c
<1>1. p \in FileEntries(d) /\ n \in 1 .. n  BY DEF Part
<1>2. own[c] = ClusterOf(d, p) /\ c \in Clusters  BY <1>1 DEF Part, LiesIn
<1>3. p \in Named(d) /\ ClusterOf(d, p) \in Heads(d)  BY <1>1, EntryHeads
<1>4. ASSUME NEW q \in Named(d), q # p
      PROVE  ClusterOf(d, q) # ClusterOf(d, p) /\ own[ClusterOf(d, q)] = ClusterOf(d, q)
    BY <1>3, <1>4, EntryHeads
<1>. QED  BY <1>1, <1>2, <1>3, <1>4

\* fat_write_data writes a block.
LEMMA DataFits ==
    ASSUME IInv, IInv', Clean, NEW own, Fits(own), Data, saved = [p \in Places |-> saved[p]]
    PROVE  Fits(own)'
<1>1. UNCHANGED <<fat, cache, cwd, Trail>> /\ op.pc = "data"  BY DEF Trail, Data
<1>2. PICK c, b, s, p : /\ c = op.file /\ b = op.off + 1 /\ s = TextSector(op.text.v, b, b = op.text.len)
                        /\ p = <<op.at, op.slot>>
    OBVIOUS
<1>3. /\ OpShape /\ c \in Numbers /\ op.at \in Numbers /\ op.slot \in Slots
      /\ own[op.at] = cwd /\ fat[op.at] # 0 /\ cwd \in Heads(disk)
      /\ \A h \in Heads(disk) : own[h] = h
      /\ \A q \in FileEntries(disk) : ClusterOf(disk, q) # cwd
      /\ Whole(fat, disk) /\ Filled \subseteq DirEntries(disk) /\ AreSectors(disk)
      /\ Walks(own) /\ Saving(own)
    BY <1>1, <1>2, FitsFacts DEF OpType, Fits
<1>4. op.cmd = "save"  BY <1>1, <1>3 DEF Walks
<1>5. /\ saved[p] = NoText /\ op.found = TRUE
      /\ Part(own, fat, disk, p, b, c, op.text, op.off)
    BY <1>1, <1>2, <1>3, <1>4 DEF Saving
<1>6. /\ disk' = [disk EXCEPT ![c] = s]
      /\ b = op.text.len => op' = Idle /\ saved' = [saved EXCEPT ![p] = op.text]
      /\ b # op.text.len => op' = [op EXCEPT !.pc = "mark", !.off = b] /\ saved' = saved
    BY <1>2, <1>5 DEF Data
<1>7. op'.pc # "dots" /\ (b = op.text.len => op'.pc = "idle")
    <2>1. CASE b = op.text.len
        <3>1. op' = Idle  BY <1>6, <2>1
        <3>. QED  BY <3>1 DEF Idle
    <2>2. CASE b # op.text.len
        <3>1. op' = [op EXCEPT !.pc = "mark", !.off = b] /\ OpShape  BY <1>3, <1>6, <2>2
        <3>. QED  BY <2>2, <3>1 DEF OpShape
    <2>. QED  BY <2>1, <2>2
<1>8. PICK t, w, d, e, dirs, sv, ds, sw, text, off :
          /\ t = fat /\ w = View /\ d = disk /\ e = disk' /\ dirs = Filled /\ sv = saved
          /\ ds = DirEntries(e) /\ sw = saved' /\ text = op.text /\ off = op.off
    OBVIOUS
<1>9. dirs = DirEntries(d) /\ Filled' = ds
    <2>1. Filled' = DirEntries(disk') /\ Filled = DirEntries(disk)
        BY <1>1, <1>7, FilledStays
    <2>. QED  BY <1>8, <2>1
<1>10. /\ Whole(t, d) /\ dirs \subseteq DirEntries(d) /\ Vol(own, t, w, d, dirs, sv)
       /\ Lineage(own, t, d, dirs, cwd, Trail)
    BY <1>3, <1>8 DEF Fits, Volume
<1>11. /\ c \in Numbers /\ Replaced(d, e, c, s)
       /\ \A i \in Slots : s[i].name \notin Names \cup {Blank}
    <2>1. \A i \in Slots : s[i].name \notin Names \cup {Blank}  BY <1>2, NewSectors
    <2>. QED  BY <1>3, <1>6, <1>8, <2>1 DEF Replaced, AreSectors, Numbers
<1>12. /\ \A q \in Named(e) : q \in Named(d) /\ q[1] # c /\ e[q[1]][q[2]] = d[q[1]][q[2]]
                              /\ ClusterOf(e, q) = ClusterOf(d, q)
       /\ \A q \in Named(d) : q[1] # c => q \in Named(e) /\ ClusterOf(e, q) = ClusterOf(d, q)
                                          /\ e[q[1]][q[2]] = d[q[1]][q[2]]
    <2>1. OthersStay(d, e, c)  BY ONLY <1>11, SectorEntries
    <2>. QED  BY <2>1 DEF OthersStay
<1>13. /\ own[c] = ClusterOf(d, p) /\ c \in Clusters
       /\ p \in FileEntries(d) /\ p \in Named(d) /\ ClusterOf(d, p) \in Heads(d)
       /\ \A q \in Named(d) : q # p => own[c] # ClusterOf(d, q) /\ ClusterOf(d, q) # c
    <2>1. Part(own, t, d, p, b, c, text, off) /\ Whole(t, d) /\ \A h \in Heads(d) : own[h] = h
        BY <1>3, <1>5, <1>8
    <2>. QED  BY ONLY <2>1, PartOwner
<1>14. \A q \in DirEntries(d) : q # p /\ q \in Named(d)
    BY <1>13 DEF DirEntries, FileEntries
<1>15. /\ p[1] = op.at /\ own[p[1]] = cwd /\ p[1] # c /\ t[p[1]] # 0
       /\ \A q \in FileEntries(d) : own[p[1]] # ClusterOf(d, q)
    BY <1>2, <1>3, <1>8, <1>13
<1>16. p \in FileEntries(e) /\ ClusterOf(e, p) = ClusterOf(d, p) /\ FileEntries(e) \subseteq FileEntries(d)
    BY <1>12, <1>13, <1>15 DEF FileEntries
<1>17. /\ b = text.len => text.len \in 1 .. MaxBlocks /\ \E r \in [1 .. text.len -> Clusters] :
              LiesIn(own, t, e, ClusterOf(e, p), r, text.len, text, text.len)
       /\ b # text.len => Part(own, t, e, p, b, c, text, b)
    <2>1. /\ Part(own, t, d, p, off + 1, c, text, off)
          /\ Replaced(d, e, c, TextSector(text.v, off + 1, off + 1 = text.len))
        BY <1>2, <1>5, <1>8, <1>11
    <2>2. p \in FileEntries(e) /\ ClusterOf(e, p) = ClusterOf(d, p)  BY <1>16
    <2>3. /\ off + 1 = text.len => text.len \in 1 .. MaxBlocks /\ \E r \in [1 .. text.len -> Clusters] :
                LiesIn(own, t, e, ClusterOf(e, p), r, text.len, text, text.len)
          /\ off + 1 # text.len => Part(own, t, e, p, off + 1, c, text, off + 1)
        BY ONLY <2>1, <2>2, PartWritten
    <2>4. b = off + 1  BY <1>2, <1>8
    <2>. QED  BY <2>3, <2>4
<1>18. \A q \in Places : \/ sw[q] = sv[q]
                         \/ q = p /\ b = text.len /\ sw[q] = text
    BY <1>6, <1>8
<1>19. Vol(own, t, w, e, ds, sw)
    <2>1. \A q \in dirs : ClusterOf(d, q) # c  BY <1>9, <1>13, <1>14
    <2>2. ASSUME NEW q \in Places, sv[q] # NoText
          PROVE  own[c] # ClusterOf(d, q) /\ q[1] # c
        <3>1. q \in FileEntries(d) /\ own[q[1]] # ClusterOf(d, p)
            BY <1>10, <1>13, <2>2 DEF Vol, Texts, Holds
        <3>2. q # p /\ q \in Named(d)  BY <1>5, <1>8, <2>2, <3>1 DEF FileEntries
        <3>. QED  BY <1>13, <3>1, <3>2
    <2>3. ds \subseteq dirs /\ ds \subseteq Named(e)
        BY <1>8, <1>9, <1>12 DEF DirEntries
    <2>4. ASSUME b = text.len PROVE Holds(own, t, e, p, text)
        <3>1. \A q \in FileEntries(e) : own[p[1]] # ClusterOf(e, q)
            BY <1>12, <1>15, <1>16 DEF FileEntries
        <3>2. text.len \in 1 .. MaxBlocks /\ \E r \in [1 .. text.len -> Clusters] :
                  LiesIn(own, t, e, ClusterOf(e, p), r, text.len, text, text.len)
            BY <1>17, <2>4
        <3>3. p \in FileEntries(e) /\ t[p[1]] # 0  BY <1>15, <1>16
        <3>. QED  BY ONLY <3>1, <3>2, <3>3 DEF Holds
    <2>5. \A q \in Places :
              sw[q] = NoText \/ (sw[q] = sv[q] /\ q[1] # c) \/ Holds(own, t, e, q, sw[q])
        BY <1>18, <2>2, <2>4
    <2>6. \A q \in Places : sv[q] # NoText => own[c] # ClusterOf(d, q)  BY <2>2
    <2>. QED  BY ONLY <1>10, <1>11, <2>1, <2>3, <2>5, <2>6, VolSector
<1>20. Lineage(own, t, e, ds, cwd, Trail)
    <2>1. own[c] \notin {Root} \cup {ClusterOf(d, q) : q \in dirs}
        <3>1. own[c] # Root  BY <1>10, <1>13, EntryHeads
        <3>. QED  BY <1>9, <1>13, <1>14, <3>1
    <2>2. \A q \in dirs : q[1] # c =>
              q \in ds /\ ClusterOf(e, q) = ClusterOf(d, q) /\ NameOf(e, q) = NameOf(d, q)
        BY <1>8, <1>9, <1>12 DEF DirEntries, NameOf
    <2>. QED  BY ONLY <1>10, <2>1, <2>2, LineageSector
<1>21. View' = View  BY <1>1 DEF View, Seen, Numbers
<1>22. /\ Vol(own, fat', View', disk', Filled', saved')
       /\ Lineage(own, fat', disk', Filled', cwd', Trail')
    BY <1>1, <1>8, <1>9, <1>19, <1>20, <1>21
<1>23. CASE b = text.len
    <2>1. op'.pc = "idle"  BY <1>7, <1>8, <1>23
    <2>2. NewInv(own)' /\ Walks(own)' /\ Saving(own)'
        BY <2>1 DEF NewInv, New, Walks, Saving
    <2>. QED  BY <1>22, <2>2, FitsNext
<1>24. CASE b # text.len
    <2>1. /\ op'.pc = "mark" /\ op'.cmd = op.cmd /\ op'.at = op.at /\ op'.file = c
          /\ op'.slot = op.slot /\ op'.found = op.found /\ op'.off = b /\ op'.text = text
        BY <1>2, <1>3, <1>6, <1>8, <1>24 DEF OpShape
    <2>2. NewInv(own)' /\ Walks(own)'  BY <1>1, <1>3, <1>4, <2>1 DEF NewInv, New, Walks
    <2>3. Part(own, fat', disk', <<op'.at, op'.slot>>, op'.off, op'.file, op'.text, op'.off)
        BY <1>1, <1>2, <1>8, <1>17, <1>24, <2>1
    <2>4. saved'[<<op'.at, op'.slot>>] = NoText  BY <1>2, <1>5, <1>6, <1>8, <1>24, <2>1
    <2>5. Saving(own)'  BY <1>5, <2>1, <2>3, <2>4 DEF Saving
    <2>. QED  BY <1>22, <2>2, <2>5, FitsNext
<1>. QED  BY <1>23, <1>24

-----------------------------------------------------------------------------
\* Nothing that happened is undone, but for the path that cd / and a restart set anew.
LEMMA EventsGrow ==
    ASSUME [Next]_vars
    PROVE  /\ events \subseteq events' \cup {"here"}
           /\ Clean' => Clean
<1>1. events \subseteq events' \cup {"here"}
    <2>1. CASE Call
        BY <2>1 DEF Call, Create, MkDir, CdTo, Remove, Cat, List, Move, Save, Start, CdRoot, CdBack
    <2>2. CASE Step
        BY <2>2 DEF Step, Check, Place, Entry, Dots, Mark, Zero, Link, Open, Unlink, Free, Rename,
           Locate, Data, Read, Chain, Dir
    <2>3. CASE Crash  BY <2>3 DEF Crash
    <2>4. CASE UNCHANGED vars  BY <2>4 DEF vars
    <2>. QED  BY <2>1, <2>2, <2>3, <2>4 DEF Next
<1>. QED  BY <1>1 DEF Clean

\* The text that is expected in each entry.
LEMMA TextsShape ==
    ASSUME [Next]_vars, saved = [p \in Places |-> saved[p]]
    PROVE  (saved = [p \in Places |-> saved[p]])'
<1>1. Places' = Places  BY DEF Places, Slots
<1>2. saved' = [p \in Places |-> saved'[p]]
    <2>1. CASE Call
        BY <2>1 DEF Call, Create, MkDir, CdTo, Remove, Cat, List, Move, Save, Start, CdRoot, CdBack
    <2>2. CASE Free  BY <2>2 DEF Free
    <2>3. CASE Unlink \/ Locate \/ Data  BY <2>3 DEF Unlink, Locate, Data
    <2>4. CASE Crash \/ UNCHANGED vars  BY <2>4 DEF Crash, vars
    <2>5. CASE \/ Check \/ Place \/ Entry \/ Dots \/ Mark \/ Zero \/ Link \/ Open
               \/ Rename \/ Read \/ Chain \/ Dir
        BY <2>5 DEF Check, Place, Entry, Dots, Mark, Zero, Link, Open, Rename, Read, Chain, Dir
    <2>. QED  BY <2>1, <2>2, <2>3, <2>4, <2>5 DEF Next, Step
<1>. QED  BY <1>1, <1>2

\* Each step of the driver keeps the texts where they were saved.
LEMMA FitsStays ==
    ASSUME Clean, NEW own, Fits(own), UNCHANGED vars
    PROVE  Fits(own)'
<1>1. UNCHANGED <<fat, disk, cache, cwd, Trail, op, saved>>  BY DEF Trail, vars
<1>2. View' = View  BY <1>1 DEF View, Seen, Numbers
<1>3. Filled' = Filled
    BY <1>1 DEF Filled, Unfilled, DirEntries, Named, ClusterOf, Places, Slots
<1>4. Vol(own, fat', View', disk', Filled', saved') /\ Lineage(own, fat', disk', Filled', cwd', Trail')
    BY <1>1, <1>2, <1>3 DEF Fits, Volume
<1>5. NewInv(own)'  BY <1>1 DEF Fits, NewInv, New, Alone
<1>6. Walks(own)'  BY <1>1 DEF Fits, Walks
<1>7. Saving(own)'  BY <1>1 DEF Fits, Saving
<1>. QED  BY <1>4, <1>5, <1>6, <1>7, FitsNext

\* Each step of each command, and a power failure, leaves the texts where they are.
LEMMA TextInvStep ==
    ASSUME IInv, IInv', TextInv, DotInv, [Next]_vars
    PROVE  TextInv'
<1>1. saved = [p \in Places |-> saved[p]] /\ (Clean => \E own : Fits(own))
    BY DEF TextInv
<1>2. (saved = [p \in Places |-> saved[p]])'  BY <1>1, TextsShape
<1>3. ASSUME Clean' PROVE \E o : Fits(o)'
    <2>1. Clean  BY <1>3, EventsGrow
    <2>2. PICK own : Fits(own)  BY <1>1, <2>1
    <2>3. CASE Place \/ Mark \/ Link  BY <2>1, <2>2, <2>3, PlaceFits, MarkFits, LinkFits
    <2>. SUFFICES ASSUME ~ (Place \/ Mark \/ Link) PROVE Fits(own)'  BY <2>3
    <2>4. CASE Call  BY <2>1, <2>2, <2>4, CallFits
    <2>5. CASE Check \/ Open \/ Read \/ Chain \/ Dir
        BY <2>1, <2>2, <2>5, LookFits, OpenFits
    <2>6. CASE Zero \/ Dots \/ Data
        BY <1>1, <1>3, <2>1, <2>2, <2>6, ZeroFits, DotsFits, DataFits
    <2>7. CASE Entry \/ Unlink \/ Rename \/ Locate
        BY <1>1, <1>3, <2>1, <2>2, <2>7, EntryFits, UnlinkFits, RenameFits, LocateFits
    <2>8. CASE Free  BY <2>1, <2>2, <2>8, FreeFits
    <2>9. CASE Crash  BY <1>3, <2>1, <2>2, <2>9, CrashFits
    <2>10. CASE UNCHANGED vars  BY <2>1, <2>2, <2>10, FitsStays
    <2>. QED  BY <2>4, <2>5, <2>6, <2>7, <2>8, <2>9, <2>10 DEF Next, Step
<1>. QED  BY <1>2, <1>3 DEF TextInv

-----------------------------------------------------------------------------
(* The entries '.' stay in the first clusters of directories.              *)

\* What a step that writes the table leaves of the entries '.' (fat_next_cluster,
\* fat_alloc_cluster, fat_free_chain): only chains that there were.
LEMMA DotsTable ==
    ASSUME DotInv, Clean, UNCHANGED disk,
           \A y \in Numbers : /\ fat'[y] \in {fat[y], View[y], 0, Eoc}
                              /\ View'[y] \in {fat[y], View[y], 0, Eoc}
    PROVE  DotsApart(disk', fat', View')
<1>1. DotsApart(disk, fat, View) /\ 0 \notin Clusters /\ Eoc \notin Clusters
    <2>1. Eoc \notin Clusters /\ 0 \notin Clusters  BY Numbering
    <2>. QED  BY <2>1 DEF DotInv
<1>. SUFFICES ASSUME NEW x \in Clusters, NEW i \in Slots, disk'[x][i].name = Dot
              PROVE  disk'[x][i].cl = x /\ Unled(fat', x) /\ Unled(View', x)
    BY DEF DotsApart
<1>2. disk'[x][i].cl = x /\ Unled(fat, x) /\ Unled(View, x) /\ x # 0 /\ x # Eoc
    BY <1>1 DEF DotsApart
<1>. QED  BY <1>2 DEF Unled

\* What a step that writes a sector leaves of them: a new one is for a cluster that
\* nothing leads to (ata_write_sector).
LEMMA DotsSector ==
    ASSUME DotInv, Clean, UNCHANGED <<fat, cache>>,
           \A x \in Clusters : \A i \in Slots : disk'[x][i].name = Dot =>
               \/ disk[x][i].name = Dot /\ disk'[x][i].cl = disk[x][i].cl
               \/ disk'[x][i].cl = x /\ Unled(fat, x) /\ Unled(View, x)
    PROVE  DotsApart(disk', fat', View')
<1>1. DotsApart(disk, fat, View)  BY DEF DotInv
<1>2. fat' = fat /\ View' = View  BY DEF View, Seen, Numbers
<1>. SUFFICES ASSUME NEW x \in Clusters, NEW i \in Slots, disk'[x][i].name = Dot
              PROVE  disk'[x][i].cl = x /\ Unled(fat, x) /\ Unled(View, x)
    BY <1>2 DEF DotsApart
<1>. QED  BY <1>1 DEF DotsApart

\* A slot is written that is not '.' then (fat_delete_file, fat_rename).
LEMMA DotsSlot ==
    ASSUME DotInv, Clean, UNCHANGED <<fat, cache>>, NEW c \in Numbers, NEW i \in Slots, NEW s,
           Written(disk, disk', c, i, s), s.name # Dot \/ (s.name = disk[c][i].name /\ s.cl = disk[c][i].cl)
    PROVE  DotsApart(disk', fat', View')
<1>1. /\ disk'[c] = [j \in Slots |-> IF j = i THEN s ELSE disk[c][j]]
      /\ \A x \in Numbers : x # c => disk'[x] = disk[x]
    BY DEF Written
<1>2. ASSUME NEW x \in Clusters, NEW j \in Slots, disk'[x][j].name = Dot
      PROVE  disk[x][j].name = Dot /\ disk'[x][j].cl = disk[x][j].cl
    <2>1. x \in Numbers  BY Numbering
    <2>2. CASE x = c /\ j = i
        <3>1. disk'[x][j] = s  BY <1>1, <2>2
        <3>. QED  BY <1>2, <2>2, <3>1
    <2>3. CASE ~ (x = c /\ j = i)
        <3>1. disk'[x][j] = disk[x][j]  BY <1>1, <2>1, <2>3
        <3>. QED  BY <1>2, <3>1
    <2>. QED  BY <2>2, <2>3
<1>. QED  BY <1>2, DotsSector

\* A sector is written that has no '.' (fat_write_data, fat_extend_dir).
LEMMA DotsNone ==
    ASSUME DotInv, Clean, UNCHANGED <<fat, cache>>, AreSectors(disk), NEW c \in Numbers, NEW s,
           disk' = [disk EXCEPT ![c] = s], \A i \in Slots : s[i].name # Dot
    PROVE  DotsApart(disk', fat', View')
<1>1. disk = [x \in Numbers |-> disk[x]] /\ Clusters \subseteq Numbers
    BY Numbering DEF AreSectors, Numbers
<1>2. \A x \in Numbers : disk'[x] = IF x = c THEN s ELSE disk[x]  BY <1>1
<1>3. \A x \in Clusters : \A i \in Slots : disk'[x][i].name = Dot =>
          disk[x][i].name = Dot /\ disk'[x][i].cl = disk[x][i].cl
    BY <1>1, <1>2
<1>. QED  BY <1>3, DotsSector

\* Steps that only look at the table (fat_next_cluster).
LEMMA DotsLooked ==
    ASSUME IInv, DotInv, Clean, UNCHANGED <<fat, disk>>, cache' = cache \/ Looks(cache')
    PROVE  DotsApart(disk', fat', View')
<1>1. View' \in {View, fat}  BY LookKeeps DEF IInv, TypeInv, Looks
<1>. QED  BY <1>1, DotsTable

\* The walks of fat.c look at the table.
LEMMA WalkLooks ==
    ASSUME NEW end, WalkOn(end)
    PROVE  Looks(cache')
    BY LooksOnly DEF WalkOn

\* Only cd makes a command that fat_open_dir is called for, and not cd .. .
LEMMA OpenWord ==
    ASSUME IInv, DotInv, [Next]_vars
    PROVE  /\ op'.pc = "open" => op'.name # DotDot
           /\ op'.pc = "dots" => Entry \/ UNCHANGED vars
<1>1. OpShape /\ (op.pc = "open" => op.name # DotDot)
    BY DEF IInv, TypeInv, OpType, DotInv
<1>2. Idle.pc = "idle"  BY DEF Idle
<1>3. ASSUME NEW end, end.pc \notin {"open", "dots"}, WalkOn(end)
      PROVE  op'.pc \in {end.pc, op.pc} /\ (op'.pc = "open" => op'.name = op.name)
    BY <1>1, <1>3 DEF WalkOn, OpShape
<1>4. CASE Call
    <2>1. CASE CdRoot \/ CdBack  BY <1>1, <2>1 DEF CdRoot, CdBack
    <2>2. ASSUME NEW pc, NEW cmd, NEW n, NEW w, NEW x,
                 op' = [[Command(pc, cmd, n) EXCEPT !.word = w] EXCEPT !.text = x]
          PROVE  op'.pc = pc /\ op'.name = n
        BY <2>2 DEF Command, Idle
    <2>3. ASSUME NEW pc, NEW cmd, NEW n, Start(Command(pc, cmd, n))
          PROVE  op'.pc = pc /\ op'.name = n
        BY <2>3 DEF Start, Command, Idle
    <2>4. CASE \E n \in Typed \ {DotDot} : CdTo(n)  BY <2>3, <2>4 DEF CdTo
    <2>5. CASE \/ \E n \in Typed : Create(n) \/ MkDir(n) \/ Remove(n) \/ Cat(n)
               \/ List
        <3>1. CASE List  BY <3>1 DEF List, Start, Command, Idle
        <3>2. CASE \E n \in Typed : Create(n) \/ MkDir(n) \/ Remove(n) \/ Cat(n)
            <4>1. PICK pc \in {"check", "remove", "read"}, cmd \in {"create", "mkdir", "rm", "cat"},
                       n \in Typed : Start(Command(pc, cmd, n))
                BY <3>2 DEF Create, MkDir, Remove, Cat
            <4>. QED  BY <2>3, <4>1
        <3>. QED  BY <2>5, <3>1, <3>2
    <2>6. CASE \E n, w \in Typed \cup {""} : Move(n, w)
        <3>1. PICK n, w : Move(n, w)  BY <2>6
        <3>2. op'.pc = "rename"  BY <3>1 DEF Move, Start, Command, Idle
        <3>. QED  BY <3>2
    <2>7. CASE \E n \in Typed, v \in Versions, len \in 1 .. MaxBlocks : Save(n, v, len)
        <3>1. PICK n, v, len : Save(n, v, len)  BY <2>7
        <3>2. op'.pc = "locate"  BY <3>1 DEF Save, Start, Command, Idle
        <3>. QED  BY <3>2
    <2>. QED  BY <1>4, <2>1, <2>4, <2>5, <2>6, <2>7 DEF Call
<1>5. CASE Open
    <2>1. op.pc = "open" /\ (WalkOn(Idle) \/ op' = Idle)  BY <1>5 DEF Open
    <2>. QED  BY <1>1, <1>2, <1>3, <2>1
<1>6. CASE Check \/ Place
    <2>1. op.pc \in {"check", "place"}  BY <1>6 DEF Check, Place
    <2>2. [op EXCEPT !.pc = "place", !.at = cwd].pc = "place"
          /\ [op EXCEPT !.pc = "mark", !.file = op.at].pc = "mark"
        BY <1>1 DEF OpShape
    <2>3. \A i, c : [op EXCEPT !.pc = "entry", !.slot = i, !.file = c].pc = "entry"
        BY <1>1 DEF OpShape
    <2>4. op'.pc \in {"check", "place", "idle", "mark", "entry"}
        <3>1. CASE Check  BY <1>2, <1>3, <2>1, <2>2, <3>1 DEF Check
        <3>2. CASE Place
            <4>1. PICK e : e = [op EXCEPT !.pc = "mark", !.file = op.at]  OBVIOUS
            <4>2. \/ \E i, c : op' = [op EXCEPT !.pc = "entry", !.slot = i, !.file = c]
                  \/ WalkOn(e)
                BY <3>2, <4>1 DEF Place
            <4>3. CASE \E i, c : op' = [op EXCEPT !.pc = "entry", !.slot = i, !.file = c]
                BY <2>3, <4>3
            <4>4. CASE WalkOn(e)
                <5>1. e.pc = "mark"  BY <2>2, <4>1
                <5>2. op'.pc \in {e.pc, op.pc}  BY <1>3, <4>4, <5>1
                <5>. QED  BY <2>1, <5>1, <5>2
            <4>. QED  BY <4>2, <4>3, <4>4
        <3>. QED  BY <1>6, <3>1, <3>2
    <2>. QED  BY <2>4
<1>7. CASE Entry
    <2>1. op'.pc \in {"dots", "idle"}  BY <1>1, <1>2, <1>7 DEF Entry, OpShape
    <2>. QED  BY <1>7, <2>1
<1>8. CASE Dots \/ Mark \/ Zero \/ Link \/ Free \/ Data \/ Chain
    <2>1. op'.pc \in {"idle", "zero", "link", "data", "place", "remove", "free", "mark", "chain"}
        BY <1>1, <1>2, <1>8 DEF Dots, Mark, Zero, Link, Free, Data, Chain, OpShape
    <2>. QED  BY <2>1
<1>9. CASE Rename \/ Dir \/ Read \/ Unlink
    <2>1. op.pc \in {"rename", "list", "read", "remove"}
          /\ (WalkOn(Idle) \/ op' = Idle \/ op'.pc \in {"chain", "free"})
        BY <1>1, <1>9 DEF Rename, Dir, Read, Unlink, OpShape
    <2>2. op'.pc \in {"rename", "list", "read", "remove", "idle", "chain", "free"}
        BY <1>2, <1>3, <2>1
    <2>. QED  BY <2>2
<1>10. CASE Locate
    <2>1. op.pc = "locate" /\ (WalkOn([op EXCEPT !.pc = "data"]) \/ op'.pc = "data")
        BY <1>1, <1>10 DEF Locate, OpShape
    <2>2. [op EXCEPT !.pc = "data"].pc = "data"  BY <1>1 DEF OpShape
    <2>3. op'.pc \in {"locate", "data"}  BY <1>3, <2>1, <2>2
    <2>. QED  BY <2>3
<1>11. CASE Crash  BY <1>2, <1>11 DEF Crash
<1>12. CASE UNCHANGED vars  BY <1>1, <1>12 DEF vars
<1>. QED  BY <1>4, <1>5, <1>6, <1>7, <1>8, <1>9, <1>10, <1>11, <1>12 DEF Next, Step

\* The steps that take, link or free a cluster (fat_alloc_cluster, fat_extend_chain,
\* fat_free_chain).
LEMMA DotsChained ==
    ASSUME IInv, TextInv, DotInv, Clean, Place \/ Mark \/ Link \/ Free
    PROVE  DotsApart(disk', fat', View')
<1>1. UNCHANGED disk /\ TableInv /\ OpType /\ CacheInv /\ AreSectors(disk)
    BY DEF Place, Mark, Link, Free, IInv, TypeInv
<1>2. ASSUME NEW c, FreeSeen # {}, c = Min(FreeSeen), Take(c)
      PROVE  DotsApart(disk', fat', View')
    <2>1. c \in Clusters /\ View' = fat'  BY <1>2, TakeSeen
    <2>2. PICK u : (u = View \/ u = fat) /\ fat' = [u EXCEPT ![c] = Eoc]
        BY <1>2, TakeSeen
    <2>3. u \in [Numbers -> FatEntry]  BY <1>1, <2>2 DEF TableInv
    <2>4. \A y \in Numbers : fat'[y] \in {u[y], Eoc}  BY <2>2, <2>3
    <2>. QED  BY <1>1, <2>1, <2>2, <2>4, DotsTable
<1>3. CASE Place \/ Mark
    <2>1. \/ FreeSeen # {} /\ Take(Min(FreeSeen))
          \/ UNCHANGED fat /\ Looks(cache')
        <3>1. FindNone => UNCHANGED fat /\ Looks(cache')
            BY LooksOnly DEF FindNone, Looks, Scanned
        <3>2. \A end : WalkOn(end) => Looks(cache')  BY WalkLooks
        <3>. QED  BY <1>3, <3>1, <3>2 DEF Place, Mark
    <2>. QED  BY <1>1, <1>2, <2>1, DotsLooked
<1>4. CASE Link
    <2>1. PICK f, c : f = op.file /\ c = op.new  OBVIOUS
    <2>2. View' = fat' /\ op.pc = "link"  BY <1>4, LinkSeen DEF Link
    <2>3. PICK u : (u = View \/ u = fat) /\ fat' = [u EXCEPT ![f] = c]
        BY <1>4, <2>1, LinkSeen
    <2>4. u \in [Numbers -> FatEntry]  BY <1>1, <2>3 DEF TableInv
    <2>5. disk[c] = EmptySector /\ c \in Clusters
        <3>1. PICK own : Fits(own)  BY DEF TextInv
        <3>. QED  BY <1>1, <2>1, <2>2, <3>1 DEF Fits, Walks, OpType
    <2>6. \A i \in Slots : disk[c][i].name # Dot
        BY <2>5 DEF EmptySector, Slot, Nul, Dot
    <2>7. \A y \in Numbers : fat'[y] \in {u[y], c}  BY <2>3, <2>4
    <2>. SUFFICES ASSUME NEW x \in Clusters, NEW i \in Slots, disk'[x][i].name = Dot
                  PROVE  disk'[x][i].cl = x /\ Unled(fat', x)
        BY <2>2 DEF DotsApart
    <2>8. x # c  BY <1>1, <2>6
    <2>9. disk[x][i].cl = x /\ Unled(fat, x) /\ Unled(View, x)
        BY <1>1 DEF DotInv, DotsApart
    <2>. QED  BY <1>1, <2>3, <2>7, <2>8, <2>9 DEF Unled
<1>5. CASE Free
    <2>1. View' \in {View, fat}  BY <1>1, <1>5, FreeLooks
    <2>2. fat' = [fat EXCEPT ![op.file] = 0]  BY <1>5 DEF Free
    <2>3. \A y \in Numbers : fat'[y] \in {fat[y], 0}  BY <1>1, <2>2 DEF TableInv
    <2>. QED  BY <1>1, <2>1, <2>3, DotsTable
<1>. QED  BY <1>3, <1>4, <1>5

\* The entry that fat.c's searches find is a slot of the volume.
LEMMA HitPlace ==
    ASSUME IInv, op.pc # "idle", Hits # {}
    PROVE  \E c \in Numbers, i \in Slots : c = op.at /\ i = Min(Hits)
<1>1. Min(Hits) \in Slots /\ op.at \in Numbers  BY HitIsSlot, Zenon
<1>. QED  BY <1>1

\* The steps that write an entry (fat_write_file, fat_delete_file, fat_rename,
\* fat_write_data).
LEMMA DotsEntered ==
    ASSUME IInv, DotInv, Clean, Clean', Entry \/ Unlink \/ Rename \/ Locate
    PROVE  DotsApart(disk', fat', View')
<1>1. AreSectors(disk) /\ OpType  BY DEF IInv, TypeInv
<1>2. Names \cap {Nul, Deleted, Blank, Dot, DotDot, Letter, Slash, "text"} = {}
    BY Wording
<1>3. Dot \notin Names /\ Dot # Blank /\ Dot # Deleted
    <2>1. Dot # Blank /\ Dot # Deleted  BY DEF Dot, Blank, Deleted
    <2>. QED  BY <1>2, <2>1
<1>4. CASE Entry
    <2>1. PICK c, i, s : /\ c = op.at /\ i = op.slot
                         /\ s = Slot(Stored(op.name), IF op.cmd = "mkdir" THEN "dir" ELSE "file", op.file, 0)
        OBVIOUS
    <2>2. disk' = [disk EXCEPT ![c][i] = s] /\ UNCHANGED <<fat, cache>> /\ op.pc = "entry"
          /\ Dotted({op.name}) \subseteq events'
        BY <1>4, <2>1 DEF Entry
    <2>3. c \in Numbers /\ i \in Slots /\ op.name \in Typed
        BY <1>1, <2>1, <2>2 DEF OpType
    <2>4. {op.name} \cap {Dot, DotDot} = {}  BY <2>2, NoDots
    <2>5. s.name = Stored(op.name)  BY <2>1 DEF Slot
    <2>6. s.name # Dot  BY <1>3, <2>3, <2>4, <2>5, Wording
    <2>7. Written(disk, disk', c, i, s)  BY <1>1, <2>2, <2>3, SlotExcept
    <2>. QED  BY <2>2, <2>3, <2>6, <2>7, DotsSlot
<1>5. CASE (Unlink \/ Rename \/ Locate) /\ Hits = {}
    <2>1. UNCHANGED <<fat, disk>> /\ (cache' = cache \/ \E end : WalkOn(end))
        BY <1>5 DEF Unlink, Rename, Locate
    <2>2. cache' = cache \/ Looks(cache')  BY <2>1, WalkLooks
    <2>. QED  BY <2>1, <2>2, DotsLooked
<1>6. ASSUME Hits # {}, op.pc # "idle", UNCHANGED <<fat, cache>>,
             NEW w, w # Dot, disk' = [disk EXCEPT ![op.at][Min(Hits)].name = w]
      PROVE  DotsApart(disk', fat', View')
    <2>1. PICK c \in Numbers, i \in Slots : c = op.at /\ i = Min(Hits)
        BY <1>6, HitPlace
    <2>2. PICK s : s = Slot(w, disk[c][i].attr, disk[c][i].cl, disk[c][i].size)  OBVIOUS
    <2>3. Written(disk, disk', c, i, s)  BY <1>1, <1>6, <2>1, <2>2, SlotExcept
    <2>. QED
        <3>1. s.name # Dot  BY <1>6, <2>2 DEF Slot
        <3>. QED  BY <1>6, <2>3, <3>1, DotsSlot
<1>7. CASE Unlink /\ Hits # {}
    <2>1. /\ op.pc # "idle" /\ UNCHANGED <<fat, cache>>
          /\ disk' = [disk EXCEPT ![op.at][Min(Hits)].name = Deleted]
        BY <1>7 DEF Unlink
    <2>. QED  BY <1>3, <1>6, <1>7, <2>1
<1>8. CASE Rename /\ Hits # {}
    <2>1. PICK w : w = IF op.word = "" THEN Blank ELSE Stored(op.word)  OBVIOUS
    <2>2. /\ op.pc # "idle" /\ UNCHANGED <<fat, cache>>
          /\ disk' = [disk EXCEPT ![op.at][Min(Hits)].name = w]
          /\ Dotted({op.name, op.word}) \subseteq events'
        BY <1>8, <2>1 DEF Rename
    <2>3. w # Dot
        <3>1. op.word \in Typed \cup {""}  BY <1>1, Zenon DEF OpType, NoWord
        <3>2. {op.name, op.word} \cap {Dot, DotDot} = {}  BY <2>2, NoDots
        <3>3. op.word \in Typed => Stored(op.word) # Dot  BY <1>3, <3>2, Wording
        <3>. QED  BY <1>3, <2>1, <3>1, <3>3, Zenon
    <2>. QED  BY <1>6, <1>8, <2>2, <2>3
<1>9. CASE Locate /\ Hits # {}
    <2>1. /\ op.pc # "idle" /\ UNCHANGED <<fat, cache>>
          /\ disk' = [disk EXCEPT ![op.at][Min(Hits)].size = op.text.len]
        BY <1>9 DEF Locate
    <2>2. PICK c \in Numbers, i \in Slots : c = op.at /\ i = Min(Hits)
        BY <1>9, <2>1, HitPlace
    <2>3. PICK s : s = Slot(disk[c][i].name, disk[c][i].attr, disk[c][i].cl, op.text.len)
        OBVIOUS
    <2>4. Written(disk, disk', c, i, s)  BY <1>1, <2>1, <2>2, <2>3, SlotExcept
    <2>5. s.name = disk[c][i].name /\ s.cl = disk[c][i].cl  BY <2>3 DEF Slot
    <2>. QED  BY <2>1, <2>4, <2>5, DotsSlot
<1>. QED  BY <1>4, <1>5, <1>7, <1>8, <1>9

\* The steps that write a sector (fat_init_dir_cluster, fat_extend_dir,
\* fat_write_data).
LEMMA DotsWritten ==
    ASSUME IInv, DotInv, Clean, Dots \/ Zero \/ Data
    PROVE  DotsApart(disk', fat', View')
<1>1. AreSectors(disk) /\ OpType /\ UNCHANGED <<fat, cache>>
    BY DEF IInv, TypeInv, Dots, Zero, Data
<1>2. CASE Dots
    <2>1. PICK c, s : c = op.file /\ s = DirSector(c, op.at)  OBVIOUS
    <2>2. disk' = [disk EXCEPT ![c] = s] /\ c \in Clusters /\ Unled(fat, c) /\ Unled(View, c)
        BY <1>2, <2>1 DEF Dots, DotInv
    <2>3. \A i \in Slots : s[i].name = Dot => s[i].cl = c
        <3>1. s = [i \in Slots |-> IF i = 2 THEN Slot(DotDot, "dir", op.at, 0)
                                   ELSE IF i = 1 THEN Slot(Dot, "dir", c, 0)
                                   ELSE Slot(Nul, "none", 0, 0)]
            BY <2>1 DEF DirSector, EmptySector
        <3>. QED  BY <3>1 DEF Slot, Nul, Dot, DotDot
    <2>4. disk = [x \in Numbers |-> disk[x]] /\ Clusters \subseteq Numbers
        BY <1>1, Numbering DEF AreSectors, Numbers
    <2>5. \A x \in Numbers : disk'[x] = IF x = c THEN s ELSE disk[x]  BY <2>2, <2>4
    <2>6. \A x \in Clusters : \A i \in Slots : disk'[x][i].name = Dot =>
              \/ disk[x][i].name = Dot /\ disk'[x][i].cl = disk[x][i].cl
              \/ disk'[x][i].cl = x /\ Unled(fat, x) /\ Unled(View, x)
        BY <2>2, <2>3, <2>4, <2>5
    <2>. QED  BY <1>1, <2>6, DotsSector
<1>3. CASE Zero
    <2>1. disk' = [disk EXCEPT ![op.new] = EmptySector] /\ op.new \in Numbers
        BY <1>1, <1>3 DEF Zero, OpType
    <2>2. \A i \in Slots : EmptySector[i].name # Dot  BY DEF EmptySector, Slot, Nul, Dot
    <2>. QED  BY <1>1, <2>1, <2>2, DotsNone
<1>4. CASE Data
    <2>1. PICK c, s : c = op.file
                      /\ s = TextSector(op.text.v, op.off + 1, op.off + 1 = op.text.len)
        OBVIOUS
    <2>2. disk' = [disk EXCEPT ![c] = s] /\ c \in Numbers
        BY <1>1, <1>4, <2>1 DEF Data, OpType
    <2>3. \A i \in Slots : s[i].name # Dot
        BY <2>1 DEF TextSector, EmptySector, Slot, Nul, Dot
    <2>. QED  BY <1>1, <2>2, <2>3, DotsNone
<1>. QED  BY <1>2, <1>3, <1>4

\* Every step leaves the entries '.' so (fat.c:513).
LEMMA DotInvStep ==
    ASSUME IInv, TextInv, DotInv, [Next]_vars
    PROVE  DotInv'
<1>1. op'.pc = "open" => op'.name # DotDot  BY OpenWord
<1>2. ASSUME Clean'
      PROVE  DotsApart(disk', fat', View')
    <2>1. Clean  BY <1>2, EventsGrow
    <2>2. CASE Call
        <3>1. UNCHANGED <<fat, disk, cache>>
            BY <2>2 DEF Call, Create, MkDir, CdTo, Remove, Cat, List, Move, Save, Start, CdRoot, CdBack
        <3>. QED  BY <2>1, <3>1, DotsLooked
    <2>3. CASE Check \/ Open \/ Read \/ Chain \/ Dir
        <3>1. UNCHANGED <<fat, disk>>  BY <2>3 DEF Check, Open, Read, Chain, Dir
        <3>2. cache' = cache \/ (\E c : cache' = Loaded(c))
            BY <2>3 DEF Check, Open, Read, Chain, Dir, WalkOn
        <3>. QED  BY <2>1, <3>1, <3>2, LooksOnly, DotsLooked
    <2>4. CASE Place \/ Mark \/ Link \/ Free  BY <2>1, <2>4, DotsChained
    <2>5. CASE Entry \/ Unlink \/ Rename \/ Locate  BY <1>2, <2>1, <2>5, DotsEntered
    <2>6. CASE Dots \/ Zero \/ Data  BY <2>1, <2>6, DotsWritten
    <2>7. CASE Crash
        <3>1. UNCHANGED <<fat, disk>> /\ cache' = NoCache  BY <2>7 DEF Crash
        <3>2. DOMAIN NoCache.buf = {}  BY DEF NoCache
        <3>3. View' = [x \in Numbers |-> IF x \in DOMAIN NoCache.buf THEN NoCache.buf[x] ELSE fat[x]]
            BY <3>1 DEF View, Seen, Numbers
        <3>4. \A y \in Numbers : View'[y] = fat[y]  BY <3>2, <3>3
        <3>. QED  BY <2>1, <3>1, <3>4, DotsTable
    <2>8. CASE UNCHANGED vars
        <3>1. UNCHANGED <<fat, disk, cache>>  BY <2>8 DEF vars
        <3>. QED  BY <2>1, <3>1, DotsLooked
    <2>. QED  BY <2>2, <2>3, <2>4, <2>5, <2>6, <2>7, <2>8 DEF Next, Step
<1>3. ASSUME Clean', op'.pc = "dots"
      PROVE  op'.file \in Clusters /\ Unled(fat', op'.file) /\ Unled(View', op'.file)
    <2>1. Clean  BY <1>3, EventsGrow
    <2>2. CASE Entry
        <3>1. PICK h : h = op.file  OBVIOUS
        <3>2. UNCHANGED <<fat, cache>> /\ op.pc = "entry" /\ h # 0
            BY <1>3, <2>2, <3>1 DEF Entry, Clean
        <3>3. op' = [op EXCEPT !.pc = "dots"] \/ op'.pc = "idle"
            BY <2>2 DEF Entry, Idle
        <3>4. op'.file = h  BY <1>3, <3>1, <3>3 DEF IInv, TypeInv, OpType, OpShape
        <3>5. Fresh(h)  BY <2>1, <3>1, <3>2 DEF IInv, OpInv, Clean, Intact
        <3>6. View' = View  BY <3>2 DEF View, Seen, Numbers
        <3>7. ASSUME NEW y \in Numbers PROVE fat[y] # h
            <4>1. fat[y] # 0 => View[y] = fat[y]  BY SeenAgrees DEF IInv, View, Looks
            <4>. QED  BY <3>2, <3>5, <4>1 DEF Fresh
        <3>. QED  BY <3>2, <3>4, <3>5, <3>6, <3>7 DEF Fresh, Unled
    <2>3. CASE UNCHANGED vars
        <3>1. op' = op /\ fat' = fat /\ View' = View
            BY <2>3 DEF vars, View, Seen, Numbers
        <3>. QED  BY <1>3, <2>1, <3>1 DEF DotInv
    <2>. QED  BY <1>3, <2>2, <2>3, OpenWord
<1>4. Clusters' = Clusters /\ Slots' = Slots /\ Numbers' = Numbers
    BY DEF Clusters, Slots, Numbers
<1>. QED  BY <1>1, <1>2, <1>3, <1>4 DEF DotInv, DotsApart, Unled

\* The clusters that fat_next_cluster can reach from the heads of all chains.
Reachable(t, heads) ==
    {x \in Numbers : \A S \in SUBSET Numbers :
        heads \subseteq S /\ (\A y \in S \cap DOMAIN t : t[y] \in Clusters => t[y] \in S)
            => x \in S}

\* A cluster is reached just when the one it follows is (fat_next_cluster).
LEMMA ReachableStep ==
    ASSUME NEW t \in [Numbers -> FatEntry], NEW heads, heads \subseteq Numbers, Joined(t, heads)
    PROVE  /\ heads \subseteq Reachable(t, heads)
           /\ \A x \in Numbers : t[x] \in Clusters =>
                  (x \in Reachable(t, heads) <=> t[x] \in Reachable(t, heads))
<1>. DEFINE R == Reachable(t, heads)
<1>1. heads \subseteq R /\ Clusters \subseteq Numbers  BY Numbering DEF Reachable
<1>2. ASSUME NEW x \in R, t[x] \in Clusters PROVE t[x] \in R
    BY <1>1, <1>2 DEF Reachable
<1>3. ASSUME NEW x \in Numbers, t[x] \in Clusters, t[x] \in R, x \notin R PROVE FALSE
    <2>. DEFINE S == R \ {t[x]}
    <2>1. S \in SUBSET Numbers  BY DEF Reachable
    <2>2. heads \subseteq S  BY <1>1 DEF Joined
    <2>3. ASSUME NEW y \in S \cap DOMAIN t, t[y] \in Clusters PROVE t[y] \in S
        <3>1. t[y] \in R  BY <1>2, <2>3
        <3>2. t[y] # t[x]  BY <1>3, <2>3 DEF Joined
        <3>. QED  BY <3>1, <3>2
    <2>4. t[x] \in S
        <3>. HIDE DEF S
        <3>1. t[x] \in Reachable(t, heads)  BY <1>3
        <3>. QED  BY <2>1, <2>2, <2>3, <3>1 DEF Reachable
    <2>. QED  BY <2>4
<1>. QED  BY <1>1, <1>2, <1>3

\* The volume that fat_init finds, with the clusters that no entry leads to given to
\* none.
LEMMA VolInit ==
    ASSUME NEW t \in [Numbers -> FatEntry], NEW d, Whole(t, d), Marked(d), NEW dirs,
           dirs \subseteq DirEntries(d), NEW sv, NEW own \in [Numbers -> {0} \cup Heads(d)],
           Divides(own, t, d), Upward(own, d, dirs), Texts(own, t, d, sv)
    PROVE  \E o : Vol(o, t, t, d, dirs, sv)
<1>. DEFINE R == Reachable(t, Heads(d))
            o == [x \in Numbers |-> IF x \in R THEN own[x] ELSE 0]
<1>1. /\ Clusters \subseteq Numbers /\ 0 \notin Clusters /\ 0 \in Numbers
      /\ Heads(d) \subseteq Clusters /\ Heads(d) \subseteq Numbers
    BY EntryHeads, Numbering
<1>2. /\ Heads(d) \subseteq R
      /\ \A x \in Numbers : t[x] \in Clusters => (x \in R <=> t[x] \in R)
    BY <1>1, ReachableStep DEF Whole
<1>3. o \in [Numbers -> Numbers] /\ \A x \in Numbers : o[x] = IF x \in R THEN own[x] ELSE 0
    BY <1>1
<1>. HIDE DEF o
<1>4. Divides(o, t, d)
    <2>1. ASSUME NEW x \in Numbers, t[x] \in Clusters PROVE o[t[x]] = o[x]
        <3>1. own[t[x]] = own[x] /\ t[x] \in Numbers  BY <1>1, <2>1 DEF Divides
        <3>. QED  BY <1>2, <1>3, <2>1, <3>1
    <2>2. ASSUME NEW h \in Heads(d) PROVE o[h] = h  BY <1>1, <1>2, <1>3 DEF Divides
    <2>. QED  BY <2>1, <2>2 DEF Divides
<1>5. Upward(o, d, dirs)
    <2>. SUFFICES ASSUME NEW p \in dirs, o[p[1]] \in {Root} \cup {ClusterOf(d, q) : q \in dirs}
                  PROVE  /\ d[ClusterOf(d, p)][2].name = DotDot
                         /\ Parent(d, ClusterOf(d, p)) = o[p[1]]
        BY DEF Upward
    <2>1. o[p[1]] \in Heads(d) /\ p[1] \in Numbers  BY EntryHeads, PlaceParts
    <2>2. o[p[1]] = own[p[1]]  BY <1>1, <1>3, <2>1
    <2>. QED  BY <2>2 DEF Upward
<1>6. Attached(o, t, Folders(d))
    <2>. SUFFICES ASSUME NEW S \in SUBSET Numbers, Folders(d) \subseteq S,
                         \A y \in S \cap DOMAIN t : t[y] \in Clusters => t[y] \in S,
                         NEW x \in Numbers, o[x] \in Folders(d)
                  PROVE  x \in S
        BY DEF Attached
    <2>. DEFINE U == S \cup {y \in Numbers : o[y] \notin Folders(d)}
    <2>1. U \in SUBSET Numbers  OBVIOUS
    <2>2. Heads(d) \subseteq U  BY <1>1, <1>4 DEF Divides
    <2>3. ASSUME NEW y \in U \cap DOMAIN t, t[y] \in Clusters PROVE t[y] \in U
        <3>1. o[t[y]] = o[y] /\ t[y] \in Numbers  BY <1>1, <1>4, <2>3 DEF Divides
        <3>. QED  BY <2>3, <3>1
    <2>4. x \in R  BY <1>1, <1>3, EntryHeads
    <2>. HIDE DEF U
    <2>5. x \in U  BY <2>1, <2>2, <2>3, <2>4 DEF Reachable
    <2>. QED  BY <2>5 DEF U
<1>7. ASSUME NEW p \in Places, Holds(own, t, d, p, sv[p]) PROVE Holds(o, t, d, p, sv[p])
    <2>1. p \in FileEntries(d) /\ t[p[1]] # 0 /\ sv[p].len \in 1 .. MaxBlocks /\ p[1] \in Numbers
        BY <1>7, PlaceParts DEF Holds
    <2>2. \A q \in FileEntries(d) : o[p[1]] # ClusterOf(d, q)
        <3>1. \A q \in FileEntries(d) : ClusterOf(d, q) \in Clusters /\ own[p[1]] # ClusterOf(d, q)
            BY <1>7, EntryHeads DEF Holds
        <3>. QED  BY <1>1, <1>3, <2>1, <3>1
    <2>3. PICK s \in [1 .. sv[p].len -> Clusters] :
              LiesIn(own, t, d, ClusterOf(d, p), s, sv[p].len, sv[p], sv[p].len)
        BY <1>7 DEF Holds
    <2>4. PICK n \in Nat : n = sv[p].len  BY <2>1
    <2>5. /\ s \in [1 .. n -> Clusters] /\ s[1] = ClusterOf(d, p) /\ 1 \in 1 .. n
          /\ \A b \in 1 .. n : /\ own[s[b]] = ClusterOf(d, p) /\ t[s[b]] # 0
                               /\ b < n => t[s[b]] = s[b + 1]
        BY <2>1, <2>3, <2>4 DEF LiesIn
    <2>6. \A b \in 1 .. n : s[b] \in R
        <3>. DEFINE T == {b \in 1 .. n : s[b] \notin R}
        <3>. SUFFICES ASSUME T # {} PROVE FALSE  OBVIOUS
        <3>1. T \in SUBSET Nat  OBVIOUS
        <3>2. PICK b \in T : \A k \in T : b <= k  BY <3>1, LeastElement
        <3>3. ClusterOf(d, p) \in Heads(d)  BY <2>1, EntryHeads
        <3>4. b # 1  BY <1>2, <2>5, <3>2, <3>3
        <3>5. b - 1 \in 1 .. n /\ ~ (b <= b - 1) /\ b - 1 < n /\ (b - 1) + 1 = b
            BY <3>2, <3>4
        <3>6. s[b - 1] \in R /\ s[b - 1] \in Numbers  BY <1>1, <2>5, <3>2, <3>5
        <3>7. t[s[b - 1]] = s[b] /\ s[b] \in Clusters  BY <2>5, <3>2, <3>5
        <3>. QED  BY <1>2, <3>2, <3>6, <3>7
    <2>7. \A b \in 1 .. sv[p].len : o[s[b]] = ClusterOf(d, p)
        BY <1>1, <1>3, <2>4, <2>5, <2>6
    <2>8. LiesIn(o, t, d, ClusterOf(d, p), s, sv[p].len, sv[p], sv[p].len)
        BY <2>3, <2>7 DEF LiesIn
    <2>. QED  BY <2>1, <2>2, <2>3, <2>8 DEF Holds
<1>8. Texts(o, t, d, sv)  BY <1>7 DEF Texts
<1>. QED  BY <1>3, <1>4, <1>5, <1>6, <1>8 DEF Vol

\* fat_init finds a volume that this driver has written.
LEMMA TextInvInit == Init => TextInv
<1>. SUFFICES ASSUME Init PROVE TextInv  OBVIOUS
<1>1. PICK v \in Volumes : fat = v.fat /\ disk = v.disk /\ saved = v.saved  BY DEF Init
<1>2. /\ saved = [p \in Places |-> saved[p]]
      /\ \A p \in Named(disk) : disk[p[1]][p[2]].attr \in {"dir", "file"}
    BY <1>1, TextsAssumption
<1>3. PICK own \in [Numbers -> {0} \cup Heads(disk)] :
          /\ Divides(own, fat, disk) /\ Upward(own, disk, DirEntries(disk))
          /\ \A p \in Places : saved[p] = NoText \/ Holds(own, fat, disk, p, saved[p])
    BY <1>1, TextsAssumption DEF Numbers
<1>4. fat \in [Numbers -> FatEntry] /\ Whole(fat, disk)
    BY <1>1, WholeAssumption DEF Numbers
<1>5. cache = NoCache /\ cwd = Root /\ path = <<Slash>> /\ op = Idle /\ op.pc = "idle"
    BY DEF Init, Idle
<1>6. View = fat
    <2>1. cache.buf = <<>> /\ DOMAIN cache.buf = {}  BY <1>5 DEF NoCache
    <2>2. View = [c \in Numbers |-> fat[c]]  BY <2>1 DEF View, Seen
    <2>. QED  BY <1>4, <2>2
<1>7. Filled = DirEntries(disk)  BY <1>5 DEF Filled, Unfilled
<1>8. Marked(disk) /\ Texts(own, fat, disk, saved)  BY <1>2, <1>3 DEF Marked, Texts
<1>9. PICK o : Vol(o, fat, fat, disk, DirEntries(disk), saved)
    BY <1>3, <1>4, <1>8, VolInit
<1>10. Volume(o)  BY <1>6, <1>7, <1>9 DEF Volume
<1>11. Lineage(o, fat, disk, Filled, cwd, Trail)
    <2>1. Trail = <<Slash>>  BY <1>5 DEF Init, Trail
    <2>. QED  BY <1>5, <2>1, LineageRoot
<1>12. NewInv(o) /\ Walks(o) /\ Saving(o)  BY <1>5 DEF NewInv, New, Walks, Saving
<1>13. Fits(o)  BY <1>10, <1>11, <1>12 DEF Fits
<1>. QED  BY <1>2, <1>13 DEF TextInv

\* The entries '.' of the volume that fat_init finds.
LEMMA DotInvInit == Init => DotInv
<1>. SUFFICES ASSUME Init PROVE DotInv  OBVIOUS
<1>1. PICK v \in Volumes : fat = v.fat /\ disk = v.disk  BY DEF Init
<1>2. op.pc = "idle" /\ DOMAIN cache.buf = {}
    <2>1. op = Idle /\ Idle.pc = "idle" /\ cache = NoCache  BY DEF Init, Idle
    <2>2. cache.buf = <<>> /\ DOMAIN cache.buf = {}  BY <2>1 DEF NoCache
    <2>. QED  BY <2>1, <2>2
<1>3. \A y \in Numbers : View[y] = fat[y]  BY <1>2 DEF View, Seen
<1>4. \A x \in Clusters : \A i \in Slots : v.disk[x][i].name = Dot =>
          v.disk[x][i].cl = x /\ \A y \in 0 .. LastCluster : v.fat[y] # x
    BY DotsAssumption
<1>5. DotsApart(disk, fat, View)  BY <1>1, <1>3, <1>4 DEF DotsApart, Unled, Numbers
<1>. QED  BY <1>2, <1>5 DEF DotInv

-----------------------------------------------------------------------------
\* The clusters that fat_read_file goes along.
Follows(p, q) ==
    /\ q[1] = ClusterAt(p)
    /\ \A n \in 2 .. MaxBlocks : q[n] = IF q[n - 1] \in Clusters THEN fat[q[n - 1]] ELSE Eoc

\* fat_read_file follows the table from the cluster in the entry.
LEMMA BlockWalk ==
    ASSUME fat \in [Numbers -> FatEntry], NEW p, ClusterAt(p) \in Clusters
    PROVE  \E q : Follows(p, q) /\ \A b : BlockOf(p, b) = q[b]
<1>. DEFINE S == Numbers \cup {Eoc}
            G == [x \in S |-> IF x \in Clusters THEN fat[x] ELSE Eoc]
            Eq(q) == q = [n \in 1 .. MaxBlocks |-> IF n = 1 THEN ClusterAt(p)
                             ELSE IF q[n - 1] \in Clusters THEN fat[q[n - 1]] ELSE Eoc]
<1>1. MaxBlocks \in Nat /\ MaxBlocks - 1 \in Nat /\ MaxBlocks # 0
    <2>1. MaxBlocks \in Nat \ {0}  BY VolumeAssumption, Zenon
    <2>. QED  BY <2>1
<1>2. FatEntry \subseteq S /\ Clusters \subseteq Numbers  BY Numbering
<1>3. G \in [S -> S] /\ ClusterAt(p) \in S  BY <1>2
<1>. HIDE DEF S, G
<1>4. PICK L : L = MaxBlocks - 1  OBVIOUS
<1>5. PICK r \in [0 .. L -> S] : r[0] = ClusterAt(p) /\ \A n \in 1 .. L : r[n] = G[r[n - 1]]
    <2>1. PICK b \in S, g \in [S -> S] : b = ClusterAt(p) /\ g = G  BY <1>3, Zenon
    <2>2. L \in Nat  BY <1>1, <1>4
    <2>3. \E r : Iterates(r, S, b, g, L)  BY <2>1, <2>2, Recursion, Zenon
    <2>. QED  BY <2>1, <2>3, Zenon DEF Iterates
<1>6. \A n \in 1 .. L : r[n] = IF r[n - 1] \in Clusters THEN fat[r[n - 1]] ELSE Eoc
    <2>1. \A n \in 1 .. L : r[n - 1] \in S  BY <1>1, <1>4
    <2>. QED  BY <1>5, <2>1 DEF G
<1>. DEFINE t == [n \in 1 .. MaxBlocks |-> r[n - 1]]
<1>7. Eq(t)
    <2>1. t[1] = ClusterAt(p)  BY <1>1, <1>5
    <2>2. ASSUME NEW n \in 1 .. MaxBlocks, n # 1
          PROVE  t[n] = IF t[n - 1] \in Clusters THEN fat[t[n - 1]] ELSE Eoc
        <3>1. n - 1 \in 1 .. L /\ n - 1 \in 1 .. MaxBlocks  BY <1>1, <1>4, <2>2
        <3>2. t[n] = r[n - 1] /\ t[n - 1] = r[(n - 1) - 1]  BY <3>1
        <3>. QED  BY <1>6, <3>1, <3>2
    <2>. QED  BY <2>1, <2>2
<1>8. PICK q : Eq(q) /\ \A b : BlockOf(p, b) = q[b]  BY <1>7, Zenon DEF BlockOf
<1>9. Follows(p, q)
    <2>1. \A n \in 1 .. MaxBlocks : q[n] = IF n = 1 THEN ClusterAt(p)
              ELSE IF q[n - 1] \in Clusters THEN fat[q[n - 1]] ELSE Eoc
        BY <1>8
    <2>2. 1 \in 1 .. MaxBlocks /\ \A n \in 2 .. MaxBlocks : n \in 1 .. MaxBlocks /\ n # 1
        BY <1>1
    <2>3. q[1] = ClusterAt(p)  BY <2>1, <2>2
    <2>4. \A n \in 2 .. MaxBlocks : q[n] = IF q[n - 1] \in Clusters THEN fat[q[n - 1]] ELSE Eoc
        BY <2>1, <2>2, Zenon
    <2>. QED  BY <2>3, <2>4 DEF Follows
<1>. QED  BY <1>8, <1>9

\* A text that lies in the chain of its file is what fat_read_file finds.
LEMMA HeldIsRead ==
    ASSUME IInv, Clean, NEW own, Fits(own), NEW p \in Places, saved[p] # NoText,
           NEW b \in 1 .. saved[p].len
    PROVE  /\ BlockOf(p, b) \in Clusters
           /\ disk[BlockOf(p, b)] = TextSector(saved[p].v, b, b = saved[p].len)
<1>1. PICK text : text = saved[p]  OBVIOUS
<1>2. Holds(own, fat, disk, p, text)  BY <1>1 DEF Fits, Volume, Vol, Texts
<1>3. p \in FileEntries(disk) /\ text.len \in 1 .. MaxBlocks  BY <1>2 DEF Holds
<1>4. PICK s \in [1 .. text.len -> Clusters] :
          LiesIn(own, fat, disk, ClusterOf(disk, p), s, text.len, text, text.len)
    BY <1>2 DEF Holds
<1>5. ClusterAt(p) = ClusterOf(disk, p) /\ ClusterAt(p) \in Clusters
      /\ fat \in [Numbers -> FatEntry]
    BY <1>3, FitsFacts, EntryHeads DEF ClusterAt, ClusterOf
<1>6. PICK q : Follows(p, q) /\ \A x : BlockOf(p, x) = q[x]  BY <1>5, BlockWalk
<1>7. ASSUME NEW n \in 1 .. text.len PROVE q[n] = s[n]
    <2>. DEFINE T == {k \in 1 .. text.len : q[k] # s[k]}
    <2>. SUFFICES ASSUME T # {} PROVE FALSE  OBVIOUS
    <2>1. PICK m \in T : \A k \in T : m <= k
        <3>1. T \in SUBSET Nat  OBVIOUS
        <3>. HIDE DEF T
        <3>. QED  BY <3>1, LeastElement
    <2>2. m \in 1 .. text.len /\ q[m] # s[m]  BY <2>1
    <2>3. m # 1  BY <1>4, <1>5, <1>6, <2>2 DEF Follows, LiesIn
    <2>4. m \in 2 .. MaxBlocks /\ m - 1 \in 1 .. text.len /\ m - 1 < text.len /\ (m - 1) + 1 = m
          /\ ~ (m <= m - 1)
        <3>1. PICK len : len = text.len  OBVIOUS
        <3>2. MaxBlocks \in Nat /\ len \in 1 .. MaxBlocks /\ m \in 1 .. len /\ m # 1
            BY <1>3, <2>2, <2>3, <3>1, VolumeAssumption DEF VolumeAssumption
        <3>3. m \in 2 .. MaxBlocks /\ m - 1 \in 1 .. len /\ m - 1 < len /\ (m - 1) + 1 = m
              /\ ~ (m <= m - 1)
            BY ONLY <3>2, SMT
        <3>. QED  BY ONLY <3>1, <3>3
    <2>5. q[m - 1] = s[m - 1]  BY <2>1, <2>4
    <2>6. q[m] = fat[s[m - 1]]  BY <1>4, <1>6, <2>4, <2>5 DEF Follows
    <2>7. fat[s[m - 1]] = s[m]
        <3>1. fat[s[m - 1]] = s[(m - 1) + 1]  BY <1>4, <2>4 DEF LiesIn
        <3>. QED  BY <2>4, <3>1
    <2>. QED  BY <2>2, <2>6, <2>7
<1>8. b \in 1 .. text.len /\ BlockOf(p, b) = s[b] /\ s[b] \in Clusters
    BY <1>1, <1>4, <1>6, <1>7
<1>9. disk[s[b]] = TextSector(text.v, b, b = text.len)  BY <1>4, <1>8 DEF LiesIn
<1>. QED  BY <1>1, <1>8, <1>9

\* A text that is in order is the one fat_read_file finds.
LEMMA TextsAreThere == IInv /\ TextInv => SavedIsRead
<1>. SUFFICES ASSUME IInv, TextInv, Sound, events \cap {"deep", "overwritten"} = {},
                     NEW p \in Places, NEW b \in 1 .. saved[p].len
              PROVE  /\ BlockOf(p, b) \in Clusters
                     /\ disk[BlockOf(p, b)] = TextSector(saved[p].v, b, b = saved[p].len)
    BY DEF SavedIsRead
<1>1. Clean  BY DEF Clean, Sound
<1>2. PICK own : Fits(own)  BY <1>1 DEF TextInv
<1>3. ASSUME saved[p] = NoText PROVE FALSE
    <2>1. NoText.len = 0  BY ONLY NoText.len = NoText.len DEF NoText
    <2>2. PICK len : len = saved[p].len  OBVIOUS
    <2>3. len = 0  BY ONLY <1>3, <2>1, <2>2
    <2>4. b \in 1 .. len  BY <2>2
    <2>. QED  BY ONLY <2>3, <2>4, SMT
<1>. QED  BY <1>1, <1>2, <1>3, HeldIsRead

\* The clusters belong to files and directories, each text lies where
\* fat_write_data has put it, and the entry '.' that fat_open_dir may find is its own
\* directory's.
THEOREM TextInvInvariant == Spec => [](TextInv /\ DotInv)
<1>1. Init => TextInv /\ DotInv  BY TextInvInit, DotInvInit
<1>2. IInv /\ IInv' /\ (TextInv /\ DotInv) /\ [Next]_vars => (TextInv /\ DotInv)'
    BY TextInvStep, DotInvStep
<1>. QED  BY <1>1, <1>2, IInvInvariant, PTL DEF Spec

\* A text that was saved is read back, until its file is removed or saved again,
\* whatever is done to other files and wherever the power goes off
\* (fat_write_data, fat_read_file).
THEOREM TextsAreRead == Spec => []SavedIsRead
    BY IInvInvariant, TextInvInvariant, TextsAreThere, PTL

-----------------------------------------------------------------------------
(* The tree below the root.                                                *)

\* Sets that grow from step to step stop doing so before there are more steps than
\* elements, as the walks of ChainOf and DirClusters do.
LEMMA Saturates ==
    ASSUME NEW U, IsFiniteSet(U), NEW L \in Nat \ {0}, Cardinality(U) <= L, NEW r,
           r[0] # {}, \A n \in 0 .. L : r[n] \subseteq U,
           \A n \in 1 .. L : r[n - 1] \subseteq r[n],
           \A m, n \in 1 .. L : r[m - 1] = r[n - 1] => r[m] = r[n]
    PROVE  \E m \in 1 .. L : r[m] = r[L] /\ r[m - 1] = r[L]
<1>. DEFINE I == 0 .. L
<1>1. ASSUME NEW i \in I, NEW j \in I, i <= j PROVE r[i] \subseteq r[j]
    <2>. DEFINE T == {k \in I : i <= k /\ ~ (r[i] \subseteq r[k])}
    <2>. SUFFICES ASSUME T # {} PROVE FALSE  BY <1>1
    <2>. HIDE DEF T
    <2>1. T \in SUBSET Nat  BY DEF T
    <2>2. PICK k \in T : \A l \in T : k <= l  BY <2>1, LeastElement
    <2>3. k \in I /\ i <= k /\ ~ (r[i] \subseteq r[k])  BY <2>2 DEF T
    <2>4. i # k  BY <2>3
    <2>5. k \in 1 .. L /\ k - 1 \in I /\ i <= k - 1 /\ ~ (k <= k - 1)  BY <2>3, <2>4
    <2>6. r[i] \subseteq r[k - 1]  BY <2>2, <2>5 DEF T
    <2>. QED  BY <2>3, <2>5, <2>6
<1>2. \E m \in 1 .. L : r[m - 1] = r[m]
    <2>. SUFFICES ASSUME \A m \in 1 .. L : r[m - 1] # r[m] PROVE FALSE  OBVIOUS
    <2>. DEFINE f == [n \in I |-> CHOOSE x \in r[n] : n = 0 \/ x \notin r[n - 1]]
    <2>1. ASSUME NEW n \in I PROVE f[n] \in r[n] /\ (n = 0 \/ f[n] \notin r[n - 1])
        <3>1. \E x \in r[n] : n = 0 \/ x \notin r[n - 1]
            <4>1. CASE n = 0  BY <4>1
            <4>2. CASE n # 0
                <5>1. n \in 1 .. L  BY <4>2
                <5>2. r[n - 1] \subseteq r[n] /\ r[n - 1] # r[n]  BY <5>1
                <5>. QED  BY ONLY <5>2
            <4>. QED  BY <4>1, <4>2
        <3>. QED  BY <3>1
    <2>. HIDE DEF f
    <2>2. f \in [I -> U]
        <3>1. \A n \in I : f[n] \in U  BY <2>1
        <3>2. f = [n \in I |-> f[n]]  BY DEF f
        <3>. QED  BY <3>1, <3>2
    <2>3. IsFiniteSet(I) /\ Cardinality(I) = L + 1  BY FS_Interval
    <2>4. Cardinality(U) \in Nat  BY FS_CardinalityType
    <2>5. Cardinality(U) < Cardinality(I)  BY <2>3, <2>4
    <2>. HIDE DEF I
    <2>6. PICK i, j \in I : i # j /\ f[i] = f[j]  BY <2>2, <2>3, <2>5, FS_PigeonHole
    <2>. USE DEF I
    <2>7. ASSUME NEW v \in I, NEW w \in I, v < w PROVE f[v] # f[w]
        <3>1. w - 1 \in I /\ v <= w - 1 /\ w # 0  BY <2>7
        <3>2. f[v] \in r[w - 1]  BY <1>1, <2>1, <3>1
        <3>. QED  BY <2>1, <3>1, <3>2
    <2>8. i < j \/ j < i  BY <2>6
    <2>. QED  BY <2>6, <2>7, <2>8
<1>3. PICK m \in 1 .. L : r[m - 1] = r[m]  BY <1>2
<1>4. r[L] = r[m]
    <2>. DEFINE T == {k \in I : m <= k /\ r[k] # r[m]}
    <2>. SUFFICES ASSUME T # {} PROVE FALSE  OBVIOUS
    <2>. HIDE DEF T
    <2>1. T \in SUBSET Nat  BY DEF T
    <2>2. PICK k \in T : \A l \in T : k <= l  BY <2>1, LeastElement
    <2>3. k \in I /\ m <= k /\ r[k] # r[m]  BY <2>2 DEF T
    <2>4. m # k  BY <2>3
    <2>5. k \in 1 .. L /\ k - 1 \in I /\ m <= k - 1 /\ ~ (k <= k - 1)  BY <2>3, <2>4
    <2>6. r[k - 1] = r[m]  BY <2>2, <2>5 DEF T
    <2>7. r[k - 1] = r[m - 1]  BY <1>3, <2>6
    <2>. QED  BY <2>3, <2>5, <2>7
<1>. QED  BY <1>3, <1>4

\* What follows a cluster of a chain is in the chain (fat_next_cluster).
LEMMA ChainClosed ==
    ASSUME fat \in [Numbers -> FatEntry], Whole(fat, disk), NEW c \in Heads(disk)
    PROVE  /\ c \in ChainOf(c)
           /\ \A x \in ChainOf(c) : fat[x] \in Clusters => fat[x] \in ChainOf(c)
<1>1. /\ c \in Clusters /\ c \in Numbers /\ LastCluster \in Nat \ {0} /\ LastCluster \in Numbers
      /\ 0 \in Numbers /\ Eoc \notin Numbers /\ Clusters \subseteq Numbers
    <2>1. c \in Clusters  BY DEF Whole
    <2>2. LastCluster \in Nat \ {0}  BY Numbering
    <2>. QED  BY <2>1, <2>2, Numbering
<1>2. PICK r : Reach(c, r) /\ ChainOf(c) = r[LastCluster] \ {Eoc}  BY <1>1, ChainReach
<1>3. c \in ChainOf(c)
    <2>1. c \in r[0] /\ c # Eoc  BY <1>1, <1>2 DEF Reach
    <2>. QED  BY <1>1, <1>2, <2>1, ReachGrows
<1>. DEFINE U == Clusters \cup {Eoc}
<1>4. IsFiniteSet(U) /\ Cardinality(U) <= LastCluster
    <2>1. IsFiniteSet(Clusters) /\ Cardinality(Clusters) = LastCluster - 1
        BY Numbering, FS_Interval DEF Clusters
    <2>2. Eoc \notin Clusters  BY <1>1
    <2>3. IsFiniteSet(U) /\ Cardinality(U) = Cardinality(Clusters) + 1
        BY <2>1, <2>2, FS_AddElement
    <2>. QED  BY <1>1, <2>1, <2>3
<1>5. \A n \in 0 .. LastCluster : r[n] \subseteq U  BY <1>2, ReachInUse DEF Numbers
<1>6. \A n \in 1 .. LastCluster : r[n] = r[n - 1] \cup {fat[x] : x \in r[n - 1] \ {Eoc}}
    BY <1>2 DEF Reach
<1>7. r[0] # {}  BY <1>2 DEF Reach
<1>8. PICK m \in 1 .. LastCluster : r[m] = r[LastCluster] /\ r[m - 1] = r[LastCluster]
    <2>. HIDE DEF U
    <2>1. \A n \in 1 .. LastCluster : r[n - 1] \subseteq r[n]  BY <1>6
    <2>2. \A k, n \in 1 .. LastCluster : r[k - 1] = r[n - 1] => r[k] = r[n]  BY <1>6
    <2>. QED  BY <1>1, <1>4, <1>5, <1>7, <2>1, <2>2, Saturates
<1>9. ASSUME NEW x \in ChainOf(c), fat[x] \in Clusters PROVE fat[x] \in ChainOf(c)
    <2>1. x \in r[m - 1] \ {Eoc}  BY <1>2, <1>8
    <2>2. fat[x] \in r[m]  BY <1>6, <2>1
    <2>3. fat[x] # Eoc  BY <1>1, <1>9
    <2>. QED  BY <1>2, <1>8, <2>2, <2>3
<1>. QED  BY <1>3, <1>9

\* The clusters in use that belong to a directory are in its chain (fat_extend_chain).
LEMMA OwnedIsInChain ==
    ASSUME IInv, Clean, NEW own, Fits(own), NEW x \in Numbers, fat[x] # 0,
           own[x] \in Folders(disk)
    PROVE  x \in ChainOf(own[x])
<1>1. Whole(fat, disk) /\ fat \in [Numbers -> FatEntry] /\ Clusters \subseteq Numbers
    BY FitsFacts, Numbering
<1>2. Folders(disk) \subseteq Heads(disk) /\ Folders(disk) \subseteq Numbers
    BY <1>1, EntryHeads
<1>3. Attached(own, fat, Folders(disk)) /\ Divides(own, fat, disk)
    BY DEF Fits, Volume, Vol
<1>. DEFINE S == {y \in Numbers : own[y] \in Folders(disk) => y \in ChainOf(own[y])}
<1>4. Folders(disk) \subseteq S
    <2>. SUFFICES ASSUME NEW h \in Folders(disk) PROVE h \in S  OBVIOUS
    <2>1. h \in Heads(disk) /\ own[h] = h  BY <1>2, <1>3 DEF Divides
    <2>. QED  BY <1>1, <1>2, <2>1, ChainClosed
<1>5. ASSUME NEW y \in S \cap DOMAIN fat, fat[y] \in Clusters PROVE fat[y] \in S
    <2>1. own[fat[y]] = own[y]  BY <1>3, <1>5 DEF Divides
    <2>2. CASE own[y] \in Folders(disk)
        <3>1. own[y] \in Heads(disk) /\ y \in ChainOf(own[y])  BY <1>2, <2>2
        <3>2. fat[y] \in ChainOf(own[y])  BY <1>1, <1>5, <3>1, ChainClosed
        <3>. QED  BY <1>1, <1>5, <2>1, <3>2
    <2>3. CASE own[y] \notin Folders(disk)  BY <1>1, <1>5, <2>1, <2>3
    <2>. QED  BY <2>2, <2>3
<1>6. S \in SUBSET Numbers  OBVIOUS
<1>. HIDE DEF S
<1>7. x \in S  BY <1>3, <1>4, <1>5, <1>6 DEF Attached
<1>. QED  BY <1>7 DEF S

\* The chains of the root and of the directories that are reached are reached
\* (fat_open_dir).
LEMMA DirClustersClosed ==
    ASSUME fat \in [Numbers -> FatEntry], Whole(fat, disk)
    PROVE  /\ ChainOf(Root) \cap Clusters \subseteq DirClusters
           /\ \A p \in DirClusters \X Slots : IsDirectory(p) =>
                  (ChainOf(ClusterAt(p)) \ Unfilled) \cap Clusters \subseteq DirClusters
<1>. DEFINE Below(ds) == (UNION {ChainOf(ClusterAt(p)) :
                                    p \in {q \in ds \X Slots : IsDirectory(q)}}) \ Unfilled
            S == SUBSET Clusters
            G == [s \in S |-> s \cup (Below(s) \cap Clusters)]
            Eq(q) == q = [n \in 0 .. LastCluster |-> IF n = 0 THEN ChainOf(Root) \cap Clusters
                             ELSE q[n - 1] \cup (Below(q[n - 1]) \cap Clusters)]
<1>1. LastCluster \in Nat \ {0}  BY Numbering
<1>2. G \in [S -> S] /\ ChainOf(Root) \cap Clusters \in S  OBVIOUS
<1>. HIDE DEF S, G, Below
<1>3. PICK r \in [0 .. LastCluster -> S] :
          r[0] = ChainOf(Root) \cap Clusters /\ \A n \in 1 .. LastCluster : r[n] = G[r[n - 1]]
    <2>1. PICK b \in S, g \in [S -> S] : b = ChainOf(Root) \cap Clusters /\ g = G
        BY <1>2, Zenon
    <2>2. \E r : Iterates(r, S, b, g, LastCluster)  BY <1>1, <2>1, Recursion, Zenon
    <2>. QED  BY <2>1, <2>2, Zenon DEF Iterates
<1>4. \A n \in 1 .. LastCluster : r[n] = r[n - 1] \cup (Below(r[n - 1]) \cap Clusters)
    <2>1. \A n \in 1 .. LastCluster : r[n - 1] \in S  BY <1>1
    <2>. QED  BY <1>3, <2>1 DEF G
<1>5. Eq(r)  BY <1>1, <1>3, <1>4
<1>. USE DEF Below
<1>6. PICK q : Eq(q) /\ DirClusters = q[LastCluster]  BY <1>5, Zenon DEF DirClusters
<1>. HIDE DEF Below
<1>7. \A n \in 0 .. LastCluster : q[n] = IF n = 0 THEN ChainOf(Root) \cap Clusters
                                          ELSE q[n - 1] \cup (Below(q[n - 1]) \cap Clusters)
    BY <1>6
<1>8. q[0] = ChainOf(Root) \cap Clusters
    <2>1. 0 \in 0 .. LastCluster  BY <1>1
    <2>. QED  BY <1>7, <2>1, Zenon
<1>9. \A n \in 1 .. LastCluster : q[n] = q[n - 1] \cup (Below(q[n - 1]) \cap Clusters)
    <2>1. \A n \in 1 .. LastCluster : n \in 0 .. LastCluster /\ n # 0  OBVIOUS
    <2>. QED  BY <1>7, <2>1, Zenon
<1>. HIDE DEF Eq
<1>10. \A n \in 0 .. LastCluster : q[n] \subseteq Clusters
    <2>. DEFINE T == {n \in 0 .. LastCluster : ~ (q[n] \subseteq Clusters)}
    <2>. SUFFICES ASSUME T # {} PROVE FALSE  OBVIOUS
    <2>. HIDE DEF T
    <2>1. T \in SUBSET Nat  BY DEF T
    <2>2. PICK n \in T : \A k \in T : n <= k  BY <2>1, LeastElement
    <2>. USE DEF T
    <2>3. n # 0  BY <1>8, <2>2
    <2>4. n \in 1 .. LastCluster /\ n - 1 \in 0 .. LastCluster /\ ~ (n <= n - 1)
        BY <1>1, <2>2, <2>3
    <2>5. q[n - 1] \subseteq Clusters  BY <2>2, <2>4
    <2>. QED  BY <1>9, <2>2, <2>4, <2>5
<1>11. q[0] # {}  BY <1>8, ChainClosed, EntryHeads, Numbering
<1>12. PICK m \in 1 .. LastCluster : q[m] = q[LastCluster] /\ q[m - 1] = q[LastCluster]
    <2>1. IsFiniteSet(Clusters) /\ Cardinality(Clusters) <= LastCluster
        <3>1. IsFiniteSet(Clusters) /\ Cardinality(Clusters) = LastCluster - 1
            BY Numbering, FS_Interval DEF Clusters
        <3>. QED  BY <1>1, <3>1
    <2>2. \A n \in 1 .. LastCluster : q[n - 1] \subseteq q[n]  BY <1>9
    <2>3. \A k, n \in 1 .. LastCluster : q[k - 1] = q[n - 1] => q[k] = q[n]  BY <1>9
    <2>. QED  BY <1>1, <1>10, <1>11, <2>1, <2>2, <2>3, Saturates
<1>13. Below(DirClusters) \cap Clusters \subseteq DirClusters  BY <1>6, <1>9, <1>12
<1>14. q[0] \subseteq DirClusters
    <2>. DEFINE T == {n \in 0 .. LastCluster : ~ (q[0] \subseteq q[n])}
    <2>. SUFFICES ASSUME T # {} PROVE FALSE  BY <1>1, <1>6
    <2>. HIDE DEF T
    <2>1. T \in SUBSET Nat  BY DEF T
    <2>2. PICK n \in T : \A k \in T : n <= k  BY <2>1, LeastElement
    <2>. USE DEF T
    <2>3. n # 0  BY <2>2
    <2>4. n \in 1 .. LastCluster /\ n - 1 \in 0 .. LastCluster /\ ~ (n <= n - 1)
        BY <1>1, <2>2, <2>3
    <2>5. q[0] \subseteq q[n - 1]  BY <2>2, <2>4
    <2>. QED  BY <1>9, <2>2, <2>4, <2>5
<1>. USE DEF Below
<1>15. ASSUME NEW p \in DirClusters \X Slots, IsDirectory(p)
       PROVE  (ChainOf(ClusterAt(p)) \ Unfilled) \cap Clusters \subseteq DirClusters
    <2>1. p \in {v \in DirClusters \X Slots : IsDirectory(v)}  BY <1>15
    <2>2. PICK chain : chain = ChainOf(ClusterAt(p))  OBVIOUS
    <2>3. chain \in {ChainOf(ClusterAt(v)) : v \in {w \in DirClusters \X Slots : IsDirectory(w)}}
        BY <2>1, <2>2, Zenon
    <2>4. chain \subseteq UNION {ChainOf(ClusterAt(v)) : v \in {w \in DirClusters \X Slots : IsDirectory(w)}}
        BY <2>3, Zenon
    <2>5. chain \ Unfilled \subseteq Below(DirClusters)  BY <2>4, Zenon
    <2>. QED  BY <1>13, <2>2, <2>5, Zenon
<1>. QED  BY <1>8, <1>14, <1>15

\* No chain of another directory leads to the sector that mkdir is about to fill
\* (fat_create_dir).
LEMMA UnfilledIsAlone ==
    ASSUME IInv, Clean, NEW own, Fits(own), NEW h \in Heads(disk), h \notin Unfilled
    PROVE  ChainOf(h) \cap Unfilled = {}
<1>. SUFFICES ASSUME op.pc = "dots", op.file \in ChainOf(h) PROVE FALSE  BY DEF Unfilled
<1>1. Whole(fat, disk) /\ fat \in [Numbers -> FatEntry] /\ h \in Numbers /\ LastCluster \in Numbers
    BY FitsFacts, Numbering
<1>2. op.file # h  BY DEF Unfilled
<1>3. PICK r : Reach(h, r) /\ ChainOf(h) = r[LastCluster] \ {Eoc}  BY <1>1, ChainReach
<1>4. PICK f : f = op.file /\ f \in r[LastCluster] /\ f # h /\ f # Eoc  BY <1>2, <1>3
<1>5. f \in Clusters  BY <1>1, <1>3, <1>4, ReachInUse
<1>6. PICK k \in Numbers : \E z \in r[k] : z # Eoc /\ fat[z] = f
    BY <1>1, <1>3, <1>4, ReachBack
<1>7. PICK z \in r[k] : z # Eoc /\ fat[z] = f  BY <1>6
<1>8. z \in Numbers /\ z \in DOMAIN fat  BY <1>1, <1>3, <1>7, ReachInUse, Numbering
<1>9. Alone(own, fat, saved, f)
    <2>1. f \in New  BY <1>4, <1>5, Numbering DEF New
    <2>. QED  BY <2>1 DEF Fits, NewInv
<1>10. own[f] = own[z]  BY <1>5, <1>7, <1>8 DEF Fits, Volume, Vol, Divides
<1>11. z = f  BY <1>5, <1>8, <1>9, <1>10, Numbering DEF Alone
<1>. QED  BY <1>5, <1>7, <1>9, <1>11, Numbering DEF Alone

\* The entry of a directory above the working one: it lies in the chain of the one
\* above, and a path from the root leads to it (fat_open_dir).
Leads(own, q, a, A, depth, k) ==
    /\ q \in Filled /\ q \in Entries /\ IsDirectory(q) /\ ClusterAt(q) = a
    /\ own[q[1]] \in A /\ q[1] \in ChainOf(own[q[1]]) /\ depth[a] = depth[own[q[1]]] + 1
    /\ ~ Lost(Trail) => /\ disk[q[1]][q[2]].name \in Names
                        /\ Trail[k + 2 * depth[a] - 1] = disk[q[1]][q[2]].name
                        /\ Trail[k + 2 * depth[a]] = Slash

\* The directories between the root and the working one are those that a path from
\* the root leads to (fat_open_dir).
LEMMA LineIsSeen ==
    ASSUME IInv, Clean, NEW own, Fits(own), NEW A, NEW depth, NEW k,
           Line(own, fat, disk, Filled, cwd, Trail, A, depth, k), NEW a \in A
    PROVE  /\ a \in DirHeads /\ ChainOf(a) \subseteq DirClusters
           /\ a # Root => \E q \in Filled : Leads(own, q, a, A, depth, k)
<1>1. /\ Whole(fat, disk) /\ fat \in [Numbers -> FatEntry] /\ CacheInv
      /\ Filled \subseteq DirEntries(disk)
    BY FitsFacts
<1>2. Named(disk) \subseteq Places /\ DirEntries(disk) \subseteq Named(disk)
      /\ Root \in Heads(disk) /\ Folders(disk) \subseteq Heads(disk)
    BY <1>1, EntryHeads
<1>3. A \in SUBSET Clusters /\ depth \in [Clusters -> Nat]  BY DEF Line
<1>4. /\ ChainOf(Root) \cap Clusters \subseteq DirClusters
      /\ \A p \in DirClusters \X Slots : IsDirectory(p) =>
             (ChainOf(ClusterAt(p)) \ Unfilled) \cap Clusters \subseteq DirClusters
    BY <1>1, DirClustersClosed
<1>5. \A h \in Heads(disk) : ChainOf(h) \subseteq Clusters  BY <1>1, ChainMembers
<1>6. ASSUME NEW b \in A \ {Root}, NEW q \in Filled, ClusterOf(disk, q) = b, fat[q[1]] # 0,
             own[q[1]] \in A, ChainOf(own[q[1]]) \subseteq DirClusters
      PROVE  /\ q \in Entries /\ IsDirectory(q) /\ ClusterAt(q) = b
             /\ q[1] \in ChainOf(own[q[1]]) /\ b \in DirHeads /\ ChainOf(b) \subseteq DirClusters
    <2>1. q \in DirEntries(disk) /\ q \in Named(disk) /\ q \in Places  BY <1>1, <1>2
    <2>2. q[1] \in Numbers /\ q[2] \in Slots /\ q = <<q[1], q[2]>>
        BY <2>1, PlaceParts DEF Places, Numbers
    <2>3. own[q[1]] \in Folders(disk)
        <3>1. own[q[1]] \in {Root} \cup {ClusterOf(disk, x) : x \in Filled}
            BY <1>6, LineageMembers
        <3>. QED  BY <1>1, <3>1 DEF Folders
    <2>4. q[1] \in ChainOf(own[q[1]])  BY <1>6, <2>2, <2>3, OwnedIsInChain
    <2>5. q \in DirClusters \X Slots
        <3>1. q[1] \in DirClusters  BY <1>6, <2>4
        <3>. QED  BY <2>2, <3>1
    <2>6. IsEntry(q) /\ IsDirectory(q) /\ ClusterAt(q) = b
        BY <1>6, <2>1 DEF IsEntry, IsDirectory, ClusterAt, Named, DirEntries, ClusterOf
    <2>7. q \in Entries  BY <2>5, <2>6 DEF Entries
    <2>8. b \in DirHeads  BY <2>6, <2>7 DEF DirHeads
    <2>9. b \in Heads(disk) /\ b \notin Unfilled
        BY <1>2, <1>6, <2>1 DEF Filled, Heads, ClusterOf
    <2>10. ChainOf(b) \subseteq Clusters /\ ChainOf(b) \cap Unfilled = {}
        BY <1>5, <2>9, UnfilledIsAlone
    <2>11. (ChainOf(b) \ Unfilled) \cap Clusters \subseteq DirClusters
        BY <1>4, <2>5, <2>6
    <2>12. ChainOf(b) \subseteq DirClusters  BY <2>10, <2>11
    <2>. QED  BY <2>4, <2>6, <2>7, <2>8, <2>12
<1>7. \A b \in A \ {Root} : \E q \in Filled :
          /\ ClusterOf(disk, q) = b /\ fat[q[1]] # 0
          /\ own[q[1]] \in A /\ depth[b] = depth[own[q[1]]] + 1
          /\ ~ Lost(Trail) => /\ NameOf(disk, q) \in Names /\ Trail[k + 2 * depth[b] - 1] = NameOf(disk, q)
                              /\ Trail[k + 2 * depth[b]] = Slash
    BY DEF Line
<1>8. \A b \in A : b \in DirHeads /\ ChainOf(b) \subseteq DirClusters
    <2>. DEFINE Out(b) == ~ (b \in DirHeads /\ ChainOf(b) \subseteq DirClusters)
                T == {n \in Nat : \E b \in A : depth[b] = n /\ Out(b)}
    <2>. SUFFICES ASSUME NEW c \in A, Out(c) PROVE FALSE  OBVIOUS
    <2>. HIDE DEF Out
    <2>1. T \in SUBSET Nat /\ depth[c] \in T  BY <1>3
    <2>2. PICK n \in T : \A l \in T : n <= l  BY <2>1, LeastElement
    <2>3. PICK b \in A : depth[b] = n /\ Out(b)  BY <2>2
    <2>4. b # Root
        <3>1. Root \in DirHeads /\ ChainOf(Root) \subseteq DirClusters
            BY <1>2, <1>4, <1>5 DEF DirHeads
        <3>. QED  BY <2>3, <3>1 DEF Out
    <2>5. PICK q \in Filled : /\ ClusterOf(disk, q) = b /\ fat[q[1]] # 0
                              /\ own[q[1]] \in A /\ depth[b] = depth[own[q[1]]] + 1
        BY <1>7, <2>3, <2>4
    <2>6. depth[own[q[1]]] \in Nat /\ depth[own[q[1]]] \notin T
        <3>1. PICK m \in Nat : m = depth[own[q[1]]]  BY <1>3, <2>5
        <3>2. n = m + 1 /\ n \in Nat  BY <2>3, <2>5, <3>1, <2>1
        <3>3. ~ (n <= m)  BY <3>2
        <3>. QED  BY <2>2, <3>1, <3>3
    <2>7. ~ Out(own[q[1]])  BY <2>5, <2>6
    <2>8. ChainOf(own[q[1]]) \subseteq DirClusters  BY <2>7 DEF Out
    <2>9. b \in DirHeads /\ ChainOf(b) \subseteq DirClusters
        BY <1>6, <2>3, <2>4, <2>5, <2>8
    <2>. QED  BY <2>3, <2>9 DEF Out
<1>9. ASSUME a # Root PROVE \E q \in Filled : Leads(own, q, a, A, depth, k)
    <2>1. PICK q \in Filled :
              /\ ClusterOf(disk, q) = a /\ fat[q[1]] # 0
              /\ own[q[1]] \in A /\ depth[a] = depth[own[q[1]]] + 1
              /\ ~ Lost(Trail) => /\ NameOf(disk, q) \in Names
                                  /\ Trail[k + 2 * depth[a] - 1] = NameOf(disk, q)
                                  /\ Trail[k + 2 * depth[a]] = Slash
        BY <1>7, <1>9
    <2>2. ChainOf(own[q[1]]) \subseteq DirClusters  BY <1>8, <2>1
    <2>3. q \in Entries /\ IsDirectory(q) /\ ClusterAt(q) = a /\ q[1] \in ChainOf(own[q[1]])
        BY <1>6, <1>9, <2>1, <2>2
    <2>4. Leads(own, q, a, A, depth, k)  BY <2>1, <2>3 DEF Leads, NameOf
    <2>. QED  BY <2>4
<1>. QED  BY <1>8, <1>9

\* cd .. leads to the directory that holds the entry of the present one, unless mkdir
\* has run in the later cluster of a directory (fat_cd_back).
THEOREM BackLeadsUp == Spec => BackIsUp
<1>1. IInv /\ TextInv /\ [Next]_vars =>
          [CdBack /\ Sound /\ events \cap {"deep", "overwritten"} = {} => GoesUp]_vars
    <2>. SUFFICES ASSUME IInv, TextInv, CdBack, Sound, events \cap {"deep", "overwritten"} = {}
                  PROVE  GoesUp
        OBVIOUS
    <2>1. Clean  BY DEF Clean, Sound
    <2>2. PICK own : Fits(own)  BY <2>1 DEF TextInv
    <2>3. cwd' = Parent(disk, cwd) /\ cwd # Root  BY DEF CdBack
    <2>4. PICK A, depth, k : Line(own, fat, disk, Filled, cwd, Trail, A, depth, k)
        BY <2>2 DEF Fits, Lineage
    <2>5. cwd \in A  BY <2>4 DEF Line
    <2>6. PICK q \in Filled : Leads(own, q, cwd, A, depth, k)
        BY <2>1, <2>2, <2>3, <2>4, <2>5, LineIsSeen
    <2>7. PICK g : g = own[q[1]] /\ g \in A /\ q[1] \in ChainOf(g)  BY <2>6 DEF Leads
    <2>8. Parent(disk, cwd) = g
        <3>1. g \in {Root} \cup {ClusterOf(disk, x) : x \in Filled}
            BY <2>4, <2>7, LineageMembers
        <3>2. ClusterOf(disk, q) = cwd  BY <2>6 DEF Leads, ClusterAt, ClusterOf
        <3>3. Upward(own, disk, Filled)  BY <2>2 DEF Fits, Volume, Vol
        <3>. QED  BY <2>7, <3>1, <3>2, <3>3 DEF Upward
    <2>9. g \in DirHeads  BY <2>1, <2>2, <2>4, <2>7, LineIsSeen
    <2>10. cwd' = g  BY <2>3, <2>8
    <2>11. q \in Entries /\ IsDirectory(q) /\ ClusterAt(q) = cwd  BY <2>6 DEF Leads
    <2>12. q[1] \in ChainOf(cwd') /\ cwd' \in DirHeads  BY <2>7, <2>9, <2>10
    <2>. QED  BY <2>11, <2>12 DEF GoesUp
<1>. QED  BY <1>1, IInvInvariant, TextInvInvariant, PTL DEF Spec, BackIsUp

\* The directories that the word n leads to from those of ds, and the walk along the
\* path, as PromptNamesCwd has them (fat_open_dir).
Child(ds, n) == {ClusterAt(p) : p \in {q \in Entries :
                     /\ q[1] \in UNION {ChainOf(d) : d \in ds}
                     /\ IsDirectory(q) /\ disk[q[1]][q[2]].name = n}}
LeadsTo(to) ==
    to = [i \in 0 .. Len(path) |->
              IF i = 0 THEN {Root}
              ELSE IF path[i] = Slash THEN to[i - 1] ELSE Child(to[i - 1], path[i])]

\* A path has a walk (fat_open_dir).
LEMMA PathIsWalked ==
    ASSUME path \in Seq(Words)
    PROVE  \E to : LeadsTo(to)
<1>. DEFINE U == {Root} \cup {ClusterAt(p) : p \in Entries}
            S == Nat \X SUBSET U
            L == Len(path)
            Word(s, n) == IF path[n] = Slash THEN s ELSE Child(s, path[n])
            G == [s \in S |-> <<s[1] + 1, Word(s[2], s[1] + 1)>>]
            b == <<0, {Root}>>
<1>1. \A s, n : Child(s, n) \in SUBSET U  BY DEF Child
<1>2. L \in Nat  OBVIOUS
<1>. HIDE DEF U, L
<1>3. \A s \in SUBSET U : \A n : Word(s, n) \in SUBSET U  BY <1>1
<1>. HIDE DEF Word
<1>4. G \in [S -> S]
    <2>. SUFFICES ASSUME NEW s \in S PROVE <<s[1] + 1, Word(s[2], s[1] + 1)>> \in S
        OBVIOUS
    <2>1. s[1] + 1 \in Nat /\ s[2] \in SUBSET U  OBVIOUS
    <2>. QED  BY <1>3, <2>1
<1>5. b \in S  BY DEF U
<1>. HIDE DEF S, G, b
<1>6. PICK r \in [0 .. L -> S] : r[0] = b /\ \A n \in 1 .. L : r[n] = G[r[n - 1]]
    <2>1. PICK v \in S, g \in [S -> S], m \in Nat : v = b /\ g = G /\ m = L
        BY <1>2, <1>4, <1>5, Zenon
    <2>2. \E r : Iterates(r, S, v, g, m)  BY <2>1, Recursion, Zenon
    <2>. QED  BY <2>1, <2>2, Zenon DEF Iterates
<1>7. \A n \in 1 .. L : n - 1 \in 0 .. L /\ n \in 0 .. L /\ n # 0 /\ ~ (n <= n - 1) /\ (n - 1) + 1 = n
    BY <1>2
<1>8. \A n \in 1 .. L : r[n] = <<r[n - 1][1] + 1, Word(r[n - 1][2], r[n - 1][1] + 1)>>
    <2>1. \A n \in 1 .. L : r[n - 1] \in S  BY <1>7
    <2>. QED  BY <1>6, <2>1 DEF G
<1>9. r[0][1] = 0 /\ r[0][2] = {Root}  BY <1>6 DEF b
<1>10. \A n \in 0 .. L : r[n][1] = n
    <2>. DEFINE T == {n \in 0 .. L : r[n][1] # n}
    <2>. SUFFICES ASSUME T # {} PROVE FALSE  OBVIOUS
    <2>. HIDE DEF T
    <2>1. T \in SUBSET Nat  BY DEF T
    <2>2. PICK n \in T : \A k \in T : n <= k  BY <2>1, LeastElement
    <2>. USE DEF T
    <2>3. n \in 1 .. L  BY <1>9, <2>2
    <2>4. r[n - 1][1] = n - 1  BY <1>7, <2>2, <2>3
    <2>5. r[n][1] = r[n - 1][1] + 1  BY <1>8, <2>3
    <2>. QED  BY <1>7, <2>2, <2>3, <2>4, <2>5
<1>11. \A n \in 1 .. L : r[n][2] = Word(r[n - 1][2], n)
    <2>. SUFFICES ASSUME NEW n \in 1 .. L PROVE r[n][2] = Word(r[n - 1][2], n)  OBVIOUS
    <2>1. r[n - 1][1] + 1 = n  BY <1>7, <1>10
    <2>. QED  BY <1>8, <2>1
<1>. DEFINE to == [i \in 0 .. L |-> r[i][2]]
<1>12. \A i \in 0 .. L : to[i] = IF i = 0 THEN {Root} ELSE Word(to[i - 1], i)
    <2>. SUFFICES ASSUME NEW i \in 0 .. L PROVE to[i] = IF i = 0 THEN {Root} ELSE Word(to[i - 1], i)
        OBVIOUS
    <2>1. CASE i = 0  BY <1>9, <2>1
    <2>2. CASE i # 0
        <3>1. i \in 1 .. L  BY <2>2
        <3>2. to[i] = r[i][2] /\ to[i - 1] = r[i - 1][2]  BY <1>7, <3>1
        <3>. QED  BY <1>11, <2>2, <3>1, <3>2
    <2>. QED  BY <2>1, <2>2
<1>13. DOMAIN to = 0 .. L /\ to = [i \in 0 .. L |-> to[i]]  OBVIOUS
<1>. HIDE DEF to
<1>14. to = [i \in 0 .. L |-> IF i = 0 THEN {Root}
                              ELSE IF path[i] = Slash THEN to[i - 1] ELSE Child(to[i - 1], path[i])]
    <2>1. \A i \in 0 .. L : to[i] = IF i = 0 THEN {Root}
                              ELSE IF path[i] = Slash THEN to[i - 1] ELSE Child(to[i - 1], path[i])
        BY <1>12, Zenon DEF Word
    <2>. QED  BY <1>13, <2>1, Zenon
<1>15. LeadsTo(to)  BY <1>14, Zenon DEF LeadsTo, L
<1>. QED  BY <1>15, Zenon

\* The words of the path lead to each directory above the working one, and to itself
\* (fat_open_dir, fat_cd_back).
LEMMA PathLeads ==
    ASSUME IInv, Clean, NEW own, Fits(own), NEW A, NEW depth, NEW k,
           Trail = path, Line(own, fat, disk, Filled, cwd, Trail, A, depth, k), ~ Lost(path),
           NEW to, LeadsTo(to)
    PROVE  cwd \in to[Len(path)]
<1>1. /\ A \in SUBSET Clusters /\ depth \in [Clusters -> Nat] /\ cwd \in A /\ depth[Root] = 0
      /\ \A a \in A : depth[a] <= depth[cwd]
      /\ k \in {0, 1} /\ path \in Seq(Words)
      /\ Len(path) = k + 2 * depth[cwd] /\ (k = 1 => path[1] = Slash)
    BY DEF Line
<1>2. \A i \in 0 .. Len(path) : to[i] =
          IF i = 0 THEN {Root} ELSE IF path[i] = Slash THEN to[i - 1] ELSE Child(to[i - 1], path[i])
    BY DEF LeadsTo
<1>3. Slash \notin Names  BY VolumeAssumption, Zenon
<1>. DEFINE Spot(a) == k + 2 * depth[a]
<1>4. ASSUME NEW a \in A PROVE Spot(a) \in 0 .. Len(path)
    <2>1. PICK x, y \in Nat : x = depth[a] /\ y = depth[cwd]  BY <1>1
    <2>2. x <= y /\ Len(path) = k + 2 * y  BY <1>1, <2>1
    <2>3. k + 2 * x \in 0 .. Len(path)  BY ONLY <1>1, <2>2, x \in Nat, y \in Nat
    <2>. QED  BY <2>1, <2>3
<1>5. Root \in to[k]
    <2>1. 0 \in 0 .. Len(path) /\ k \in 0 .. Len(path)  BY <1>1
    <2>2. to[0] = {Root}  BY <1>2, <2>1
    <2>3. CASE k = 1
        <3>1. path[1] = Slash /\ 1 \in 0 .. Len(path) /\ 1 # 0 /\ 1 - 1 = 0
            BY <1>1, <2>1, <2>3
        <3>2. to[1] = to[0]  BY <1>2, <3>1
        <3>. QED  BY <2>2, <2>3, <3>2
    <2>. QED  BY <1>1, <2>2, <2>3
<1>6. ASSUME NEW a \in A, a # Root, NEW g \in A, g \in to[Spot(g)], depth[a] = depth[g] + 1,
             NEW q \in Filled, Leads(own, q, a, A, depth, k), own[q[1]] = g
      PROVE  a \in to[Spot(a)]
    <2>1. PICK i \in Nat : i = Spot(g)  BY <1>1
    <2>2. Spot(a) = i + 2 /\ Spot(a) - 1 = i + 1
        <3>1. PICK x, y \in Nat : x = depth[g] /\ y = depth[a]  BY <1>1
        <3>2. y = x + 1 /\ i = k + 2 * x  BY <1>6, <2>1, <3>1
        <3>3. k + 2 * y = i + 2 /\ (k + 2 * y) - 1 = i + 1
            BY ONLY <1>1, <3>2, x \in Nat, i \in Nat
        <3>. QED  BY <3>1, <3>3
    <2>3. PICK n \in Names : n = disk[q[1]][q[2]].name /\ path[i + 1] = n /\ path[i + 2] = Slash
        <3>1. /\ disk[q[1]][q[2]].name \in Names
              /\ path[k + 2 * depth[a] - 1] = disk[q[1]][q[2]].name /\ path[Spot(a)] = Slash
            BY <1>6 DEF Leads
        <3>2. k + 2 * depth[a] - 1 = Spot(a) - 1  BY <1>1
        <3>. HIDE DEF Spot
        <3>. QED  BY <2>2, <3>1, <3>2
    <2>4. i + 2 \in 0 .. Len(path) /\ i + 1 \in 0 .. Len(path) /\ i + 1 # 0 /\ i + 2 # 0
          /\ (i + 1) - 1 = i /\ (i + 2) - 1 = i + 1
        <3>1. PICK l \in Nat : l = Len(path)  BY <1>1
        <3>. HIDE DEF Spot
        <3>2. i + 2 \in 0 .. l  BY <1>4, <2>2, <3>1
        <3>3. /\ i + 1 \in 0 .. l /\ i + 1 # 0 /\ i + 2 # 0
              /\ (i + 1) - 1 = i /\ (i + 2) - 1 = i + 1
            BY ONLY <3>2, i \in Nat, l \in Nat
        <3>. QED  BY <3>1, <3>2, <3>3
    <2>5. to[i + 1] = Child(to[i], n)  BY <1>2, <1>3, <2>3, <2>4
    <2>6. to[i + 2] = to[i + 1]  BY <1>2, <2>3, <2>4
    <2>7. q[1] \in UNION {ChainOf(d) : d \in to[i]}
        <3>1. q[1] \in ChainOf(g)  BY <1>6 DEF Leads
        <3>. QED  BY <1>6, <2>1, <3>1, Zenon
    <2>8. q \in Entries /\ IsDirectory(q) /\ ClusterAt(q) = a  BY <1>6 DEF Leads
    <2>9. q \in {v \in Entries : /\ v[1] \in UNION {ChainOf(d) : d \in to[i]}
                                 /\ IsDirectory(v) /\ disk[v[1]][v[2]].name = n}
        BY <2>3, <2>7, <2>8
    <2>10. a \in Child(to[i], n)  BY <2>8, <2>9 DEF Child
    <2>. QED  BY <2>2, <2>5, <2>6, <2>10
<1>7. ASSUME NEW c \in A PROVE c \in to[Spot(c)]
    <2>. DEFINE T == {n \in Nat : \E a \in A : depth[a] = n /\ a \notin to[Spot(a)]}
    <2>. HIDE DEF Spot
    <2>. SUFFICES ASSUME c \notin to[Spot(c)] PROVE FALSE  OBVIOUS
    <2>1. T \in SUBSET Nat /\ depth[c] \in T  BY <1>1
    <2>2. PICK n \in T : \A l \in T : n <= l  BY <2>1, LeastElement
    <2>3. PICK a \in A : depth[a] = n /\ a \notin to[Spot(a)]  BY <2>2
    <2>4. a # Root
        <3>1. Spot(Root) = k  BY <1>1 DEF Spot
        <3>. QED  BY <1>5, <2>3, <3>1
    <2>5. PICK q \in Filled : Leads(own, q, a, A, depth, k)  BY <2>3, <2>4, LineIsSeen
    <2>6. PICK g \in A : own[q[1]] = g /\ depth[a] = depth[g] + 1  BY <2>5 DEF Leads
    <2>7. depth[g] \notin T
        <3>1. PICK m \in Nat : m = depth[g]  BY <1>1
        <3>2. n = m + 1 /\ n \in Nat  BY <2>1, <2>3, <2>6, <3>1
        <3>3. ~ (n <= m)  BY <3>2
        <3>. QED  BY <2>2, <3>1, <3>3
    <2>8. g \in to[Spot(g)]  BY <1>1, <2>7
    <2>. QED  BY <1>6, <2>3, <2>4, <2>5, <2>6, <2>8
<1>. QED  BY <1>1, <1>7

\* The path in the prompt leads from the root to the directory commands work on
\* (fat_open_dir, fat_cd_back).
LEMMA PromptIsRight == IInv /\ TextInv => PromptNamesCwd
<1>. SUFFICES ASSUME IInv, TextInv, Sound, events \cap {"deep", "overwritten", "here"} = {},
                     Letter \notin Range(path)
              PROVE  PromptNamesCwd
    BY Zenon DEF PromptNamesCwd
<1>0. Trail = path  BY DEF Trail
<1>1. Clean  BY DEF Clean, Sound
<1>2. PICK own : Fits(own)  BY <1>1 DEF TextInv
<1>3. PICK A, depth, k : Line(own, fat, disk, Filled, cwd, Trail, A, depth, k)
    BY <1>2 DEF Fits, Lineage
<1>4. path \in Seq(Words)  BY <1>0, <1>3 DEF Line
<1>5. ~ Lost(path)
    <2>. SUFFICES ASSUME path # <<>>, path[1] = Letter PROVE FALSE  BY DEF Lost
    <2>1. 1 \in DOMAIN path  BY <1>4
    <2>. QED  BY <2>1 DEF Range
<1>6. PICK t : LeadsTo(t)  BY <1>4, PathIsWalked
<1>7. PICK to : LeadsTo(to) /\ (cwd \in to[Len(path)] => PromptNamesCwd)
    BY <1>6, Zenon DEF PromptNamesCwd, LeadsTo, Child
<1>8. cwd \in to[Len(path)]  BY <1>0, <1>1, <1>2, <1>3, <1>5, <1>7, PathLeads
<1>. QED  BY <1>7, <1>8

\* The path in the prompt names the directory that the shell works in, until cd ..
\* has cut it to a letter (fat_open_dir, fat_cd_back).
THEOREM PromptIsCwd == Spec => []PromptNamesCwd
    BY IInvInvariant, TextInvInvariant, PromptIsRight, PTL

-----------------------------------------------------------------------------
(* No name comes twice.                                                    *)

\* What happened so far leaves names where mkdir and create look for them.
CleanNames == events \cap {"zero", "torn", "deep", "overwritten", "dotted", "renamed", "cut"} = {}

\* In the directories of some entries no name comes twice, and nothing comes behind a
\* slot that was never used.
Listed(own, t, d, dirs) ==
    /\ \A x \in Numbers : t[x] # 0 /\ own[x] \in HeadsOf(d, dirs) => Tidy(t, d, x)
    /\ \A p, q \in Named(d) :
          /\ t[p[1]] # 0 /\ t[q[1]] # 0 /\ own[p[1]] = own[q[1]]
          /\ own[p[1]] \in HeadsOf(d, dirs) /\ NameOf(d, p) = NameOf(d, q)
          => p = q

\* The name of the command, unless it is one that no entry keeps, is not in a sector,
\* and not in the working directory.
NotIn(x) == op.name \in Names => \A i \in Slots : disk[x][i].name # op.name
Absent(own) == \A x \in Numbers : fat[x] # 0 /\ own[x] = cwd => NotIn(x)

\* The search for the name has seen the clusters V before the present one.
Sought(V) ==
    /\ cwd \in V \cup {op.at}
    /\ \A x \in V : NotIn(x) /\ (fat[x] \in Clusters => fat[x] \in V \cup {op.at})

\* What create and mkdir know of the name and of the sector they are at.
Seeks(own) ==
    /\ op.pc = "check" => op.slot = 1 /\ \E V \in SUBSET Numbers : Sought(V)
    /\ op.pc \in {"place", "entry"} => Absent(own)
    /\ op.pc \in {"mark", "zero", "link"} /\ op.cmd # "save" =>
          Absent(own) /\ \A i \in Slots : disk[op.at][i].name # Nul
    /\ op.pc = "entry" => \A i \in Slots : i < op.slot => disk[op.at][i].name # Nul

NamesInv == CleanNames => \E own : Fits(own) /\ Listed(own, fat, disk, Filled) /\ Seeks(own)

\* The marks in the names of slots that hold no entry.
LEMMA Marks ==
    /\ Nul \notin Names \cup {Blank} /\ Deleted \notin Names \cup {Blank} /\ Deleted # Nul
    /\ Blank \notin Names
<1>1. Names \cap {Nul, Deleted, Blank, Dot, DotDot, Letter, Slash, "text"} = {}
    BY Wording
<1>. QED  BY <1>1 DEF Nul, Deleted, Blank

\* A sector that gets no names and no unused slots stays tidy (fat_delete_file).
LEMMA TidyStays ==
    ASSUME NEW x \in Numbers, NEW t, NEW u, NEW d, NEW e, Tidy(t, d, x),
           u[x] \in Clusters => t[x] \in Clusters,
           \A i \in Slots : e[x][i].name \in {d[x][i].name, Deleted}
    PROVE  Tidy(u, e, x)
<1>. SUFFICES ASSUME NEW i \in Slots, e[x][i].name = Nul
              PROVE  u[x] \notin Clusters /\ \A j \in Slots : i < j => <<x, j>> \notin Named(e)
    BY DEF Tidy
<1>1. d[x][i].name = Nul  BY Marks
<1>2. t[x] \notin Clusters /\ \A j \in Slots : i < j => <<x, j>> \notin Named(d)
    BY <1>1 DEF Tidy
<1>3. ASSUME NEW j \in Slots, <<x, j>> \in Named(e) PROVE <<x, j>> \in Named(d)
    <2>1. e[x][j].name \in Names \cup {Blank} /\ <<x, j>> \in Places  BY <1>3 DEF Named
    <2>2. d[x][j].name \in Names \cup {Blank}  BY <2>1, Marks
    <2>. QED  BY <2>1, <2>2 DEF Named
<1>. QED  BY <1>2, <1>3

\* Directories that get no names keep theirs apart (fat.c).
LEMMA ListedStays ==
    ASSUME NEW own, NEW t, NEW d, NEW dirs, Listed(own, t, d, dirs),
           NEW o, NEW u, NEW e, NEW ds, HeadsOf(e, ds) \subseteq HeadsOf(d, dirs),
           \A x \in Numbers : u[x] # 0 /\ o[x] \in HeadsOf(e, ds) =>
               /\ t[x] # 0 /\ own[x] = o[x] /\ u[x] = t[x]
               /\ \A i \in Slots : e[x][i].name \in {d[x][i].name, Deleted}
    PROVE  Listed(o, u, e, ds)
<1>1. ASSUME NEW x \in Numbers, u[x] # 0, o[x] \in HeadsOf(e, ds) PROVE Tidy(u, e, x)
    <2>1. t[x] # 0 /\ own[x] \in HeadsOf(d, dirs) /\ u[x] = t[x]
          /\ \A i \in Slots : e[x][i].name \in {d[x][i].name, Deleted}
        BY <1>1
    <2>2. Tidy(t, d, x)  BY <2>1 DEF Listed
    <2>. QED  BY <2>1, <2>2, TidyStays
<1>2. ASSUME NEW p \in Named(e), u[p[1]] # 0, o[p[1]] \in HeadsOf(e, ds)
      PROVE  p \in Named(d) /\ t[p[1]] # 0 /\ own[p[1]] = o[p[1]] /\ NameOf(e, p) = NameOf(d, p)
    <2>1. p \in Places /\ p[1] \in Numbers /\ p[2] \in Slots /\ e[p[1]][p[2]].name \in Names \cup {Blank}
        BY PlaceParts DEF Named
    <2>2. /\ t[p[1]] # 0 /\ own[p[1]] = o[p[1]]
          /\ e[p[1]][p[2]].name \in {d[p[1]][p[2]].name, Deleted}
        BY <1>2, <2>1
    <2>3. e[p[1]][p[2]].name = d[p[1]][p[2]].name  BY <2>1, <2>2, Marks
    <2>. QED  BY <2>1, <2>2, <2>3 DEF Named, NameOf
<1>3. ASSUME NEW p \in Named(e), NEW q \in Named(e), u[p[1]] # 0, u[q[1]] # 0, o[p[1]] = o[q[1]],
             o[p[1]] \in HeadsOf(e, ds), NameOf(e, p) = NameOf(e, q)
      PROVE  p = q
    <2>1. /\ p \in Named(d) /\ t[p[1]] # 0 /\ own[p[1]] = o[p[1]] /\ NameOf(e, p) = NameOf(d, p)
          /\ q \in Named(d) /\ t[q[1]] # 0 /\ own[q[1]] = o[q[1]] /\ NameOf(e, q) = NameOf(d, q)
          /\ own[p[1]] \in HeadsOf(d, dirs)
        BY <1>2, <1>3
    <2>. QED  BY <1>3, <2>1 DEF Listed
<1>. QED  BY <1>1, <1>3 DEF Listed

-----------------------------------------------------------------------------
\* The first of the slots that are looked at (fat.c:255).
LEMMA MinIsLeast ==
    ASSUME NEW S \in SUBSET Nat, S # {}
    PROVE  Min(S) \in S /\ \A y \in S : Min(S) <= y
    BY LeastElement DEF Min

\* The directory that commands work on is one with a filled first sector, and so is that
\* of the sector they are at (fat_cd_back, fat_open_dir).
LEMMA CwdIsListed ==
    ASSUME IInv, Clean, NEW own, Fits(own)
    PROVE  /\ cwd \in HeadsOf(disk, Filled) /\ cwd \in Folders(disk)
           /\ HeadsOf(disk, Filled) \subseteq Folders(disk) /\ Folders(disk) \subseteq Heads(disk)
<1>1. Whole(fat, disk) /\ Filled \subseteq DirEntries(disk)  BY FitsFacts
<1>2. cwd \in {Root} \cup {ClusterOf(disk, x) : x \in Filled}  BY LineageEnd DEF Fits
<1>3. Folders(disk) \subseteq Heads(disk)  BY <1>1, EntryHeads
<1>. QED  BY <1>1, <1>2, <1>3 DEF HeadsOf, Folders

\* Steps that write nothing leave the names where they are.
LEMMA QuietNames ==
    ASSUME op.pc # "dots", op'.pc # "dots", UNCHANGED <<fat, disk>>,
           NEW own, Listed(own, fat, disk, Filled)
    PROVE  Listed(own, fat', disk', Filled')
<1>1. Filled' = Filled  BY FilledStays
<1>. QED  BY <1>1

\* Directories are no more than before when no entry for one is made.
LEMMA FewerHeads ==
    ASSUME op.pc # "dots", op'.pc # "dots",
           \A p \in Named(disk') : disk'[p[1]][p[2]].attr = "dir" =>
               /\ p \in Named(disk) /\ disk[p[1]][p[2]].attr = "dir"
               /\ ClusterOf(disk', p) = ClusterOf(disk, p)
    PROVE  HeadsOf(disk', Filled') \subseteq HeadsOf(disk, Filled)
<1>1. Filled = DirEntries(disk) /\ Filled' = DirEntries(disk')  BY FilledStays
<1>2. \A p \in DirEntries(disk') : p \in DirEntries(disk) /\ ClusterOf(disk', p) = ClusterOf(disk, p)
    BY DEF DirEntries
<1>. QED  BY <1>1, <1>2 DEF HeadsOf

\* Commands that add no entry look for no name to add.
LEMMA SeeksNothing ==
    ASSUME NEW own, op'.pc \notin {"check", "place", "entry"},
           op'.pc \in {"mark", "zero", "link"} => op'.cmd = "save"
    PROVE  Seeks(own)'
    BY DEF Seeks

\* A command starts with the first sector of the working directory.
LEMMA CallNames ==
    ASSUME NEW own, Listed(own, fat, disk, Filled), Call
    PROVE  Listed(own, fat', disk', Filled') /\ Seeks(own)'
<1>1. op.pc = "idle" /\ UNCHANGED <<fat, disk>>
    BY DEF Call, Create, MkDir, CdTo, Remove, Cat, List, Move, Save, Start, CdRoot, CdBack
<1>2. \/ op'.pc \in {"idle", "open", "remove", "read", "list", "rename", "locate"}
      \/ op'.pc = "check" /\ op'.at = cwd /\ cwd' = cwd /\ op'.slot = 1
    <2>1. CASE \/ \E n \in Typed : Create(n) \/ MkDir(n) \/ Remove(n) \/ Cat(n)
               \/ \E n \in Typed \ {DotDot} : CdTo(n)
        <3>1. PICK n : Create(n) \/ MkDir(n) \/ CdTo(n) \/ Remove(n) \/ Cat(n)  BY <2>1
        <3>2. CASE Create(n) \/ MkDir(n)
            BY ONLY <3>2 DEF Create, MkDir, Start, Command, Idle
        <3>3. CASE CdTo(n) \/ Remove(n) \/ Cat(n)
            BY ONLY <3>3 DEF CdTo, Remove, Cat, Start, Command, Idle
        <3>. QED  BY ONLY <3>1, <3>2, <3>3
    <2>2. CASE \E n, w \in Typed \cup {""} : Move(n, w)
        <3>1. PICK n, w : Move(n, w)  BY <2>2
        <3>. QED  BY <3>1 DEF Move, Start, Command, Idle
    <2>3. CASE \E n \in Typed, v \in Versions, len \in 1 .. MaxBlocks : Save(n, v, len)
        <3>1. PICK n, v, len : Save(n, v, len)  BY <2>3
        <3>. QED  BY <3>1 DEF Save, Start, Command, Idle
    <2>4. CASE List \/ CdRoot \/ CdBack
        BY <1>1, <2>4 DEF List, CdRoot, CdBack, Start, Command, Idle
    <2>. QED  BY <2>1, <2>2, <2>3, <2>4 DEF Call
<1>3. Listed(own, fat', disk', Filled')  BY <1>1, <1>2, QuietNames
<1>4. CASE op'.pc = "check" /\ op'.at = cwd /\ cwd' = cwd /\ op'.slot = 1
    <2>1. {} \in SUBSET Numbers /\ Sought({})'  BY <1>4 DEF Sought
    <2>2. (\E V \in SUBSET Numbers : Sought(V))'  BY <2>1 DEF Numbers
    <2>. QED  BY <1>3, <1>4, <2>2 DEF Seeks
<1>. QED  BY <1>2, <1>3, <1>4, SeeksNothing

\* Walks that look for no name to add (fat_open_dir, fat_read_file, fat_list_dir).
LEMMA LookNames ==
    ASSUME IInv, NEW own, Listed(own, fat, disk, Filled), Open \/ Read \/ Chain \/ Dir
    PROVE  Listed(own, fat', disk', Filled') /\ Seeks(own)'
<1>1. OpShape  BY DEF IInv, TypeInv, OpType
<1>2. UNCHANGED <<fat, disk>> /\ op.pc \in {"open", "read", "chain", "list"}
    BY DEF Open, Read, Chain, Dir
<1>3. ASSUME NEW end, WalkOn(end) PROVE op' = end \/ op'.pc = op.pc
    BY <1>1, <1>3 DEF WalkOn, OpShape
<1>4. Idle.pc = "idle"  BY DEF Idle
<1>5. op'.pc \in {"idle", "open", "read", "chain", "list"}
    <2>1. CASE Open  BY <1>2, <1>3, <1>4, <2>1 DEF Open
    <2>2. CASE Read  BY <1>1, <1>2, <1>3, <1>4, <2>2 DEF Read, OpShape
    <2>3. CASE Chain  BY <1>1, <1>4, <2>3 DEF Chain, OpShape
    <2>4. CASE Dir  BY <1>2, <1>3, <1>4, <2>4 DEF Dir
    <2>. QED  BY <2>1, <2>2, <2>3, <2>4
<1>. QED  BY <1>2, <1>5, QuietNames, SeeksNothing

\* A search that has seen the clusters of the working directory up to the last one has
\* seen them all (fat_write_file).
LEMMA SoughtAll ==
    ASSUME IInv, Clean, NEW own, Fits(own), op.pc # "idle", NEW V \in SUBSET Numbers, Sought(V),
           NotIn(op.at), fat[op.at] \notin Clusters
    PROVE  Absent(own)
<1>1. /\ Whole(fat, disk) /\ fat \in [Numbers -> FatEntry] /\ Clusters \subseteq Numbers
      /\ op.at \in Numbers /\ own[op.at] = cwd
    BY FitsFacts, Numbering
<1>2. /\ Attached(own, fat, Folders(disk)) /\ Divides(own, fat, disk)
      /\ cwd \in Folders(disk) /\ Folders(disk) \subseteq Heads(disk)
      /\ Heads(disk) \subseteq Numbers
    BY <1>1, CwdIsListed, EntryHeads DEF Fits, Volume, Vol
<1>. DEFINE S == V \cup {op.at} \cup {x \in Numbers : own[x] # cwd}
<1>3. S \in SUBSET Numbers  BY <1>1
<1>4. Folders(disk) \subseteq S
    <2>. SUFFICES ASSUME NEW h \in Folders(disk) PROVE h \in S  OBVIOUS
    <2>1. own[h] = h /\ h \in Numbers  BY <1>2 DEF Divides
    <2>. QED  BY <2>1 DEF Sought
<1>5. ASSUME NEW y \in S \cap DOMAIN fat, fat[y] \in Clusters PROVE fat[y] \in S
    <2>1. y \in Numbers /\ fat[y] \in Numbers /\ own[fat[y]] = own[y]
        BY <1>1, <1>2, <1>5 DEF Divides
    <2>2. CASE y \in V  BY <1>5, <2>2 DEF Sought
    <2>3. CASE own[y] # cwd  BY <2>1, <2>3
    <2>. QED  BY <1>5, <2>2, <2>3
<1>6. ASSUME NEW x \in Numbers, fat[x] # 0, own[x] = cwd PROVE NotIn(x)
    <2>1. x \in S
        <3>. HIDE DEF S
        <3>. QED  BY <1>2, <1>3, <1>4, <1>5, <1>6 DEF Attached
    <2>2. x \in V \cup {op.at}  BY <1>6, <2>1
    <2>. QED  BY <2>2 DEF Sought
<1>. QED  BY <1>6 DEF Absent

\* The slots before a slot (fat.c:248).
LEMMA SlotsBefore ==
    \A i \in Slots : \A j \in 1 .. i : j \in Slots /\ j \in Nat /\ (j # i => j < i)
<1>1. SlotsPerSector \in Nat  BY VolumeAssumption, Zenon
<1>. QED  BY <1>1 DEF Slots

\* create and mkdir have looked through the whole directory when they add the name, also
\* where they stop at a slot that was never used (fat.c:255, 383).
LEMMA CheckNames ==
    ASSUME IInv, Clean, NEW own, Fits(own), Listed(own, fat, disk, Filled), Seeks(own), Check
    PROVE  Listed(own, fat', disk', Filled') /\ Seeks(own)'
<1>1. op.pc = "check" /\ op.pc # "idle" /\ UNCHANGED <<fat, disk, cwd>>  BY DEF Check
<1>2. /\ OpShape /\ CacheInv /\ TableInv
      /\ op.at \in Numbers /\ own[op.at] = cwd /\ fat[op.at] # 0
    BY <1>1, FitsFacts DEF OpType
<1>3. Tidy(fat, disk, op.at)  BY <1>2, CwdIsListed DEF Listed
<1>4. op.slot = 1  BY <1>1 DEF Seeks
<1>5. PICK V \in SUBSET Numbers : Sought(V)  BY <1>1 DEF Seeks
<1>6. ASSUME Used \cap Hits = {} PROVE NotIn(op.at)
    <2>. SUFFICES ASSUME op.name \in Names, NEW i \in Slots, disk[op.at][i].name = op.name PROVE FALSE
        BY DEF NotIn
    <2>1. i \in Hits
        <3>1. op.name \notin LongNames  BY VolumeAssumption, Zenon
        <3>2. Matches(i, op.name)  BY <3>1 DEF Matches, At
        <3>. QED  BY <1>4, <3>2 DEF Hits, Slots
    <2>2. PICK j \in 1 .. i : disk[op.at][j].name = Nul  BY <1>6, <2>1 DEF Used, At
    <2>3. j # i  BY <1>2, <2>2, Marks
    <2>4. j \in Slots /\ j < i  BY <2>2, <2>3, SlotsBefore
    <2>5. <<op.at, i>> \in Named(disk)  BY <1>2 DEF Named, Places, Numbers
    <2>. QED  BY <1>3, <2>2, <2>4, <2>5 DEF Tidy
<1>7. ASSUME Used # Slots PROVE fat[op.at] \notin Clusters
    <2>1. PICK i \in Slots : i \notin Used  BY <1>7 DEF Used
    <2>2. PICK j \in 1 .. i : disk[op.at][j].name = Nul  BY <2>1 DEF Used, At
    <2>3. j \in Slots  BY <2>2, SlotsBefore
    <2>. QED  BY <1>3, <2>2, <2>3 DEF Tidy
<1>. DEFINE place == [op EXCEPT !.pc = "place", !.at = cwd]
<1>8. /\ place.pc = "place" /\ place.name = op.name /\ Idle.pc = "idle"
      /\ \A c : [op EXCEPT !.at = c].pc = "check" /\ [op EXCEPT !.at = c].at = c
                /\ [op EXCEPT !.at = c].slot = 1 /\ [op EXCEPT !.at = c].name = op.name
    BY <1>1, <1>2, <1>4 DEF OpShape, Idle
<1>9. \/ op' = Idle
      \/ Used \cap Hits = {} /\ op' = place /\ fat[op.at] \notin Clusters
      \/ Used \cap Hits = {} /\ op' = [op EXCEPT !.at = fat[op.at]] /\ fat[op.at] # Eoc
    <2>1. Following(op.at) = fat[op.at]  BY <1>2, FollowingType
    <2>2. Eoc \notin Clusters  BY Numbering
    <2>. HIDE DEF place
    <2>3. \/ op' = Idle
          \/ Used \cap Hits = {} /\ Used # Slots /\ op' = place
          \/ Used \cap Hits = {} /\ WalkOn(place)
        BY DEF Check, SearchEnds, place
    <2>. QED  BY <1>7, <2>1, <2>2, <2>3 DEF WalkOn
<1>. HIDE DEF place
<1>10. CASE op' = Idle  BY <1>1, <1>8, <1>10, QuietNames, SeeksNothing
<1>11. CASE Used \cap Hits = {} /\ op' = place /\ fat[op.at] \notin Clusters
    <2>1. Absent(own)  BY <1>1, <1>5, <1>6, <1>11, SoughtAll
    <2>2. op'.pc = "place" /\ op'.name = op.name  BY <1>8, <1>11
    <2>3. Absent(own)'  BY <1>1, <2>1, <2>2 DEF Absent, NotIn, Numbers, Slots
    <2>. QED  BY <1>1, <2>2, <2>3, QuietNames DEF Seeks
<1>12. CASE Used \cap Hits = {} /\ op' = [op EXCEPT !.at = fat[op.at]] /\ fat[op.at] # Eoc
    <2>1. op'.pc = "check" /\ op'.at = fat[op.at] /\ op'.slot = 1 /\ op'.name = op.name
        BY <1>8, <1>12
    <2>2. PICK W : W = V \cup {op.at}  OBVIOUS
    <2>3. W \in SUBSET Numbers  BY <1>2, <2>2
    <2>4. NotIn(op.at)  BY <1>6, <1>12
    <2>5. /\ cwd \in W
          /\ \A x \in W : NotIn(x) /\ (fat[x] \in Clusters => fat[x] \in W \cup {fat[op.at]})
        BY <1>5, <2>2, <2>4 DEF Sought
    <2>6. Sought(W)'  BY <1>1, <2>1, <2>5 DEF Sought, NotIn, Clusters, Slots
    <2>7. (\E X \in SUBSET Numbers : Sought(X))'  BY <2>3, <2>6 DEF Numbers
    <2>. QED  BY <1>1, <2>1, <2>7, QuietNames DEF Seeks
<1>. QED  BY <1>9, <1>10, <1>11, <1>12

\* Steps that write no sector of a directory, and give directories no clusters.
LEMMA TableNames ==
    ASSUME IInv, Clean, NEW own, Fits(own), Listed(own, fat, disk, Filled),
           op.pc # "dots", op'.pc # "dots", UNCHANGED <<disk, cwd>>, NEW o, LeavesDirs(own, o)
    PROVE  /\ Listed(o, fat', disk', Filled')
           /\ op'.name = op.name => (Absent(own) => Absent(o)')
<1>1. Filled' = Filled  BY FilledStays
<1>2. HeadsOf(disk, Filled) \subseteq Folders(disk) /\ cwd \in Folders(disk)
    BY CwdIsListed
<1>3. ASSUME NEW x \in Numbers, fat'[x] # 0, o[x] \in HeadsOf(disk, Filled)
      PROVE  fat[x] # 0 /\ own[x] = o[x] /\ fat'[x] = fat[x]
    BY <1>2, <1>3 DEF LeavesDirs
<1>4. Listed(o, fat', disk, Filled)
    <2>1. \A x \in Numbers : fat'[x] # 0 /\ o[x] \in HeadsOf(disk, Filled) =>
              /\ fat[x] # 0 /\ own[x] = o[x] /\ fat'[x] = fat[x]
              /\ \A i \in Slots : disk[x][i].name \in {disk[x][i].name, Deleted}
        BY <1>3
    <2>. QED  BY ONLY <2>1, Listed(own, fat, disk, Filled), ListedStays
<1>5. ASSUME op'.name = op.name, Absent(own) PROVE Absent(o)'
    <2>. SUFFICES ASSUME op.name \in Names PROVE Absent(o)'  BY <1>5 DEF Absent, NotIn
    <2>0. op.name \in Names  OBVIOUS
    <2>1. \A x \in Numbers : fat'[x] # 0 /\ o[x] = cwd => \A i \in Slots : disk[x][i].name # op.name
        BY <1>2, <1>5, <2>0 DEF LeavesDirs, Absent, NotIn
    <2>2. \A x \in Numbers : fat'[x] # 0 /\ o[x] = cwd' => \A i \in Slots : disk'[x][i].name # op'.name
        BY <1>5, <2>1
    <2>. QED  BY <2>2 DEF Absent, NotIn, Numbers, Slots
<1>. QED  BY <1>1, <1>4, <1>5

\* The slot for a new entry is the first one that is free (fat_write_file).
LEMMA PlaceNames ==
    ASSUME IInv, Clean, NEW own, Fits(own), Listed(own, fat, disk, Filled), Seeks(own), Place,
           NEW o, LeavesDirs(own, o)
    PROVE  Listed(o, fat', disk', Filled') /\ Seeks(o)'
<1>1. UNCHANGED <<disk, cwd>> /\ op.pc = "place" /\ op.pc # "idle" /\ op.pc # "dots"
    BY DEF Place
<1>2. OpShape /\ Absent(own)  BY <1>1, FitsFacts DEF OpType, Seeks
<1>. DEFINE entry(c) == [op EXCEPT !.pc = "entry", !.slot = Min(OpenSlots), !.file = c]
            mark == [op EXCEPT !.pc = "mark", !.file = op.at]
<1>3. \/ OpenSlots # {} /\ \E c : op' = entry(c)
      \/ OpenSlots = {} /\ WalkOn(mark)
    BY <1>1 DEF Place
<1>4. ASSUME NEW c, OpenSlots # {}, op' = entry(c)
      PROVE  /\ op'.pc = "entry" /\ op'.at = op.at /\ op'.name = op.name
             /\ \A i \in Slots : i < op'.slot => disk[op'.at][i].name # Nul
    <2>1. OpenSlots \subseteq Slots /\ Slots \subseteq Nat  BY Numbering DEF OpenSlots
    <2>2. PICK m : m = Min(OpenSlots)  OBVIOUS
    <2>3. m \in Nat /\ \A i \in OpenSlots : m <= i  BY <1>4, <2>1, <2>2, MinIsLeast
    <2>4. op'.pc = "entry" /\ op'.at = op.at /\ op'.name = op.name /\ op'.slot = m
        BY <1>2, <1>4, <2>2 DEF OpShape
    <2>5. ASSUME NEW i \in Slots, i < m PROVE disk[op.at][i].name # Nul
        <3>1. i \in Nat /\ i \notin OpenSlots  BY <2>1, <2>3, <2>5
        <3>. QED  BY <3>1 DEF At, OpenSlots
    <2>. QED  BY <2>4, <2>5
<1>5. mark.pc = "mark" /\ mark.name = op.name /\ mark.at = op.at
      /\ \A c : [op EXCEPT !.at = c].pc = "place" /\ [op EXCEPT !.at = c].name = op.name
    BY <1>1, <1>2 DEF OpShape
<1>6. OpenSlots = {} => \A i \in Slots : disk[op.at][i].name # Nul  BY DEF At, OpenSlots
<1>. HIDE DEF entry, mark
<1>7. \/ /\ op'.pc = "entry" /\ op'.name = op.name
         /\ \A i \in Slots : i < op'.slot => disk[op'.at][i].name # Nul
      \/ op'.pc = "place" /\ op'.name = op.name
      \/ /\ op'.pc = "mark" /\ op'.name = op.name
         /\ \A i \in Slots : disk[op'.at][i].name # Nul
    <2>1. CASE OpenSlots # {} /\ \E c : op' = entry(c)  BY <1>4, <2>1
    <2>2. CASE OpenSlots = {} /\ WalkOn(mark)
        <3>1. op' = mark \/ \E c : op' = [op EXCEPT !.at = c]  BY <2>2 DEF WalkOn
        <3>. QED  BY <1>5, <1>6, <2>2, <3>1
    <2>. QED  BY <1>3, <2>1, <2>2
<1>8. Listed(o, fat', disk', Filled') /\ Absent(o)'  BY <1>1, <1>2, <1>7, TableNames
<1>. QED  BY <1>1, <1>7, <1>8 DEF Seeks, Slots, Nul

\* A directory is extended where it has no slot that was never used (fat_extend_chain).
LEMMA MarkNames ==
    ASSUME IInv, Clean, NEW own, Fits(own), Listed(own, fat, disk, Filled), Seeks(own), Mark,
           NEW o, LeavesDirs(own, o)
    PROVE  Listed(o, fat', disk', Filled') /\ Seeks(o)'
<1>1. UNCHANGED <<disk, cwd>> /\ op.pc = "mark" /\ op.pc # "idle" /\ op.pc # "dots"
    BY DEF Mark
<1>2. OpShape /\ Idle.pc = "idle"  BY <1>1, FitsFacts DEF OpType, Idle
<1>3. \/ op' = Idle \/ \E c : op' = [op EXCEPT !.pc = "zero", !.new = c]  BY DEF Mark
<1>4. \/ op'.pc = "idle"
      \/ op'.pc = "zero" /\ op'.name = op.name /\ op'.at = op.at /\ op'.cmd = op.cmd
    BY <1>2, <1>3 DEF OpShape
<1>5. Listed(o, fat', disk', Filled')  BY <1>1, <1>4, TableNames
<1>6. CASE op.cmd # "save" /\ op'.pc = "zero"
    <2>1. op'.name = op.name /\ op'.at = op.at /\ op'.cmd = op.cmd  BY <1>4, <1>6
    <2>2. Absent(own) /\ \A i \in Slots : disk[op.at][i].name # Nul
        BY <1>1, <1>6 DEF Seeks
    <2>3. Absent(o)'  BY <1>1, <1>4, <2>1, <2>2, TableNames
    <2>. QED  BY <1>1, <1>5, <1>6, <2>1, <2>2, <2>3 DEF Seeks, Slots, Nul
<1>. QED  BY <1>4, <1>5, <1>6, SeeksNothing

\* A sector that is written whole, in a cluster of no directory, has no names in it.
LEMMA SectorNames ==
    ASSUME NEW own, NEW t, NEW d, NEW e, NEW dirs, NEW ds, NEW c \in Numbers, NEW s, Replaced(d, e, c, s),
           HeadsOf(e, ds) \subseteq HeadsOf(d, dirs), own[c] \notin HeadsOf(d, dirs),
           Listed(own, t, d, dirs)
    PROVE  Listed(own, t, e, ds)
<1>1. \A x \in Numbers : x # c => e[x] = d[x]  BY DEF Replaced
<1>2. \A x \in Numbers : t[x] # 0 /\ own[x] \in HeadsOf(e, ds) =>
          /\ t[x] # 0 /\ own[x] = own[x] /\ t[x] = t[x]
          /\ \A i \in Slots : e[x][i].name \in {d[x][i].name, Deleted}
    <2>1. ASSUME NEW x \in Numbers, own[x] \in HeadsOf(e, ds) PROVE e[x] = d[x]
        BY <1>1, <2>1
    <2>. QED  BY <2>1
<1>. QED
    BY ONLY <1>2, HeadsOf(e, ds) \subseteq HeadsOf(d, dirs), Listed(own, t, d, dirs), ListedStays

\* fat_extend_chain fills a cluster that belongs to no directory yet.
LEMMA ZeroNames ==
    ASSUME IInv, Clean, NEW own, Fits(own), Listed(own, fat, disk, Filled), Seeks(own), Zero
    PROVE  Listed(own, fat', disk', Filled') /\ Seeks(own)'
<1>1. UNCHANGED <<fat, cwd>> /\ op.pc = "zero" /\ op.pc # "dots" /\ op' = [op EXCEPT !.pc = "link"]
    BY DEF Zero
<1>2. PICK c, s : c = op.new /\ s = EmptySector /\ disk' = [disk EXCEPT ![c] = s]
    BY DEF Zero
<1>3. /\ OpShape /\ c \in Numbers /\ c \in Clusters /\ AreSectors(disk)
      /\ op.at \in Numbers /\ own[op.at] = cwd /\ cwd \in Heads(disk)
    BY <1>1, <1>2, FitsFacts, Numbering DEF OpType
<1>4. op'.pc = "link" /\ op'.at = op.at /\ op'.cmd = op.cmd /\ op'.name = op.name
    BY <1>1, <1>3 DEF OpShape
<1>5. own[c] = c /\ c \notin Heads(disk)
    <2>1. Fresh(c)  BY <1>1, <1>2, FitsFacts DEF OpInv
    <2>2. Alone(own, fat, saved, c)  BY <1>1, <1>2 DEF Fits, NewInv, New
    <2>. QED  BY <1>3, <2>1, <2>2 DEF Alone, Fresh
<1>6. PICK d, e : d = disk /\ e = disk'  OBVIOUS
<1>7. /\ Replaced(d, e, c, s)
      /\ \A i \in Slots : s[i].name \notin Names \cup {Blank}
    BY <1>2, <1>3, <1>6, NewSectors DEF Replaced, AreSectors, Numbers
<1>8. \A p \in Named(e) : p \in Named(d) /\ e[p[1]][p[2]] = d[p[1]][p[2]]
                          /\ ClusterOf(e, p) = ClusterOf(d, p)
    <2>1. OthersStay(d, e, c)  BY ONLY <1>3, <1>7, SectorEntries
    <2>. QED  BY <2>1 DEF OthersStay
<1>9. HeadsOf(disk', Filled') \subseteq HeadsOf(disk, Filled)
    BY <1>1, <1>4, <1>6, <1>8, FewerHeads
<1>10. own[c] \notin HeadsOf(disk, Filled) /\ c # op.at  BY <1>3, <1>5, CwdIsListed
<1>11. Listed(own, fat', disk', Filled')
    <2>1. Listed(own, fat, disk', Filled')
        BY <1>3, <1>6, <1>7, <1>9, <1>10, SectorNames
    <2>. QED  BY <1>1, <2>1
<1>12. ASSUME op.cmd # "save" PROVE Absent(own)' /\ \A i \in Slots : disk'[op'.at][i].name # Nul
    <2>1. Absent(own) /\ \A i \in Slots : disk[op.at][i].name # Nul
        BY <1>1, <1>12 DEF Seeks
    <2>2. \A x \in Numbers : x # c => disk'[x] = disk[x]  BY <1>6, <1>7 DEF Replaced
    <2>3. \A x \in Numbers : own[x] = cwd => x # c  BY <1>3, <1>5
    <2>4. ASSUME op.name \in Names
          PROVE  \A x \in Numbers : fat'[x] # 0 /\ own[x] = cwd' =>
                     \A i \in Slots : disk'[x][i].name # op'.name
        BY <1>1, <1>4, <2>1, <2>2, <2>3, <2>4 DEF Absent, NotIn
    <2>5. Absent(own)'  BY <1>4, <2>4 DEF Absent, NotIn, Numbers, Slots
    <2>. QED  BY <1>3, <1>4, <1>10, <2>1, <2>2, <2>5
<1>. QED  BY <1>4, <1>11, <1>12 DEF Seeks, Slots, Nul

\* fat_write_data writes into the chain of a file.
LEMMA DataNames ==
    ASSUME IInv, Clean, NEW own, Fits(own), Listed(own, fat, disk, Filled), Data
    PROVE  Listed(own, fat', disk', Filled') /\ Seeks(own)'
<1>1. UNCHANGED <<fat, cwd>> /\ op.pc = "data" /\ op.pc # "dots"  BY DEF Data
<1>2. PICK c, b, s, p : /\ c = op.file /\ b = op.off + 1 /\ s = TextSector(op.text.v, b, b = op.text.len)
                        /\ p = <<op.at, op.slot>>
    OBVIOUS
<1>3. /\ OpShape /\ c \in Numbers /\ Whole(fat, disk) /\ AreSectors(disk)
      /\ \A h \in Heads(disk) : own[h] = h
      /\ Walks(own) /\ Saving(own)
    BY <1>1, <1>2, FitsFacts DEF OpType, Fits
<1>4. op.cmd = "save"  BY <1>1, <1>3 DEF Walks
<1>5. Part(own, fat, disk, p, b, c, op.text, op.off)
    BY <1>1, <1>2, <1>3, <1>4 DEF Saving
<1>6. op'.pc = "idle" \/ (op'.pc = "mark" /\ op'.cmd = "save")
    <2>1. op' = Idle \/ op' = [op EXCEPT !.pc = "mark", !.off = b]  BY <1>2 DEF Data
    <2>2. Idle.pc = "idle"  BY DEF Idle
    <2>. QED  BY <1>3, <1>4, <2>1, <2>2 DEF OpShape
<1>7. PICK t, d, e, text, off : t = fat /\ d = disk /\ e = disk' /\ text = op.text /\ off = op.off
    OBVIOUS
<1>8. /\ Replaced(d, e, c, s)
      /\ \A i \in Slots : s[i].name \notin Names \cup {Blank}
    <2>1. \A i \in Slots : s[i].name \notin Names \cup {Blank}  BY <1>2, NewSectors
    <2>2. disk' = [disk EXCEPT ![c] = s]  BY <1>2 DEF Data
    <2>. QED  BY <1>3, <1>7, <2>1, <2>2 DEF Replaced, AreSectors, Numbers
<1>9. \A q \in Named(e) : q \in Named(d) /\ e[q[1]][q[2]] = d[q[1]][q[2]]
                          /\ ClusterOf(e, q) = ClusterOf(d, q)
    <2>1. OthersStay(d, e, c)  BY ONLY <1>3, <1>8, SectorEntries
    <2>. QED  BY <2>1 DEF OthersStay
<1>10. HeadsOf(disk', Filled') \subseteq HeadsOf(disk, Filled)
    BY <1>1, <1>6, <1>7, <1>9, FewerHeads
<1>11. own[c] \notin HeadsOf(disk, Filled)
    <2>1. Part(own, t, d, p, b, c, text, off) /\ Whole(t, d) /\ \A h \in Heads(d) : own[h] = h
        BY <1>3, <1>5, <1>7
    <2>2. /\ own[c] = ClusterOf(d, p) /\ p \in FileEntries(d)
          /\ \A q \in Named(d) : q # p => own[c] # ClusterOf(d, q)
        BY ONLY <2>1, PartOwner
    <2>3. own[c] # Root /\ \A q \in DirEntries(d) : q # p /\ q \in Named(d)
        BY <2>1, <2>2, EntryHeads
    <2>4. own[c] \notin Folders(d)  BY <2>2, <2>3 DEF Folders
    <2>. QED  BY <1>7, <2>4, CwdIsListed
<1>12. Listed(own, fat', disk', Filled')
    <2>1. Listed(own, fat, disk', Filled')
        BY <1>3, <1>7, <1>8, <1>10, <1>11, SectorNames
    <2>. QED  BY <1>1, <2>1
<1>. QED  BY <1>6, <1>12, SeeksNothing

\* A directory gets a cluster without names behind one without unused slots
\* (fat_extend_chain).
LEMMA LinkNames ==
    ASSUME IInv, Clean, NEW own, Fits(own), Listed(own, fat, disk, Filled), Seeks(own), Link,
           NEW o, Joins(own, o)
    PROVE  Listed(o, fat', disk', Filled') /\ Seeks(o)'
<1>1. UNCHANGED <<disk, cwd>> /\ op.pc = "link" /\ op.pc # "idle" /\ op.pc # "dots"
    BY DEF Link
<1>2. PICK c, f : c = op.new /\ f = op.file  OBVIOUS
<1>3. /\ OpShape /\ f \in Numbers
      /\ \/ op.cmd = "save" /\ op' = [op EXCEPT !.pc = "data", !.file = c]
         \/ op.cmd # "save" /\ op' = [op EXCEPT !.pc = "place", !.at = c]
    BY <1>1, <1>2, FitsFacts DEF OpType, Link
<1>4. \/ op.cmd = "save" /\ op'.pc = "data"
      \/ op.cmd # "save" /\ op'.pc = "place" /\ op'.name = op.name
    BY <1>3 DEF OpShape
<1>5. /\ c \in Clusters /\ disk[c] = EmptySector /\ o[c] = own[f] /\ fat'[c] = Eoc
      /\ \A x \in Numbers : fat'[x] # 0 /\ o[x] \in Folders(disk) /\ x # c =>
            fat[x] # 0 /\ own[x] = o[x] /\ (x # f => fat'[x] = fat[x])
    BY <1>2 DEF Joins
<1>6. Filled' = Filled  BY <1>1, <1>4, FilledStays
<1>7. /\ HeadsOf(disk, Filled) \subseteq Folders(disk) /\ cwd \in Folders(disk)
      /\ Whole(fat, disk)
    BY CwdIsListed, FitsFacts
<1>8. PICK v, H : v = fat' /\ H = HeadsOf(disk, Filled)  OBVIOUS
<1>9. CASE op.cmd = "save"
    <2>1. own[f] \notin Folders(disk)
        <3>1. PICK p : p = <<op.at, op.slot>>  OBVIOUS
        <3>2. Part(own, fat, disk, p, op.off, f, op.text, op.off)
            BY <1>1, <1>2, <1>9, <3>1 DEF Fits, Saving
        <3>3. own[f] = ClusterOf(disk, p) /\ p \in FileEntries(disk)
            BY <1>1, <1>2, <1>9, <3>1, <3>2, LinkOwner DEF Part
        <3>4. p \in Named(disk) /\ p \notin DirEntries(disk)  BY <1>7, <3>3, EntryHeads
        <3>5. \A q \in DirEntries(disk) : q \in Named(disk) /\ ClusterOf(disk, q) # ClusterOf(disk, p)
            BY <1>7, <3>4, EntryHeads
        <3>. QED  BY <1>7, <3>3, <3>4, <3>5, EntryHeads DEF Folders
    <2>2. ASSUME NEW x \in Numbers, v[x] # 0, o[x] \in H
          PROVE  fat[x] # 0 /\ own[x] = o[x] /\ v[x] = fat[x]
        <3>1. o[x] \in Folders(disk)  BY <1>7, <1>8, <2>2
        <3>2. x # c  BY <1>5, <2>1, <3>1
        <3>3. own[x] = o[x] /\ fat[x] # 0 /\ (x # f => v[x] = fat[x])
            BY <1>5, <1>8, <2>2, <3>1, <3>2
        <3>. QED  BY <2>1, <3>1, <3>3
    <2>3. Listed(o, v, disk, Filled)
        <3>1. \A x \in Numbers : v[x] # 0 /\ o[x] \in HeadsOf(disk, Filled) =>
                  /\ fat[x] # 0 /\ own[x] = o[x] /\ v[x] = fat[x]
                  /\ \A i \in Slots : disk[x][i].name \in {disk[x][i].name, Deleted}
            BY <1>8, <2>2
        <3>. QED  BY ONLY <3>1, Listed(own, fat, disk, Filled), ListedStays
    <2>4. Seeks(o)'  BY <1>4, <1>9, SeeksNothing
    <2>. QED  BY <1>1, <1>6, <1>8, <2>3, <2>4
<1>10. CASE op.cmd # "save"
    <2>1. Absent(own) /\ (\A i \in Slots : disk[f][i].name # Nul) /\ own[f] = cwd
        <3>1. f = op.at  BY <1>1, <1>2, <1>10 DEF Fits, Walks
        <3>. QED  BY <1>1, <1>2, <1>10, <3>1, FitsFacts DEF Seeks
    <2>2. \A i \in Slots : disk[c][i].name = Nul  BY <1>5 DEF EmptySector, Slot
    <2>3. Nul \notin Names \cup {Blank}  BY Marks
    <2>4. ASSUME NEW x \in Numbers, v[x] # 0, o[x] \in H PROVE Tidy(v, disk, x)
        <3>1. CASE x = c
            <4>1. v[x] \notin Clusters  BY <1>5, <1>8, <3>1, Numbering DEF Clusters, Eoc
            <4>2. \A j \in Slots : <<x, j>> \notin Named(disk)
                BY <2>2, <2>3, <3>1 DEF Named
            <4>. QED  BY <4>1, <4>2 DEF Tidy
        <3>2. CASE x = f  BY <2>1, <3>2 DEF Tidy
        <3>3. CASE x # c /\ x # f
            <4>1. o[x] \in Folders(disk)  BY <1>7, <1>8, <2>4
            <4>2. fat[x] # 0 /\ own[x] = o[x] /\ v[x] = fat[x]
                BY <1>5, <1>8, <2>4, <3>3, <4>1
            <4>3. Tidy(fat, disk, x)  BY <1>8, <2>4, <4>2 DEF Listed
            <4>. QED  BY <4>2, <4>3 DEF Tidy
        <3>. QED  BY <3>1, <3>2, <3>3
    <2>5. ASSUME NEW p \in Named(disk), v[p[1]] # 0, o[p[1]] \in H
          PROVE  fat[p[1]] # 0 /\ own[p[1]] = o[p[1]]
        <3>1. p[1] \in Numbers /\ p[2] \in Slots /\ disk[p[1]][p[2]].name \in Names \cup {Blank}
            BY PlaceParts DEF Named
        <3>2. p[1] # c  BY <2>2, <2>3, <3>1
        <3>3. o[p[1]] \in Folders(disk)  BY <1>7, <1>8, <2>5
        <3>. QED  BY <1>5, <1>8, <2>5, <3>1, <3>2, <3>3
    <2>6. ASSUME NEW p \in Named(disk), NEW q \in Named(disk), v[p[1]] # 0, v[q[1]] # 0, o[p[1]] = o[q[1]],
                 o[p[1]] \in H, NameOf(disk, p) = NameOf(disk, q)
          PROVE  p = q
        <3>1. fat[p[1]] # 0 /\ own[p[1]] = o[p[1]] /\ fat[q[1]] # 0 /\ own[q[1]] = o[q[1]]
            BY <2>5, <2>6
        <3>. QED  BY <1>8, <2>6, <3>1 DEF Listed
    <2>7. Listed(o, v, disk, Filled)  BY <1>8, <2>4, <2>6 DEF Listed
    <2>8. Absent(o)'
        <3>. SUFFICES ASSUME op.name \in Names PROVE Absent(o)'
            BY <1>4, <1>10 DEF Absent, NotIn
        <3>1. ASSUME NEW x \in Numbers, v[x] # 0, o[x] = cwd, NEW i \in Slots
              PROVE  disk[x][i].name # op.name
            <4>1. CASE x = c  BY <2>2, <2>3, <4>1
            <4>2. CASE x # c
                <5>1. fat[x] # 0 /\ own[x] = cwd  BY <1>5, <1>7, <1>8, <3>1, <4>2
                <5>. QED  BY <2>1, <5>1 DEF Absent, NotIn
            <4>. QED  BY <4>1, <4>2
        <3>2. \A x \in Numbers : fat'[x] # 0 /\ o[x] = cwd' => \A i \in Slots : disk'[x][i].name # op'.name
            BY <1>1, <1>4, <1>8, <1>10, <3>1
        <3>. QED  BY <3>2 DEF Absent, NotIn, Numbers, Slots
    <2>9. op'.pc = "place"  BY <1>4, <1>10
    <2>. QED  BY <1>1, <1>6, <1>8, <2>7, <2>8, <2>9 DEF Seeks
<1>. QED  BY <1>9, <1>10

\* A name that the directory does not have comes into a slot behind which there is
\* nothing (fat_write_file, fat_create_dir).
LEMMA EntryNames ==
    ASSUME IInv, Clean, CleanNames', NEW own, Fits(own), Listed(own, fat, disk, Filled), Seeks(own),
           Entry, HeadsOf(disk', Filled') \subseteq HeadsOf(disk, Filled)
    PROVE  Listed(own, fat', disk', Filled') /\ Seeks(own)'
<1>1. UNCHANGED <<fat, cwd>> /\ op.pc = "entry" /\ op.pc # "idle"  BY DEF Entry
<1>2. PICK c, i, n, s : /\ c = op.at /\ i = op.slot /\ n = op.name
                        /\ s = Slot(n, IF op.cmd = "mkdir" THEN "dir" ELSE "file", op.file, 0)
    OBVIOUS
<1>3. /\ c \in Numbers /\ i \in Slots /\ OpShape /\ own[c] = cwd /\ fat[c] # 0 /\ AreSectors(disk)
      /\ op.name \in Typed
    BY <1>1, <1>2, FitsFacts DEF OpType, NoWord
<1>0. n \in Names /\ Stored(op.name) = n
    <2>1. /\ op.name \in LongNames => "cut" \in events'
          /\ op.name \in {Dot, DotDot} => "dotted" \in events'
        BY DEF Entry, Dotted
    <2>2. op.name \notin LongNames /\ op.name \notin {Dot, DotDot}
        BY <2>1 DEF CleanNames
    <2>. QED  BY <1>2, <1>3, <2>2 DEF Typed, Stored
<1>4. op'.pc \in {"idle", "dots"}
    <2>1. Idle.pc = "idle"  BY DEF Idle
    <2>. QED  BY <1>3, <2>1 DEF Entry, OpShape
<1>5. PICK d, e, H : d = disk /\ e = disk' /\ H = HeadsOf(disk, Filled)  OBVIOUS
<1>6. Written(d, e, c, i, s) /\ s.name = n
    <2>1. disk' = [disk EXCEPT ![c][i] = s]  BY <1>0, <1>2 DEF Entry
    <2>. QED  BY <1>2, <1>3, <1>5, <2>1, SlotExcept DEF Slot
<1>7. /\ e[c] = [j \in Slots |-> IF j = i THEN s ELSE d[c][j]]
      /\ \A x \in Numbers : x # c => e[x] = d[x]
    BY <1>3, <1>6 DEF Written
<1>8. ASSUME NEW p \in Named(e)
      PROVE  \/ p = <<c, i>> /\ p[1] = c /\ p[2] = i /\ NameOf(e, p) = n
             \/ p \in Named(d) /\ NameOf(e, p) = NameOf(d, p) /\ p[1] \in Numbers /\ p[2] \in Slots
    <2>1. p \in Places /\ p = <<p[1], p[2]>> /\ p[1] \in Numbers /\ p[2] \in Slots
        BY PlaceParts DEF Named
    <2>. QED  BY <1>0, <1>6, <1>7, <2>1 DEF Named, NameOf
<1>9. Absent(own) /\ \A j \in Slots : j < i => d[c][j].name # Nul
    BY <1>1, <1>2, <1>5 DEF Seeks
<1>10. Nul \notin Names \cup {Blank} /\ Slots \subseteq Nat  BY Marks, Numbering
<1>11. ASSUME NEW x \in Numbers, fat[x] # 0, own[x] \in H PROVE Tidy(fat, e, x)
    <2>1. Tidy(fat, d, x)  BY <1>5, <1>11 DEF Listed
    <2>. SUFFICES ASSUME NEW j \in Slots, e[x][j].name = Nul
                  PROVE  fat[x] \notin Clusters /\ \A k \in Slots : j < k => <<x, k>> \notin Named(e)
        BY DEF Tidy
    <2>2. d[x][j].name = Nul /\ (x = c => j # i)  BY <1>0, <1>3, <1>6, <1>7, <1>10
    <2>3. fat[x] \notin Clusters /\ \A k \in Slots : j < k => <<x, k>> \notin Named(d)
        BY <2>1, <2>2 DEF Tidy
    <2>4. ASSUME NEW k \in Slots, j < k, <<x, k>> \in Named(e) PROVE FALSE
        <3>1. <<x, k>> = <<c, i>>  BY <1>8, <2>3, <2>4
        <3>2. x = c /\ k = i  BY <3>1
        <3>. QED  BY <1>9, <2>2, <2>4, <3>2
    <2>. QED  BY <2>3, <2>4
<1>12. ASSUME NEW q \in Named(d), q[1] \in Numbers, q[2] \in Slots, fat[q[1]] # 0, own[q[1]] = cwd
       PROVE  NameOf(d, q) # n
    BY <1>0, <1>2, <1>5, <1>9, <1>12 DEF Absent, NotIn, NameOf
<1>13. ASSUME NEW p \in Named(e), NEW q \in Named(e), fat[p[1]] # 0, fat[q[1]] # 0, own[p[1]] = own[q[1]],
              own[p[1]] \in H, NameOf(e, p) = NameOf(e, q)
       PROVE  p = q
    <2>1. CASE p \in Named(d) /\ NameOf(e, p) = NameOf(d, p) /\ q \in Named(d) /\ NameOf(e, q) = NameOf(d, q)
        BY <1>5, <1>13, <2>1 DEF Listed
    <2>2. CASE p = <<c, i>> /\ p[1] = c /\ NameOf(e, p) = n
        BY <1>3, <1>8, <1>12, <1>13, <2>2
    <2>3. CASE q = <<c, i>> /\ q[1] = c /\ NameOf(e, q) = n
        BY <1>3, <1>8, <1>12, <1>13, <2>3
    <2>. QED  BY <1>8, <2>1, <2>2, <2>3
<1>14. Listed(own, fat, e, Filled')
    <2>1. HeadsOf(e, Filled') \subseteq H  BY <1>5
    <2>. QED  BY <1>11, <1>13, <2>1 DEF Listed
<1>15. Listed(own, fat', disk', Filled')  BY <1>1, <1>5, <1>14
<1>. QED  BY <1>4, <1>15, SeeksNothing

\* The first sector of a new directory has no names but . and .. (fat_init_dir_cluster).
LEMMA DotsNames ==
    ASSUME IInv, Clean, Clean', NEW own, Fits(own), Listed(own, fat, disk, Filled), Dots
    PROVE  Listed(own, fat', disk', Filled') /\ Seeks(own)'
<1>1. UNCHANGED fat /\ op.pc = "dots" /\ op.pc # "idle" /\ op.at = cwd /\ op'.pc = "idle"
    BY DEF Dots, Clean, Idle
<1>2. PICK g, h, s : g = cwd /\ h = op.file /\ s = DirSector(h, g) /\ disk' = [disk EXCEPT ![h] = s]
    BY <1>1 DEF Dots
<1>3. /\ g \in Numbers /\ h \in Clusters /\ h # Root /\ h \in Numbers /\ AreSectors(disk)
    BY <1>1, <1>2, FitsFacts, Numbering DEF Fits, Walks
<1>4. fat[h] = Eoc /\ \A x \in Numbers : own[x] = h <=> x = h
    <2>1. h \in New
        <3>1. h # 0  BY <1>3, Numbering
        <3>. QED  BY <1>1, <1>2, <3>1 DEF New
    <2>. QED  BY <2>1 DEF Fits, NewInv, Alone
<1>5. PICK d, e, H, K : /\ d = disk /\ e = disk' /\ H = HeadsOf(disk, Filled)
                        /\ K = HeadsOf(disk', Filled')
    OBVIOUS
<1>6. Replaced(d, e, h, s) /\ \A i \in Slots : s[i].name \notin Names \cup {Blank}
    BY <1>2, <1>3, <1>5, NewSectors DEF Replaced, AreSectors, Numbers
<1>7. \A p \in Named(e) : p \in Named(d) /\ p[1] # h /\ e[p[1]][p[2]] = d[p[1]][p[2]]
                          /\ ClusterOf(e, p) = ClusterOf(d, p)
    <2>1. OthersStay(d, e, h)  BY ONLY <1>3, <1>6, SectorEntries
    <2>. QED  BY <2>1 DEF OthersStay
<1>8. K \subseteq H \cup {h}
    <2>1. Filled = {p \in DirEntries(d) : ClusterOf(d, p) # h}
        BY <1>1, <1>2, <1>5 DEF Filled, Unfilled
    <2>2. Filled' = DirEntries(e)  BY <1>1, <1>5 DEF Filled, Unfilled
    <2>3. \A p \in DirEntries(e) : p \in DirEntries(d) /\ ClusterOf(e, p) = ClusterOf(d, p)
        BY <1>7 DEF DirEntries
    <2>. QED  BY <1>5, <2>1, <2>2, <2>3 DEF HeadsOf
<1>9. \A x \in Numbers : x # h => e[x] = d[x]  BY <1>6 DEF Replaced
<1>10. ASSUME NEW x \in Numbers, fat[x] # 0, own[x] \in K PROVE Tidy(fat, e, x)
    <2>1. CASE x = h
        <3>1. fat[x] \notin Clusters  BY <1>4, <2>1, Numbering
        <3>2. \A j \in Slots : <<x, j>> \notin Named(e)
            <4>. SUFFICES ASSUME NEW j \in Slots, <<x, j>> \in Named(e) PROVE FALSE
                OBVIOUS
            <4>. QED  BY <1>7, <2>1
        <3>. QED  BY <3>1, <3>2 DEF Tidy
    <2>2. CASE x # h
        <3>1. own[x] \in H  BY <1>4, <1>8, <1>10, <2>2
        <3>2. Tidy(fat, d, x) /\ e[x] = d[x]
            BY <1>5, <1>9, <1>10, <2>2, <3>1 DEF Listed
        <3>3. \A j \in Slots : <<x, j>> \in Named(e) => <<x, j>> \in Named(d)  BY <1>7
        <3>. QED  BY <3>2, <3>3 DEF Tidy
    <2>. QED  BY <2>1, <2>2
<1>11. ASSUME NEW p \in Named(e), NEW q \in Named(e), fat[p[1]] # 0, fat[q[1]] # 0, own[p[1]] = own[q[1]],
              own[p[1]] \in K, NameOf(e, p) = NameOf(e, q)
       PROVE  p = q
    <2>1. /\ p \in Named(d) /\ q \in Named(d) /\ p[1] # h /\ p[1] \in Numbers
          /\ NameOf(d, p) = NameOf(d, q)
        BY <1>7, <1>11, PlaceParts DEF Named, NameOf
    <2>2. own[p[1]] \in H  BY <1>4, <1>8, <1>11, <2>1
    <2>. QED  BY <1>5, <1>11, <2>1, <2>2 DEF Listed
<1>12. Listed(own, fat, e, Filled')  BY <1>5, <1>10, <1>11 DEF Listed
<1>13. Listed(own, fat', disk', Filled')  BY <1>1, <1>5, <1>12
<1>. QED  BY <1>1, <1>13, SeeksNothing

\* A slot keeps its name or loses it (fat_delete_file, fat_write_file).
LEMMA SlotNames ==
    ASSUME op.pc # "dots", op'.pc # "dots", NEW own, Listed(own, fat, disk, Filled),
           NEW c \in Numbers, NEW i \in Slots, NEW s, Written(disk, disk', c, i, s),
           s.attr = disk[c][i].attr, s.cl = disk[c][i].cl, s.name \in {disk[c][i].name, Deleted}
    PROVE  Listed(own, fat, disk', Filled')
<1>1. PICK d, e : d = disk /\ e = disk'  OBVIOUS
<1>2. /\ e[c] = [j \in Slots |-> IF j = i THEN s ELSE d[c][j]]
      /\ \A x \in Numbers : x # c => e[x] = d[x]
    BY <1>1 DEF Written
<1>3. \A x \in Numbers : \A j \in Slots : e[x][j].name \in {d[x][j].name, Deleted}
    BY <1>1, <1>2
<1>4. ASSUME NEW p \in Named(e), e[p[1]][p[2]].attr = "dir"
      PROVE  p \in Named(d) /\ d[p[1]][p[2]].attr = "dir" /\ ClusterOf(e, p) = ClusterOf(d, p)
    <2>1. p \in Places /\ p[1] \in Numbers /\ p[2] \in Slots /\ e[p[1]][p[2]].name \in Names \cup {Blank}
        BY PlaceParts DEF Named
    <2>2. e[p[1]][p[2]].name = d[p[1]][p[2]].name  BY <1>3, <2>1, Marks
    <2>3. /\ e[p[1]][p[2]].attr = d[p[1]][p[2]].attr
          /\ e[p[1]][p[2]].cl = d[p[1]][p[2]].cl
        BY <1>1, <1>2, <2>1
    <2>. QED  BY <1>4, <2>1, <2>2, <2>3 DEF Named, ClusterOf
<1>5. HeadsOf(e, Filled') \subseteq HeadsOf(d, Filled)  BY <1>1, <1>4, FewerHeads
<1>6. Listed(own, fat, e, Filled')
    <2>1. \A x \in Numbers : fat[x] # 0 /\ own[x] \in HeadsOf(e, Filled') =>
              /\ fat[x] # 0 /\ own[x] = own[x] /\ fat[x] = fat[x]
              /\ \A j \in Slots : e[x][j].name \in {d[x][j].name, Deleted}
        BY <1>3
    <2>2. Listed(own, fat, d, Filled)  BY <1>1
    <2>. QED  BY ONLY <1>5, <2>1, <2>2, ListedStays
<1>. QED  BY <1>1, <1>6

\* rm takes names away.
LEMMA UnlinkNames ==
    ASSUME IInv, Clean, NEW own, Fits(own), Listed(own, fat, disk, Filled), Unlink
    PROVE  Listed(own, fat', disk', Filled') /\ Seeks(own)'
<1>1. UNCHANGED fat /\ op.pc = "remove" /\ op.pc # "idle" /\ op.pc # "dots"
    BY DEF Unlink
<1>2. OpShape /\ op.at \in Numbers /\ Idle.pc = "idle"
    BY <1>1, FitsFacts DEF OpType, Idle
<1>3. CASE Hits = {}
    <2>1. UNCHANGED disk /\ (op' = Idle \/ \E c : op' = [op EXCEPT !.at = c])
        BY <1>3 DEF Unlink, WalkOn
    <2>2. op'.pc \in {"idle", "remove"}  BY <1>1, <1>2, <2>1 DEF OpShape
    <2>. QED  BY <1>1, <2>1, <2>2, QuietNames, SeeksNothing
<1>4. CASE Hits # {}
    <2>1. PICK i : i = Min(Hits)  OBVIOUS
    <2>2. i \in Slots  BY <1>1, <1>4, <2>1, HitIsSlot
    <2>3. /\ disk' = [disk EXCEPT ![op.at][i].name = Deleted]
          /\ op' = [op EXCEPT !.pc = "free", !.file = At[i].cl, !.slot = i + 1, !.found = TRUE]
        BY <1>4, <2>1 DEF Unlink
    <2>. DEFINE s == Slot(Deleted, disk[op.at][i].attr, disk[op.at][i].cl, disk[op.at][i].size)
    <2>4. Written(disk, disk', op.at, i, s)
        BY <1>2, <2>2, <2>3, SlotExcept DEF IInv, TypeInv
    <2>5. s.attr = disk[op.at][i].attr /\ s.cl = disk[op.at][i].cl /\ s.name = Deleted
        BY DEF Slot
    <2>. HIDE DEF s
    <2>6. op'.pc = "free"  BY <1>2, <2>3 DEF OpShape
    <2>7. Listed(own, fat, disk', Filled')
        BY <1>1, <1>2, <2>2, <2>4, <2>5, <2>6, SlotNames
    <2>. QED  BY <1>1, <2>6, <2>7, SeeksNothing
<1>. QED  BY <1>3, <1>4

\* A size is written, and no name (fat_write_file).
LEMMA LocateNames ==
    ASSUME IInv, Clean, NEW own, Fits(own), Listed(own, fat, disk, Filled), Locate
    PROVE  Listed(own, fat', disk', Filled') /\ Seeks(own)'
<1>1. UNCHANGED fat /\ op.pc = "locate" /\ op.pc # "idle" /\ op.pc # "dots"
    BY DEF Locate
<1>2. OpShape /\ op.at \in Numbers  BY <1>1, FitsFacts DEF OpType
<1>3. CASE Hits = {}
    <2>1. UNCHANGED disk /\ (op' = [op EXCEPT !.pc = "data"] \/ \E c : op' = [op EXCEPT !.at = c])
        BY <1>3 DEF Locate, WalkOn
    <2>2. op'.pc \in {"data", "locate"}  BY <1>1, <1>2, <2>1 DEF OpShape
    <2>. QED  BY <1>1, <2>1, <2>2, QuietNames, SeeksNothing
<1>4. CASE Hits # {}
    <2>1. PICK i : i = Min(Hits)  OBVIOUS
    <2>2. i \in Slots  BY <1>1, <1>4, <2>1, HitIsSlot
    <2>3. /\ disk' = [disk EXCEPT ![op.at][i].size = op.text.len]
          /\ op' = [op EXCEPT !.pc = "data", !.file = At[i].cl, !.slot = i, !.found = TRUE]
        BY <1>4, <2>1 DEF Locate
    <2>. DEFINE s == Slot(disk[op.at][i].name, disk[op.at][i].attr, disk[op.at][i].cl, op.text.len)
    <2>4. Written(disk, disk', op.at, i, s)
        BY <1>2, <2>2, <2>3, SlotExcept DEF IInv, TypeInv
    <2>5. s.attr = disk[op.at][i].attr /\ s.cl = disk[op.at][i].cl /\ s.name = disk[op.at][i].name
        BY DEF Slot
    <2>. HIDE DEF s
    <2>6. op'.pc = "data"  BY <1>2, <2>3 DEF OpShape
    <2>7. Listed(own, fat, disk', Filled')
        BY <1>1, <1>2, <2>2, <2>4, <2>5, <2>6, SlotNames
    <2>. QED  BY <1>1, <2>6, <2>7, SeeksNothing
<1>. QED  BY <1>3, <1>4

\* mv that finds nothing, and clusters that rm gives back.
LEMMA OtherNames ==
    ASSUME IInv, Clean, CleanNames', NEW own, Fits(own), Listed(own, fat, disk, Filled),
           Rename \/ Free \/ Crash
    PROVE  Listed(own, fat', disk', Filled') /\ Seeks(own)'
<1>1. OpShape /\ Idle.pc = "idle"  BY FitsFacts DEF OpType, Idle
<1>2. CASE Rename
    <2>1. op.pc = "rename" /\ UNCHANGED <<fat, disk>>
          /\ (op' = Idle \/ \E c : op' = [op EXCEPT !.at = c])
        BY <1>2 DEF Rename, WalkOn, CleanNames
    <2>2. op'.pc \in {"idle", "rename"}  BY <1>1, <2>1 DEF OpShape
    <2>. QED  BY <2>1, <2>2, QuietNames, SeeksNothing
<1>3. CASE Free
    <2>1. op.pc = "free" /\ UNCHANGED <<disk, cwd>> /\ fat' = [fat EXCEPT ![op.file] = 0]
        BY <1>3 DEF Free
    <2>2. op'.pc \in {"free", "remove"}  BY <1>1, <1>3, <2>1 DEF Free, OpShape
    <2>3. LeavesDirs(own, own)
        <3>1. fat \in [Numbers -> FatEntry]  BY FitsFacts
        <3>2. \A x \in Numbers : fat'[x] # 0 => fat'[x] = fat[x]  BY <2>1, <3>1
        <3>. QED  BY <3>2 DEF LeavesDirs
    <2>4. Listed(own, fat', disk', Filled')  BY <2>1, <2>2, <2>3, TableNames
    <2>. QED  BY <2>2, <2>4, SeeksNothing
<1>4. CASE Crash
    <2>1. op.pc # "dots" /\ UNCHANGED <<fat, disk>> /\ op'.pc = "idle"
        BY <1>1, <1>4 DEF Crash, CleanNames
    <2>. QED  BY <2>1, QuietNames, SeeksNothing
<1>. QED  BY <1>2, <1>3, <1>4

\* Nothing happens.
LEMMA StayNames ==
    ASSUME NEW own, Listed(own, fat, disk, Filled), Seeks(own), UNCHANGED vars
    PROVE  Listed(own, fat', disk', Filled') /\ Seeks(own)'
<1>1. UNCHANGED <<fat, disk, cwd, op>>  BY DEF vars
<1>2. Filled' = Filled
    BY <1>1 DEF Filled, Unfilled, DirEntries, Named, ClusterOf, Places, Slots
<1>3. Listed(own, fat', disk', Filled')  BY <1>1, <1>2
<1>4. Seeks(own)'  BY <1>1 DEF Seeks, Absent, NotIn, Sought
<1>. QED  BY <1>3, <1>4

\* Each step of each command, and a power failure, keeps names apart.
LEMMA NamesInvStep ==
    ASSUME IInv, IInv', saved = [p \in Places |-> saved[p]], DotInv, NamesInv, [Next]_vars
    PROVE  NamesInv'
<1>. SUFFICES ASSUME CleanNames'
              PROVE  (\E own : Fits(own) /\ Listed(own, fat, disk, Filled) /\ Seeks(own))'
    BY DEF NamesInv
<1>1. CleanNames /\ Clean /\ Clean'
    <2>1. events \subseteq events' \cup {"here"}  BY EventsGrow
    <2>. QED  BY <2>1 DEF CleanNames, Clean
<1>2. PICK own : Fits(own) /\ Listed(own, fat, disk, Filled) /\ Seeks(own)
    BY <1>1 DEF NamesInv
<1>3. ASSUME NEW o, Fits(o)', Listed(o, fat', disk', Filled'), Seeks(o)'
      PROVE  (\E x : Fits(x) /\ Listed(x, fat, disk, Filled) /\ Seeks(x))'
    <2>1. (Fits(o) /\ Listed(o, fat, disk, Filled) /\ Seeks(o))'  BY <1>3
    <2>. QED  BY <2>1
<1>4. CASE Place
    <2>1. PICK o : Fits(o)' /\ LeavesDirs(own, o)  BY <1>1, <1>2, <1>4, PlaceFits
    <2>. QED  BY <1>1, <1>2, <1>3, <1>4, <2>1, PlaceNames
<1>5. CASE Mark
    <2>1. PICK o : Fits(o)' /\ LeavesDirs(own, o)  BY <1>1, <1>2, <1>5, MarkFits
    <2>. QED  BY <1>1, <1>2, <1>3, <1>5, <2>1, MarkNames
<1>6. CASE Link
    <2>1. PICK o : Fits(o)' /\ Joins(own, o)  BY <1>1, <1>2, <1>6, LinkFits
    <2>. QED  BY <1>1, <1>2, <1>3, <1>6, <2>1, LinkNames
<1>7. CASE Call  BY <1>1, <1>2, <1>3, <1>7, CallFits, CallNames
<1>8. CASE Check  BY <1>1, <1>2, <1>3, <1>8, LookFits, CheckNames
<1>9. CASE Open \/ Read \/ Chain \/ Dir
    BY <1>1, <1>2, <1>3, <1>9, LookFits, OpenFits, LookNames
<1>10. CASE Zero  BY <1>1, <1>2, <1>3, <1>10, ZeroFits, ZeroNames
<1>11. CASE Dots  BY <1>1, <1>2, <1>3, <1>11, DotsFits, DotsNames
<1>12. CASE Data  BY <1>1, <1>2, <1>3, <1>12, DataFits, DataNames
<1>13. CASE Entry  BY <1>1, <1>2, <1>3, <1>13, EntryFits, EntryNames
<1>14. CASE Unlink  BY <1>1, <1>2, <1>3, <1>14, UnlinkFits, UnlinkNames
<1>15. CASE Locate  BY <1>1, <1>2, <1>3, <1>15, LocateFits, LocateNames
<1>16. CASE Rename \/ Free \/ Crash
    BY <1>1, <1>2, <1>3, <1>16, RenameFits, FreeFits, CrashFits, OtherNames
<1>17. CASE UNCHANGED vars  BY <1>1, <1>2, <1>3, <1>17, FitsStays, StayNames
<1>. QED
    BY <1>4, <1>5, <1>6, <1>7, <1>8, <1>9, <1>10, <1>11, <1>12, <1>13, <1>14, <1>15, <1>16, <1>17
       DEF Next, Step

\* What follows a cluster belongs to what it belongs to (fat_next_cluster).
LEMMA ChainOwner ==
    ASSUME fat \in [Numbers -> FatEntry], Whole(fat, disk), NEW own, Divides(own, fat, disk),
           NEW c \in Heads(disk), NEW x \in ChainOf(c)
    PROVE  own[x] = c
<1>1. c \in Numbers /\ own[c] = c /\ LastCluster \in Numbers
    BY Numbering DEF Whole, Divides
<1>2. PICK r : Reach(c, r) /\ ChainOf(c) = r[LastCluster] \ {Eoc}  BY <1>1, ChainReach
<1>. DEFINE T == {k \in Numbers : \E y \in r[k] : y # Eoc /\ own[y] # c}
<1>. SUFFICES ASSUME T # {} PROVE FALSE  BY <1>1, <1>2
<1>3. T \in SUBSET Nat  BY Numbering DEF Numbers
<1>4. PICK k \in T : \A j \in T : k <= j  BY <1>3, LeastElement
<1>5. PICK y \in r[k] : y # Eoc /\ own[y] # c  BY <1>4
<1>6. y # c  BY <1>1, <1>5
<1>7. PICK m \in Numbers : m < k /\ \E z \in r[m] : z # Eoc /\ fat[z] = y
    BY <1>1, <1>2, <1>4, <1>6, ReachBack
<1>8. m \notin T
    <2>1. ~ (k <= m)  BY <1>4, <1>7, Numbering DEF Numbers
    <2>. QED  BY <1>4, <2>1
<1>9. PICK z \in r[m] : z # Eoc /\ fat[z] = y  BY <1>7
<1>10. own[z] = c /\ z \in DOMAIN fat
    BY <1>1, <1>2, <1>7, <1>8, <1>9, ReachInUse, Numbering
<1>11. y \in Clusters  BY <1>1, <1>2, <1>4, <1>5, ReachInUse
<1>. QED  BY <1>5, <1>9, <1>10, <1>11 DEF Divides

\* No path leads to the directory that mkdir is about to fill (fat_create_dir).
LEMMA UnfilledIsApart ==
    ASSUME IInv, Clean, NEW own, Fits(own)
    PROVE  DirClusters \cap Unfilled = {}
<1>1. Root \in Heads(disk) /\ Root \notin Unfilled
    BY FitsFacts, EntryHeads DEF Unfilled, Fits, Walks
<1>2. ChainOf(Root) \cap Unfilled = {}  BY <1>1, UnfilledIsAlone
<1>3. PICK Z : Z = Clusters \ Unfilled  OBVIOUS
<1>4. DirClusters \subseteq Z \cap Clusters
    <2>1. ChainOf(Root) \cap Clusters \subseteq Z /\ Clusters \subseteq Z \cup Unfilled
        BY <1>2, <1>3
    <2>. QED  BY <2>1, DirClustersAre
<1>. QED  BY <1>3, <1>4

\* The clusters that belong to a directory are the ones behind its first cluster.
LEMMA OwnedIsBehind ==
    ASSUME NEW own, NEW t \in [Numbers -> FatEntry], NEW d, Whole(t, d), Divides(own, t, d),
           Attached(own, t, Folders(d)), NEW x \in Numbers, t[x] # 0, own[x] \in Folders(d)
    PROVE  x \in Behind(t, own[x])
<1>1. PICK h : h = own[x]  OBVIOUS
<1>2. /\ Clusters \subseteq Numbers /\ Folders(d) \subseteq Heads(d) /\ Heads(d) \subseteq Clusters
      /\ DOMAIN t = Numbers
    BY EntryHeads, Numbering
<1>3. ASSUME NEW S \in SUBSET Numbers, h \in S, \A y \in S : t[y] \in Clusters => t[y] \in S
      PROVE  x \in S
    <2>. DEFINE U == S \cup {y \in Numbers : own[y] # h}
    <2>1. U \in SUBSET Numbers  OBVIOUS
    <2>2. Folders(d) \subseteq U
        <3>. SUFFICES ASSUME NEW g \in Folders(d) PROVE g \in U  OBVIOUS
        <3>1. own[g] = g /\ g \in Numbers  BY <1>2 DEF Divides
        <3>. QED  BY <1>3, <3>1
    <2>3. ASSUME NEW y \in U \cap DOMAIN t, t[y] \in Clusters PROVE t[y] \in U
        <3>1. own[t[y]] = own[y] /\ t[y] \in Numbers  BY <1>2, <2>3 DEF Divides
        <3>. QED  BY <1>3, <2>3, <3>1
    <2>. HIDE DEF U
    <2>4. x \in U  BY <2>1, <2>2, <2>3 DEF Attached
    <2>. QED  BY <1>1, <2>4 DEF U
<1>. QED  BY <1>1, <1>2, <1>3 DEF Behind

\* fat_init finds directories in which no name comes twice.
LEMMA NamesInvInit == Init => NamesInv
<1>. SUFFICES ASSUME Init PROVE NamesInv  OBVIOUS
<1>1. PICK v \in Volumes : fat = v.fat /\ disk = v.disk  BY DEF Init
<1>2. fat \in [Numbers -> FatEntry] /\ Whole(fat, disk)
    BY <1>1, WholeAssumption DEF Numbers
<1>3. op.pc = "idle" /\ Clean  BY DEF Init, Idle, Clean
<1>4. PICK own : Fits(own)  BY <1>3, TextInvInit DEF TextInv
<1>5. Filled = DirEntries(disk)  BY <1>3 DEF Filled, Unfilled
<1>6. PICK H : H = HeadsOf(disk, DirEntries(disk))  OBVIOUS
<1>7. H = Folders(disk)  BY <1>6 DEF HeadsOf, Folders
<1>8. ASSUME NEW x \in Numbers, fat[x] # 0, own[x] \in H PROVE x \in Behind(fat, own[x])
    <2>1. Divides(own, fat, disk) /\ Attached(own, fat, Folders(disk))
        BY <1>4 DEF Fits, Volume, Vol
    <2>. QED  BY <1>2, <1>7, <1>8, <2>1, OwnedIsBehind
<1>9. \A h \in H :
          /\ \A x \in Behind(fat, h) : Tidy(fat, disk, x)
          /\ \A p, q \in {r \in Named(disk) : r[1] \in Behind(fat, h)} :
                disk[p[1]][p[2]].name = disk[q[1]][q[2]].name => p = q
    <2>1. \A h \in HeadsOf(v.disk, DirEntries(v.disk)) :
              /\ \A x \in Behind(v.fat, h) : Tidy(v.fat, v.disk, x)
              /\ \A p, q \in {r \in Named(v.disk) : r[1] \in Behind(v.fat, h)} :
                    v.disk[p[1]][p[2]].name = v.disk[q[1]][q[2]].name => p = q
        BY NamesAssumption, Zenon
    <2>2. v.fat = fat /\ v.disk = disk  BY <1>1
    <2>. QED  BY ONLY <1>6, <2>1, <2>2
<1>10. ASSUME NEW x \in Numbers, fat[x] # 0, own[x] \in H PROVE Tidy(fat, disk, x)
    BY <1>8, <1>9, <1>10
<1>11. ASSUME NEW p \in Named(disk), NEW q \in Named(disk), fat[p[1]] # 0, fat[q[1]] # 0,
              own[p[1]] = own[q[1]], own[p[1]] \in H, NameOf(disk, p) = NameOf(disk, q)
       PROVE  p = q
    <2>1. p[1] \in Numbers /\ q[1] \in Numbers  BY PlaceParts DEF Named
    <2>2. p[1] \in Behind(fat, own[p[1]]) /\ q[1] \in Behind(fat, own[p[1]])
        BY <1>8, <1>11, <2>1
    <2>. QED  BY <1>9, <1>11, <2>2 DEF NameOf
<1>12. Listed(own, fat, disk, Filled)  BY <1>5, <1>6, <1>10, <1>11 DEF Listed
<1>13. Seeks(own)  BY <1>3 DEF Seeks
<1>. QED  BY <1>4, <1>12, <1>13 DEF NamesInv

\* Names that are kept apart in the clusters of each directory are unique in its chain.
LEMMA NamesAreApart == IInv /\ NamesInv => NamesUnique
<1>. SUFFICES ASSUME IInv, NamesInv, CleanNames, NEW h \in DirHeads,
                     NEW p \in (ChainOf(h) \X Slots) \cap Entries,
                     NEW q \in (ChainOf(h) \X Slots) \cap Entries,
                     disk[p[1]][p[2]].name = disk[q[1]][q[2]].name
              PROVE  p = q
    BY DEF NamesUnique, CleanNames, Sound
<1>1. Clean  BY DEF CleanNames, Clean
<1>2. PICK own : Fits(own) /\ Listed(own, fat, disk, Filled)  BY DEF NamesInv
<1>3. /\ fat \in [Numbers -> FatEntry] /\ Whole(fat, disk) /\ CacheInv /\ Divides(own, fat, disk)
    BY <1>1, <1>2, FitsFacts DEF Fits, Volume, Vol
<1>4. p \in Named(disk) /\ q \in Named(disk) /\ p[1] \in DirClusters /\ q[1] \in DirClusters
    BY EntriesAreNamed DEF Entries
<1>5. h = Root \/ \E e \in DirEntries(disk) : h = ClusterOf(disk, e)
    <2>1. ASSUME NEW e \in Entries, IsDirectory(e) PROVE e \in DirEntries(disk) /\ ClusterAt(e) = ClusterOf(disk, e)
        BY <2>1, EntriesAreNamed DEF IsDirectory, DirEntries, ClusterAt, ClusterOf
    <2>. QED  BY <2>1 DEF DirHeads
<1>6. h \in Heads(disk)  BY <1>3, <1>5, EntryHeads
<1>7. /\ fat[p[1]] # 0 /\ own[p[1]] = h
      /\ fat[q[1]] # 0 /\ own[q[1]] = h
    BY <1>3, <1>6, ChainMembers, ChainOwner
<1>8. h \in HeadsOf(disk, Filled)
    <2>. SUFFICES ASSUME h \notin HeadsOf(disk, Filled) PROVE FALSE  OBVIOUS
    <2>1. h \in Unfilled  BY <1>5 DEF HeadsOf, Filled
    <2>2. op.pc = "dots" /\ h = op.file  BY <2>1 DEF Unfilled
    <2>3. h # 0 /\ p[1] \in Numbers
        BY <1>3, <1>4, <1>6, EntryHeads, Numbering, PlaceParts DEF Named
    <2>4. Alone(own, fat, saved, h)  BY <1>2, <2>2, <2>3 DEF Fits, NewInv, New
    <2>5. p[1] = h  BY <1>7, <2>3, <2>4 DEF Alone
    <2>. QED  BY <1>1, <1>2, <1>4, <2>1, <2>5, UnfilledIsApart
<1>. QED  BY <1>2, <1>4, <1>7, <1>8 DEF Listed, NameOf

\* What create and mkdir know of names stays true.
THEOREM NamesInvInvariant == Spec => []NamesInv
<1>1. TextInv => saved = [p \in Places |-> saved[p]]  BY DEF TextInv
<1>2. IInv /\ IInv' /\ TextInv /\ DotInv /\ NamesInv /\ [Next]_vars => NamesInv'
    BY <1>1, NamesInvStep
<1>. QED  BY <1>2, IInvInvariant, TextInvInvariant, NamesInvInit, PTL DEF Spec

\* No directory has two entries of a name, until mv has renamed one without looking
\* whether the name is taken (fat_write_file, fat_create_dir).
THEOREM NamesAreUnique == Spec => []NamesUnique
    BY IInvInvariant, NamesInvInvariant, NamesAreApart, PTL
===============================================================================
