---------------------------- MODULE KmallocProofs ----------------------------
(***************************************************************************)
(* Theorems about Kmalloc and KmallocPreempted, for every heap size,      *)
(* header size, size of a PCB and set of requests.                         *)
(*                                                                         *)
(* That held areas are apart is not inductive: it rests on the blocks      *)
(* tiling the heap and on every area belonging to a used block of its own. *)
(* The loops need to know where they are: kmalloc's that nothing behind it *)
(* would have done, merge_blocks' that its block is free.                  *)
(*                                                                         *)
(* With a step for every access, the blocks are not in the state but in    *)
(* the proof: CallsInv says that there are some, and what each task has in *)
(* its hands between a load and the store that follows from it.            *)
(***************************************************************************)
EXTENDS Kmalloc, KmallocPreempted, TLAPS

\* Nobody holds two areas of the same block.
HeldOnce == \A g, h \in held : g.ptr = h.ptr => g = h

SearchInv ==
    pc = "search" =>
        /\ current \in blocks \cup {Null} /\ size \in Requests
        /\ \A b \in blocks : b < current => heap[b].used = 1 \/ heap[b].size < size

MergeInv == pc = "merge" => current \in blocks /\ heap[current].used = 0

IInv == TypeOK /\ HeapTiled /\ UsedIsHeld /\ HeldOnce /\ SearchInv /\ MergeInv

-----------------------------------------------------------------------------

\* What the types say of a block: numbers, and an end inside the heap
\* (kmalloc.h, struct Block).
LEMMA BlockFacts ==
    ASSUME TypeOK, HeapTiled, NEW b \in blocks
    PROVE  /\ b \in Nat /\ b \in Addr /\ b < HeapSize
           /\ heap[b].size \in Nat /\ heap[b].used \in {0, 1}
           /\ heap[b].next \in Addr \cup {Null}
           /\ End(b) \in Nat /\ b < End(b) /\ End(b) <= HeapSize
<1>. USE HeapAssumption
<1>1. b \in Addr /\ heap[b] \in Block
    BY DEF TypeOK
<1>2. b \in Nat /\ b < HeapSize /\ heap[b].size \in Nat /\ heap[b].used \in {0, 1}
      /\ heap[b].next \in Addr \cup {Null}
    BY <1>1 DEF Addr, Block
<1>3. End(b) = HeapSize \/ End(b) \in blocks
    BY DEF HeapTiled
<1>4. End(b) = HeapSize \/ End(b) \in Addr
    BY <1>3 DEF TypeOK
<1>. QED
    BY <1>1, <1>2, <1>4 DEF End, Addr

\* The blocks kmalloc and kfree see at first: one, free, the whole heap
\* (kmalloc.c:9-16).
LEMMA InitInv == Init => IInv
<1>. SUFFICES ASSUME Init PROVE IInv
    OBVIOUS
<1>. USE HeapAssumption
<1>1. 0 \in Addr /\ Null \notin Addr /\ HeapSize - Header \in Nat
    BY DEF Addr, Null
<1>2. TypeOK
    BY <1>1 DEF Init, TypeOK, Block
<1>3. HeapTiled
    BY <1>1 DEF Init, HeapTiled, End
<1>4. UsedIsHeld /\ HeldOnce /\ SearchInv /\ MergeInv
    BY <1>1 DEF Init, UsedIsHeld, HeldOnce, SearchInv, MergeInv
<1>. QED
    BY <1>2, <1>3, <1>4 DEF IInv

\* The steps that only move kmalloc's or merge_blocks' pointer leave the heap
\* as it is (kmalloc.c:26-27, 42-44, 49).
LEMMA PointerStepsPreserve ==
    IInv /\ (MallocBegins \/ SearchPasses \/ SearchFails \/ MergeDone) => IInv'
<1>. SUFFICES ASSUME IInv, MallocBegins \/ SearchPasses \/ SearchFails \/ MergeDone
              PROVE  IInv'
    OBVIOUS
<1>. USE HeapAssumption
<1>1. heap' = heap /\ blocks' = blocks /\ held' = held
    BY DEF MallocBegins, SearchPasses, SearchFails, MergeDone
<1>2. HeapTiled' /\ UsedIsHeld' /\ HeldOnce'
    BY <1>1 DEF IInv, HeapTiled, UsedIsHeld, HeldOnce, End
<1>3. CASE MallocBegins
  <2>1. TypeOK'
      BY <1>1, <1>3 DEF IInv, MallocBegins, TypeOK, Addr
  <2>2. SearchInv' /\ MergeInv'
      BY <1>1, <1>3, BlockFacts DEF IInv, MallocBegins, SearchInv, MergeInv, HeapTiled
  <2>. QED
      BY <1>2, <2>1, <2>2 DEF IInv
<1>4. CASE SearchPasses
  <2>1. current \in blocks /\ current' = heap[current].next /\ size' = size
        /\ pc = "search" /\ pc' = "search" /\ size \in Requests
      BY <1>4 DEF SearchPasses, IInv, SearchInv
  <2>2. current' = Null \/ (current' = End(current) /\ current' \in blocks)
      BY <2>1 DEF IInv, HeapTiled
  <2>3. TypeOK'
      BY <1>1, <2>1, <2>2 DEF IInv, TypeOK
  <2>4. ASSUME NEW b \in blocks, b < current'
        PROVE  heap[b].used = 1 \/ heap[b].size < size
    <3>1. b \in Nat /\ current \in Nat /\ End(current) \in Nat /\ Null = HeapSize
          /\ b < HeapSize /\ heap[current].size \in Nat /\ size \in Nat
          /\ heap[current].used \in {0, 1}
        BY <2>1, BlockFacts DEF IInv, Null
    <3>2. current' = Null => End(current) = HeapSize
        BY <2>1 DEF IInv, HeapTiled
    <3>3. b <= current
        BY <2>1, <2>2, <2>4, <3>1, <3>2 DEF IInv, HeapTiled
    <3>4. CASE b < current
        BY <2>1, <3>4 DEF IInv, SearchInv
    <3>5. CASE b = current
        BY <1>4, <3>1, <3>5 DEF SearchPasses, Fits
    <3>. QED
        BY <3>1, <3>3, <3>4, <3>5
  <2>5. SearchInv' /\ MergeInv'
      BY <1>1, <2>1, <2>2, <2>4 DEF SearchInv, MergeInv
  <2>. QED
      BY <1>2, <2>3, <2>5 DEF IInv
<1>5. CASE SearchFails \/ MergeDone
  <2>1. TypeOK' /\ SearchInv' /\ MergeInv'
      BY <1>1, <1>5 DEF IInv, SearchFails, MergeDone, TypeOK, SearchInv, MergeInv
  <2>. QED
      BY <1>2, <2>1 DEF IInv
<1>. QED
    BY <1>3, <1>4, <1>5

\* A block kmalloc has found: free, and large enough (kmalloc.c:29).
LEMMA FoundFacts ==
    ASSUME IInv, pc = "search", current # Null, Fits
    PROVE  /\ current \in blocks /\ heap[current].used = 0 /\ size <= heap[current].size
           /\ size \in Requests /\ size \in Nat /\ 1 <= size
           /\ \A h \in held : h.ptr # current + Header
           /\ current + Header \in Addr
<1>. USE HeapAssumption
<1>1. current \in blocks /\ heap[current].used = 0 /\ size \in Requests
    BY DEF IInv, SearchInv, Fits
<1>2. /\ current \in Nat /\ heap[current].size \in Nat
      /\ size \in Nat /\ 1 <= size /\ size <= heap[current].size
      /\ End(current) <= HeapSize
  <2>1. current \in Nat /\ heap[current].size \in Nat /\ End(current) <= HeapSize
      BY <1>1, BlockFacts DEF IInv
  <2>2. size \in Nat /\ 1 <= size
      BY <1>1
  <2>3. heap[current].size >= size
      BY DEF Fits
  <2>. QED
      BY <2>1, <2>2, <2>3
<1>3. \A h \in held : h.ptr # current + Header
  <2>. SUFFICES ASSUME NEW h \in held, h.ptr = current + Header PROVE FALSE
      OBVIOUS
  <2>1. h.ptr - Header = current
      BY <1>2
  <2>. QED
      BY <1>1, <2>1 DEF IInv, UsedIsHeld
<1>4. current + Header \in Addr
  <2>1. current + Header + heap[current].size <= HeapSize
      BY <1>2 DEF End
  <2>. QED
      BY <1>2, <2>1 DEF Addr
<1>. QED
    BY <1>1, <1>2, <1>3, <1>4

\* Taking a block whole marks it and hands out its area (kmalloc.c:39-40).
LEMMA TakesWholePreserves == IInv /\ TakesWhole => IInv'
<1>. SUFFICES ASSUME IInv, TakesWhole PROVE IInv'
    OBVIOUS
<1>. USE HeapAssumption
<1>0. pc = "search" /\ current # Null /\ Fits /\ pc' = "idle" /\ blocks' = blocks
      /\ held' = held \cup {Handed} /\ current' = current /\ size' = size
      /\ heap' = [heap EXCEPT ![current].used = 1]
    BY DEF TakesWhole
<1>1. /\ current \in blocks /\ heap[current].used = 0 /\ size <= heap[current].size
      /\ size \in Requests /\ \A h \in held : h.ptr # current + Header
      /\ current + Header \in Addr
    BY <1>0, FoundFacts
<1>2. current \in Addr /\ heap[current] \in Block /\ heap \in [Addr -> Block]
    BY <1>1 DEF IInv, TypeOK
<1>3. /\ heap' \in [Addr -> Block] /\ heap'[current].used = 1
      /\ \A b \in Addr : /\ heap'[b].size = heap[b].size /\ heap'[b].next = heap[b].next
                         /\ b # current => heap'[b] = heap[b]
    BY <1>0, <1>2 DEF Block
<1>4. blocks \subseteq Addr /\ blocks' \subseteq Addr
    BY <1>0 DEF IInv, TypeOK
<1>5. TypeOK'
    BY <1>0, <1>1, <1>3 DEF IInv, TypeOK, Handed
<1>6. HeapTiled'
    BY <1>0, <1>3, <1>4 DEF IInv, HeapTiled, End
<1>7. UsedIsHeld'
  <2>1. \A h \in held : h.ptr - Header \in blocks /\ heap[h.ptr - Header].used = 1
                        /\ h.len <= heap[h.ptr - Header].size
      BY DEF IInv, UsedIsHeld
  <2>2. \A h \in held : h.ptr - Header # current
      BY <1>1, <2>1
  <2>3. Handed.ptr - Header = current /\ Handed.len = size /\ Handed.ptr = current + Header
      BY <1>1, BlockFacts DEF Handed, IInv
  <2>4. \A b \in blocks : heap'[b].used = 1 => b = current \/ heap[b].used = 1
      BY <1>3, <1>4
  <2>5. \A b \in blocks : heap[b].used = 1 => \E h \in held : h.ptr = b + Header
      BY DEF IInv, UsedIsHeld
  <2>6. \A h \in held' : /\ h.ptr - Header \in blocks'
                         /\ heap'[h.ptr - Header].used = 1
                         /\ h.len <= heap'[h.ptr - Header].size
      BY <1>0, <1>1, <1>3, <1>4, <2>1, <2>2, <2>3
  <2>7. \A b \in blocks' : heap'[b].used = 1 => \E h \in held' : h.ptr = b + Header
      BY <1>0, <2>3, <2>4, <2>5
  <2>. QED
      BY <2>6, <2>7 DEF UsedIsHeld
<1>8. HeldOnce' /\ SearchInv' /\ MergeInv'
    BY <1>0, <1>1 DEF IInv, HeldOnce, SearchInv, MergeInv, Handed
<1>. QED
    BY <1>5, <1>6, <1>7, <1>8 DEF IInv

\* Splitting a block leaves the heap tiled: the rest starts where the area that
\* is handed out ends, and ends where the block ended (kmalloc.c:30-40).
LEMMA SplitsPreserves == IInv /\ Splits => IInv'
<1>. SUFFICES ASSUME IInv, Splits PROVE IInv'
    OBVIOUS
<1>. USE HeapAssumption
<1>. DEFINE neu == current + Header + size
            rest == [size |-> heap[current].size - size - Header, used |-> 0,
                     next |-> heap[current].next]
            taken == [size |-> size, used |-> 1, next |-> neu]
<1>0. /\ pc = "search" /\ current # Null /\ Fits /\ heap[current].size > size + Header
      /\ pc' = "idle" /\ blocks' = blocks \cup {neu}
      /\ held' = held \cup {Handed} /\ current' = current /\ size' = size
      /\ heap' = [heap EXCEPT ![neu] = rest, ![current] = taken]
    BY DEF Splits
<1>1. /\ current \in blocks /\ heap[current].used = 0 /\ size <= heap[current].size
      /\ size \in Requests /\ size \in Nat /\ 1 <= size
      /\ \A h \in held : h.ptr # current + Header
      /\ current + Header \in Addr
    BY <1>0, FoundFacts
<1>2. /\ current \in Nat /\ current \in Addr /\ heap[current].size \in Nat
      /\ heap[current].next \in Addr \cup {Null}
      /\ End(current) \in Nat /\ End(current) <= HeapSize
    BY <1>1, BlockFacts DEF IInv
<1>3. /\ neu \in Nat /\ current < neu /\ neu < End(current) /\ neu \in Addr
      /\ neu # current /\ neu + Header <= End(current)
    BY <1>0, <1>1, <1>2 DEF End, Addr
<1>4. \A b \in blocks : /\ b \in Nat /\ b \in Addr /\ b < End(b) /\ End(b) \in Nat
                        /\ b < current => End(b) <= current
                        /\ current < b => End(current) <= b
    BY <1>1, BlockFacts DEF IInv, HeapTiled
<1>5. neu \notin blocks
    BY <1>2, <1>3, <1>4
<1>6. /\ heap \in [Addr -> Block] /\ rest \in Block /\ taken \in Block
    BY <1>0, <1>1, <1>2, <1>3 DEF IInv, TypeOK, Block
<1>7. /\ heap' \in [Addr -> Block] /\ heap'[neu] = rest /\ heap'[current] = taken
      /\ \A b \in blocks : b # current => heap'[b] = heap[b]
    BY <1>0, <1>2, <1>3, <1>4, <1>5, <1>6
<1>8. TypeOK'
    BY <1>0, <1>1, <1>3, <1>7 DEF IInv, TypeOK, Handed
<1>9. /\ End(current)' = neu /\ End(neu)' = End(current)
      /\ \A b \in blocks : b # current => End(b)' = End(b)
  <2>1. /\ heap'[current].size = size
        /\ heap'[neu].size = heap[current].size - size - Header
      BY <1>7
  <2>2. End(current)' = neu /\ \A b \in blocks : b # current => End(b)' = End(b)
      BY <1>0, <1>7, <2>1 DEF End
  <2>3. End(neu)' = neu + Header + heap'[neu].size
      BY <1>0 DEF End
  <2>4. End(neu)' = End(current)
      BY <1>1, <1>2, <2>1, <2>3 DEF End
  <2>. QED
      BY <2>2, <2>4
<1>10. HeapTiled'
  <2>1. 0 \in blocks'
      BY <1>0 DEF IInv, HeapTiled
  <2>2. ASSUME NEW b \in blocks'
        PROVE  IF heap'[b].next = Null THEN End(b)' = HeapSize
               ELSE heap'[b].next = End(b)' /\ End(b)' \in blocks'
    <3>1. CASE b = current
        BY <1>0, <1>3, <1>7, <1>9, <3>1 DEF Addr, Null
    <3>2. CASE b = neu
      <4>1. heap'[neu].next = heap[current].next /\ End(neu)' = End(current)
          BY <1>7, <1>9
      <4>2. IF heap[current].next = Null THEN End(current) = HeapSize
            ELSE heap[current].next = End(current) /\ End(current) \in blocks
          BY <1>1 DEF IInv, HeapTiled
      <4>. QED
          BY <1>0, <3>2, <4>1, <4>2
    <3>3. CASE b \in blocks /\ b # current
      <4>1. heap'[b] = heap[b] /\ End(b)' = End(b)
          BY <1>7, <1>9, <3>3
      <4>2. IF heap[b].next = Null THEN End(b) = HeapSize
            ELSE heap[b].next = End(b) /\ End(b) \in blocks
          BY <3>3 DEF IInv, HeapTiled
      <4>. QED
          BY <1>0, <4>1, <4>2
    <3>. QED
        BY <1>0, <2>2, <3>1, <3>2, <3>3
  <2>3. ASSUME NEW b \in blocks', NEW c \in blocks', b < c
        PROVE  End(b)' <= c
    <3>1. CASE b = current
        BY <1>0, <1>2, <1>3, <1>4, <1>9, <2>3, <3>1
    <3>2. CASE b = neu
        BY <1>0, <1>2, <1>3, <1>4, <1>9, <2>3, <3>2
    <3>3. CASE b \in blocks /\ b # current /\ c = neu
        BY <1>2, <1>3, <1>4, <1>9, <2>3, <3>3
    <3>4. CASE b \in blocks /\ b # current /\ c \in blocks
        BY <1>9, <2>3, <3>4 DEF IInv, HeapTiled
    <3>. QED
        BY <1>0, <2>3, <3>1, <3>2, <3>3, <3>4
  <2>. QED
      BY <2>1, <2>2, <2>3 DEF HeapTiled
<1>11. UsedIsHeld'
  <2>1. \A h \in held : h.ptr - Header \in blocks /\ heap[h.ptr - Header].used = 1
                        /\ h.len <= heap[h.ptr - Header].size
      BY DEF IInv, UsedIsHeld
  <2>2. \A h \in held : h.ptr - Header # current
      BY <1>1, <2>1
  <2>3. Handed.ptr - Header = current /\ Handed.len = size /\ Handed.ptr = current + Header
      BY <1>2 DEF Handed
  <2>4. heap'[neu].used = 0 /\ heap'[current].used = 1 /\ heap'[current].size = size
      BY <1>7
  <2>5. \A b \in blocks : heap[b].used = 1 => \E h \in held : h.ptr = b + Header
      BY DEF IInv, UsedIsHeld
  <2>6. ASSUME NEW h \in held'
        PROVE  /\ h.ptr - Header \in blocks' /\ heap'[h.ptr - Header].used = 1
               /\ h.len <= heap'[h.ptr - Header].size
    <3>1. CASE h = Handed
      <4>1. h.ptr - Header = current /\ h.len = size
          BY <2>3, <3>1
      <4>2. current \in blocks' /\ size \in Nat
          BY <1>0, <1>1
      <4>3. h.len <= size
          BY <4>1, <4>2
      <4>. QED
          BY <2>4, <4>1, <4>2, <4>3
    <3>2. CASE h \in held
      <4>1. heap'[h.ptr - Header] = heap[h.ptr - Header]
          BY <1>7, <2>1, <2>2, <3>2
      <4>. QED
          BY <1>0, <2>1, <3>2, <4>1
    <3>. QED
        BY <1>0, <2>6, <3>1, <3>2
  <2>7. \A b \in blocks' : heap'[b].used = 1 => \E h \in held' : h.ptr = b + Header
      BY <1>0, <1>7, <2>3, <2>4, <2>5
  <2>. QED
      BY <2>6, <2>7 DEF UsedIsHeld
<1>12. HeldOnce' /\ SearchInv' /\ MergeInv'
    BY <1>0, <1>1 DEF IInv, HeldOnce, SearchInv, MergeInv, Handed
<1>. QED
    BY <1>8, <1>10, <1>11, <1>12 DEF IInv

\* kfree marks the holder's block free, and nobody else's (kmalloc.c:56-61).
LEMMA FreeBeginsPreserves == IInv /\ FreeBegins => IInv'
<1>. SUFFICES ASSUME IInv, FreeBegins PROVE IInv'
    OBVIOUS
<1>. USE HeapAssumption
<1>1. PICK f \in held : /\ held' = held \ {f} /\ current' = f.ptr - Header
                        /\ heap' = [heap EXCEPT ![f.ptr - Header].used = 0]
    BY DEF FreeBegins
<1>. DEFINE block == f.ptr - Header
<1>2. pc' = "merge" /\ blocks' = blocks /\ size' = size
    BY DEF FreeBegins
<1>3. block \in blocks /\ f.ptr \in Nat /\ f.ptr = block + Header
    BY DEF IInv, UsedIsHeld, TypeOK, Addr
<1>4. block \in Addr /\ blocks \subseteq Addr /\ heap \in [Addr -> Block]
    BY <1>3 DEF IInv, TypeOK
<1>5. /\ heap' \in [Addr -> Block] /\ heap'[block].used = 0
      /\ \A b \in Addr : /\ heap'[b].size = heap[b].size /\ heap'[b].next = heap[b].next
                         /\ b # block => heap'[b] = heap[b]
    BY <1>1, <1>4 DEF Block
<1>6. TypeOK'
    BY <1>1, <1>2, <1>4, <1>5 DEF IInv, TypeOK
<1>7. HeapTiled'
    BY <1>2, <1>4, <1>5 DEF IInv, HeapTiled, End
<1>8. UsedIsHeld'
  <2>1. ASSUME NEW h \in held'
        PROVE  /\ h.ptr - Header \in blocks' /\ heap'[h.ptr - Header].used = 1
               /\ h.len <= heap'[h.ptr - Header].size
    <3>1. h \in held /\ h.ptr # f.ptr /\ h.ptr \in Nat
        BY <1>1, <2>1 DEF IInv, HeldOnce, TypeOK, Addr
    <3>2. h.ptr - Header # block
        BY <1>3, <3>1
    <3>3. /\ h.ptr - Header \in blocks /\ heap[h.ptr - Header].used = 1
          /\ h.len <= heap[h.ptr - Header].size
        BY <3>1 DEF IInv, UsedIsHeld
    <3>4. heap'[h.ptr - Header] = heap[h.ptr - Header]
        BY <1>4, <1>5, <3>2, <3>3
    <3>. QED
        BY <1>2, <3>3, <3>4
  <2>2. ASSUME NEW b \in blocks', heap'[b].used = 1
        PROVE  \E h \in held' : h.ptr = b + Header
    <3>1. b \in blocks /\ b # block /\ heap[b].used = 1
        BY <1>2, <1>4, <1>5, <2>2
    <3>2. PICK h \in held : h.ptr = b + Header
        BY <3>1 DEF IInv, UsedIsHeld
    <3>3. h # f
        BY <1>3, <1>4, <3>1, <3>2 DEF Addr
    <3>. QED
        BY <1>1, <3>2, <3>3
  <2>. QED
      BY <2>1, <2>2 DEF UsedIsHeld
<1>9. HeldOnce' /\ SearchInv' /\ MergeInv'
    BY <1>1, <1>2, <1>3, <1>5 DEF IInv, HeldOnce, SearchInv, MergeInv
<1>. QED
    BY <1>6, <1>7, <1>8, <1>9 DEF IInv

\* Merging takes the free block behind off the list, and its room becomes room
\* of the block that was freed (kmalloc.c:49-52).
LEMMA MergesPreserves == IInv /\ Merges => IInv'
<1>. SUFFICES ASSUME IInv, Merges PROVE IInv'
    OBVIOUS
<1>. USE HeapAssumption
<1>. DEFINE gone == heap[current].next
<1>0. /\ pc = "merge" /\ heap[current].next # Null /\ heap[gone].used = 0
      /\ heap' = [heap EXCEPT ![current].size = @ + Header + heap[gone].size,
                              ![current].next = heap[gone].next]
      /\ blocks' = blocks \ {gone}
      /\ UNCHANGED <<held, pc, current, size>>
    BY DEF Merges, Mergeable
<1>1. current \in blocks /\ heap[current].used = 0
    BY <1>0 DEF IInv, MergeInv
<1>2. gone = End(current) /\ gone \in blocks
    BY <1>0, <1>1 DEF IInv, HeapTiled
<1>3. \A b \in blocks : /\ b \in Nat /\ b \in Addr /\ heap[b].size \in Nat
                        /\ b < End(b) /\ End(b) \in Nat
    BY BlockFacts DEF IInv
<1>4. \A b, c \in blocks : b < c => End(b) <= c
    BY DEF IInv, HeapTiled
<1>5. current < gone /\ gone < End(gone) /\ gone # current
    BY <1>1, <1>2, <1>3
<1>6. heap \in [Addr -> Block] /\ heap[gone].next \in Addr \cup {Null}
    BY <1>2, <1>3 DEF IInv, TypeOK, Block
<1>7. /\ heap' \in [Addr -> Block]
      /\ heap'[current].size = heap[current].size + Header + heap[gone].size
      /\ heap'[current].next = heap[gone].next
      /\ heap'[current].used = 0
      /\ \A b \in Addr : b # current => heap'[b] = heap[b]
  <2>1. heap[current] \in Block
      BY <1>1, <1>3, <1>6
  <2>2. heap[current].size + Header + heap[gone].size \in Nat
      BY <1>1, <1>2, <1>3
  <2>. DEFINE grown == [heap EXCEPT ![current].size = @ + Header + heap[gone].size]
  <2>3. grown \in [Addr -> Block]
      BY <1>1, <1>3, <1>6, <2>1, <2>2 DEF Block
  <2>4. /\ grown[current].size = heap[current].size + Header + heap[gone].size
        /\ grown[current].used = 0
        /\ \A b \in Addr : b # current => grown[b] = heap[b]
      BY <1>1, <1>3, <1>6, <2>1 DEF Block
  <2>5. heap' = [grown EXCEPT ![current].next = heap[gone].next]
      BY <1>0
  <2>. HIDE DEF grown
  <2>6. heap' \in [Addr -> Block]
      BY <1>6, <2>3, <2>5 DEF Block
  <2>. QED
      BY <1>1, <1>3, <2>3, <2>4, <2>5, <2>6 DEF Block
<1>8. TypeOK'
    BY <1>0, <1>7 DEF IInv, TypeOK
<1>9. \A b \in blocks : End(b)' = IF b = current THEN End(gone) ELSE End(b)
  <2>1. \A b \in blocks : b # current => End(b)' = End(b)
      BY <1>3, <1>7 DEF End
  <2>2. current + Header + heap'[current].size = End(gone)
      BY <1>1, <1>2, <1>3, <1>7 DEF End
  <2>3. \A b \in blocks : b = current => End(b)' = End(gone)
      BY <2>2 DEF End
  <2>. QED
      BY <2>1, <2>3
<1>10. HeapTiled'
  <2>1. 0 \in blocks'
      BY <1>0, <1>1, <1>3, <1>5 DEF IInv, HeapTiled
  <2>2. ASSUME NEW b \in blocks'
        PROVE  IF heap'[b].next = Null THEN End(b)' = HeapSize
               ELSE heap'[b].next = End(b)' /\ End(b)' \in blocks'
    <3>1. CASE b = current
      <4>1. IF heap[gone].next = Null THEN End(gone) = HeapSize
            ELSE heap[gone].next = End(gone) /\ End(gone) \in blocks
          BY <1>2 DEF IInv, HeapTiled
      <4>2. End(gone) # gone
          BY <1>2, <1>3
      <4>3. heap'[b].next = heap[gone].next /\ End(b)' = End(gone)
          BY <1>1, <1>7, <1>9, <3>1
      <4>. QED
          BY <1>0, <4>1, <4>2, <4>3
    <3>2. CASE b # current
      <4>1. b \in blocks /\ b # gone /\ heap'[b] = heap[b] /\ End(b)' = End(b)
          BY <1>0, <1>3, <1>7, <1>9, <2>2, <3>2
      <4>2. IF heap[b].next = Null THEN End(b) = HeapSize
            ELSE heap[b].next = End(b) /\ End(b) \in blocks
          BY <4>1 DEF IInv, HeapTiled
      <4>3. End(b) # gone
        <5>1. CASE b < current
            BY <1>1, <1>2, <1>3, <1>4, <1>5, <4>1, <5>1
        <5>2. CASE current < b
          <6>1. gone <= b
              BY <1>1, <1>2, <1>4, <4>1, <5>2
          <6>. QED
              BY <1>2, <1>3, <4>1, <6>1
        <5>. QED
            BY <1>1, <1>3, <3>2, <4>1, <5>1, <5>2
      <4>. QED
          BY <1>0, <4>1, <4>2, <4>3
    <3>. QED
        BY <3>1, <3>2
  <2>3. ASSUME NEW b \in blocks', NEW c \in blocks', b < c
        PROVE  End(b)' <= c
    <3>1. b \in blocks /\ c \in blocks /\ c # gone
        BY <1>0
    <3>2. CASE b = current
      <4>1. gone <= c
          BY <1>1, <1>2, <1>4, <2>3, <3>1, <3>2
      <4>2. gone < c
          BY <1>2, <1>3, <3>1, <4>1
      <4>3. End(gone) <= c /\ End(b)' = End(gone)
          BY <1>2, <1>4, <1>9, <3>1, <3>2, <4>2
      <4>. QED
          BY <4>3
    <3>3. CASE b # current
        BY <1>4, <1>9, <2>3, <3>1, <3>3
    <3>. QED
        BY <3>2, <3>3
  <2>. QED
      BY <2>1, <2>2, <2>3 DEF HeapTiled
<1>11. UsedIsHeld'
  <2>1. ASSUME NEW h \in held'
        PROVE  /\ h.ptr - Header \in blocks' /\ heap'[h.ptr - Header].used = 1
               /\ h.len <= heap'[h.ptr - Header].size
    <3>1. /\ h.ptr - Header \in blocks /\ heap[h.ptr - Header].used = 1
          /\ h.len <= heap[h.ptr - Header].size
        BY <1>0, <2>1 DEF IInv, UsedIsHeld
    <3>2. h.ptr - Header # current /\ h.ptr - Header # gone
        BY <1>0, <1>1, <3>1
    <3>3. heap'[h.ptr - Header] = heap[h.ptr - Header]
        BY <1>3, <1>7, <3>1, <3>2
    <3>. QED
        BY <1>0, <3>1, <3>2, <3>3
  <2>2. ASSUME NEW b \in blocks', heap'[b].used = 1
        PROVE  \E h \in held' : h.ptr = b + Header
    <3>1. b \in blocks /\ b # current /\ heap'[b] = heap[b]
        BY <1>0, <1>3, <1>7, <2>2
    <3>. QED
        BY <1>0, <2>2, <3>1 DEF IInv, UsedIsHeld
  <2>. QED
      BY <2>1, <2>2 DEF UsedIsHeld
<1>12. HeldOnce' /\ SearchInv' /\ MergeInv'
    BY <1>0, <1>1, <1>5, <1>7 DEF IInv, HeldOnce, SearchInv, MergeInv
<1>. QED
    BY <1>8, <1>10, <1>11, <1>12 DEF IInv

-----------------------------------------------------------------------------
\* The inductive invariant holds in every reachable state of the heap.
THEOREM IInvInvariant == Spec => []IInv
<1>1. IInv /\ [Next]_vars => IInv'
  <2>. SUFFICES ASSUME IInv, [Next]_vars PROVE IInv'
      OBVIOUS
  <2>1. CASE MallocBegins \/ SearchPasses \/ SearchFails \/ MergeDone
      BY <2>1, PointerStepsPreserve
  <2>2. CASE TakesWhole
      BY <2>2, TakesWholePreserves
  <2>3. CASE Splits
      BY <2>3, SplitsPreserves
  <2>4. CASE FreeBegins
      BY <2>4, FreeBeginsPreserves
  <2>5. CASE Merges
      BY <2>5, MergesPreserves
  <2>6. CASE UNCHANGED vars
      BY <2>6 DEF vars, IInv, TypeOK, HeapTiled, UsedIsHeld, HeldOnce, SearchInv,
                  MergeInv, End
  <2>. QED
      BY <2>1, <2>2, <2>3, <2>4, <2>5, <2>6 DEF Next, Returning
<1>. QED
    BY <1>1, InitInv, PTL DEF Spec

\* Headers and locals keep their types, whatever callers ask for (kmalloc.h).
THEOREM TypeCorrect == Spec => []TypeOK
    BY IInvInvariant, PTL DEF IInv

\* No split and no merge leaves a gap or an overlap on the heap
\* (kmalloc.c:32-37, 50-51).
THEOREM HeapStaysTiled == Spec => []HeapTiled
    BY IInvInvariant, PTL DEF IInv

\* Used blocks are exactly the blocks somebody holds (kmalloc.c:39, 60).
THEOREM UsedBlocksAreHeld == Spec => []UsedIsHeld
    BY IInvInvariant, PTL DEF IInv

\* What somebody holds starts inside the heap and is not empty (kmalloc.c:40).
LEMMA HeldType ==
    ASSUME TypeOK, NEW h \in held
    PROVE  h.ptr \in Nat /\ h.ptr < HeapSize /\ h.len \in Nat /\ 1 <= h.len
<1>1. h \in [ptr : Addr, len : Requests]
    BY DEF TypeOK
<1>2. h.ptr \in Addr /\ h.len \in Requests
    BY <1>1
<1>3. h.ptr \in Nat /\ h.ptr < HeapSize
    BY <1>2, HeapAssumption DEF Addr
<1>4. h.len \in Nat \ {0}
    BY <1>2, HeapAssumption
<1>. QED
    BY <1>3, <1>4

\* Areas of used blocks on a tiled heap are apart (kmalloc.c:29-41).
LEMMA InvHeldApart == IInv => HeldApart
<1>. SUFFICES ASSUME IInv, NEW h \in held
              PROVE  /\ h.ptr + h.len <= HeapSize
                     /\ \A g \in held :
                           g = h \/ g.ptr + g.len <= h.ptr \/ h.ptr + h.len <= g.ptr
                     /\ \A b \in blocks : b + Header <= h.ptr \/ h.ptr + h.len <= b
    BY DEF HeldApart
<1>. USE HeapAssumption
<1>1. \A g \in held : /\ g.ptr - Header \in blocks /\ g.ptr \in Nat /\ g.len \in Nat
                      /\ g.ptr + g.len <= End(g.ptr - Header)
  <2>. SUFFICES ASSUME NEW g \in held
                PROVE  /\ g.ptr - Header \in blocks /\ g.ptr \in Nat /\ g.len \in Nat
                       /\ g.ptr + g.len <= End(g.ptr - Header)
      OBVIOUS
  <2>1. g.ptr - Header \in blocks /\ g.len <= heap[g.ptr - Header].size
      BY DEF IInv, UsedIsHeld
  <2>2. g.ptr \in Nat /\ g.len \in Nat
      BY HeldType DEF IInv
  <2>3. heap[g.ptr - Header].size \in Nat
      BY <2>1, BlockFacts DEF IInv
  <2>. QED
      BY <2>1, <2>2, <2>3 DEF End
<1>2. \A b \in blocks : /\ b \in Nat /\ End(b) \in Nat /\ End(b) <= HeapSize
                        /\ b + Header <= End(b)
    BY BlockFacts DEF IInv, End
<1>3. \A b, c \in blocks : b < c => End(b) <= c
    BY DEF IInv, HeapTiled
<1>. DEFINE c == h.ptr - Header
<1>4. c \in blocks /\ h.ptr + h.len <= End(c) /\ h.ptr = c + Header
      /\ h.ptr \in Nat /\ h.len \in Nat /\ c \in Nat /\ End(c) \in Nat
    BY <1>1, <1>2
<1>5. h.ptr + h.len <= HeapSize
    BY <1>2, <1>4
<1>6. ASSUME NEW b \in blocks
      PROVE  /\ b + Header <= h.ptr \/ h.ptr + h.len <= b
             /\ b < c => End(b) <= h.ptr
    BY <1>2, <1>3, <1>4
<1>7. ASSUME NEW g \in held, g # h
      PROVE  g.ptr + g.len <= h.ptr \/ h.ptr + h.len <= g.ptr
  <2>. DEFINE b == g.ptr - Header
  <2>1. b \in blocks /\ g.ptr + g.len <= End(b) /\ g.ptr \in Nat /\ g.len \in Nat
        /\ g.ptr = b + Header /\ b \in Nat /\ End(b) \in Nat
      BY <1>1, <1>2
  <2>2. g.ptr # h.ptr
      BY <1>7 DEF IInv, HeldOnce
  <2>3. b < c \/ c < b
      BY <1>4, <2>1, <2>2
  <2>4. CASE b < c
      BY <1>4, <1>6, <2>1, <2>4
  <2>5. CASE c < b
      BY <1>3, <1>4, <2>1, <2>5
  <2>. QED
      BY <2>3, <2>4, <2>5
<1>. QED
    BY <1>5, <1>6, <1>7

\* Areas that callers hold never meet each other or a header (kmalloc.c:29-41).
THEOREM AreasApart == Spec => []HeldApart
    BY IInvInvariant, InvHeldApart, PTL

\* kmalloc gives up only at the end of a list without a block that would do
\* (kmalloc.c:27-44).
THEOREM NullMeansFull == Spec => NullOnlyIfNothingFits
<1>1. ASSUME IInv, Next, pc = "search", pc' = "idle", held' = held
      PROVE  \A b \in blocks : heap[b].used = 1 \/ heap[b].size < size
  <2>1. current = Null
    <3>1. SearchFails \/ TakesWhole \/ Splits
        BY <1>1 DEF Next, Returning, MallocBegins, FreeBegins, SearchPasses, Merges,
                    MergeDone
    <3>2. ASSUME TakesWhole \/ Splits PROVE FALSE
      <4>1. held' = held \cup {Handed} /\ current # Null /\ Fits
          BY <3>2 DEF TakesWhole, Splits
      <4>2. \A h \in held : h.ptr # current + Header
          BY <1>1, <4>1, FoundFacts
      <4>3. Handed \in held /\ Handed.ptr = current + Header
          BY <1>1, <4>1 DEF Handed
      <4>. QED
          BY <4>2, <4>3
    <3>. QED
        BY <3>1, <3>2 DEF SearchFails
  <2>2. \A b \in blocks : b < current
      BY <1>1, <2>1, BlockFacts DEF IInv, Null
  <2>. QED
      BY <1>1, <2>2 DEF IInv, SearchInv
<1>2. IInv /\ [Next]_vars => [FailsForGood]_vars
    BY <1>1 DEF FailsForGood
<1>. QED
    BY <1>2, IInvInvariant, PTL DEF Spec, NullOnlyIfNothingFits

-----------------------------------------------------------------------------
(***************************************************************************)
(* The heap implements Allocator.                                          *)
(***************************************************************************)
AreaOf(h) == [first |-> h.ptr, last |-> h.ptr + h.len - 1]
Areas == {AreaOf(h) : h \in held}

\* Every area somebody holds is an area of the heap, and one area belongs to one
\* holder only (kmalloc.c:40).
LEMMA AreaFacts ==
    ASSUME IInv, NEW h \in held
    PROVE  /\ AreaOf(h) \in Alloc!Area /\ AreaOf(h).first <= AreaOf(h).last
           /\ h.ptr \in Nat /\ h.len \in Nat
<1>. USE HeapAssumption
<1>1. h.ptr \in Nat /\ h.ptr < HeapSize /\ h.len \in Nat /\ 1 <= h.len
    BY HeldType DEF IInv
<1>2. h.ptr + h.len <= HeapSize
    BY InvHeldApart DEF HeldApart
<1>3. h.ptr \in 0 .. HeapSize - 1 /\ h.ptr + h.len - 1 \in 0 .. HeapSize - 1
      /\ h.ptr <= h.ptr + h.len - 1
    BY <1>1, <1>2
<1>. QED
    BY <1>1, <1>3 DEF AreaOf, Alloc!Area

\* kmalloc hands out a fresh area, apart from all the others; every behaviour of
\* the heap is one of an allocator (kmalloc.h:20-21).
THEOREM Refinement == Spec => IsAllocator
<1>1. Init => Alloc!Init
    BY DEF Init, Alloc!Init
<1>2. IInv /\ IInv' /\ [Next]_vars => [Alloc!Next]_Areas
  <2>. SUFFICES ASSUME IInv, IInv', [Next]_vars
                PROVE  Alloc!Next \/ Areas' = Areas
      OBVIOUS
  <2>1. CASE TakesWhole \/ Splits
    <3>1. held' = held \cup {Handed} /\ current # Null /\ Fits /\ pc = "search"
        BY <2>1 DEF TakesWhole, Splits
    <3>2. \A h \in held : h.ptr # Handed.ptr
        BY <3>1, FoundFacts DEF Handed
    <3>3. Areas' = Areas \cup {AreaOf(Handed)}
        BY <3>1 DEF Areas
    <3>4. /\ AreaOf(Handed) \in Alloc!Area /\ AreaOf(Handed).first <= AreaOf(Handed).last
          /\ Handed.ptr \in Nat /\ Handed.len \in Nat
      <4>1. Handed.ptr \in Nat /\ Handed.len \in Nat /\ 1 <= Handed.len
            /\ Handed.ptr < HeapSize
          BY <3>1, FoundFacts, HeapAssumption DEF Handed, Addr
      <4>2. Handed \in held' /\ HeldApart'
        <5>1. IInv' => HeldApart'
            BY InvHeldApart, PTL
        <5>. QED
            BY <3>1, <5>1
      <4>3. Handed.ptr + Handed.len <= HeapSize
          BY <4>2 DEF HeldApart
      <4>4. Handed.ptr \in 0 .. HeapSize - 1 /\ Handed.ptr + Handed.len - 1 \in 0 .. HeapSize - 1
            /\ Handed.ptr <= Handed.ptr + Handed.len - 1
          BY <4>1, <4>3, HeapAssumption
      <4>. QED
          BY <4>1, <4>4 DEF AreaOf, Alloc!Area
    <3>5. ASSUME NEW h \in held PROVE Alloc!Apart(AreaOf(Handed), AreaOf(h))
      <4>1. IInv' => HeldApart'
          BY InvHeldApart, PTL
      <4>2. Handed \in held' /\ h \in held' /\ h # Handed
          BY <3>1, <3>2
      <4>3. h.ptr + h.len <= Handed.ptr \/ Handed.ptr + Handed.len <= h.ptr
          BY <4>1, <4>2 DEF HeldApart
      <4>4. h.ptr \in Nat /\ h.len \in Nat
          BY AreaFacts
      <4>. QED
          BY <3>4, <4>3, <4>4 DEF Alloc!Apart, AreaOf
    <3>6. Alloc!Alloc
        BY <3>3, <3>4, <3>5 DEF Alloc!Alloc, Areas, AreaOf
    <3>. QED
        BY <3>6 DEF Alloc!Next
  <2>2. CASE FreeBegins
    <3>1. PICK f \in held : held' = held \ {f}
        BY <2>2 DEF FreeBegins
    <3>2. \A h \in held : AreaOf(h) = AreaOf(f) => h = f
        BY DEF AreaOf, IInv, HeldOnce
    <3>3. Areas' = Areas \ {AreaOf(f)} /\ AreaOf(f) \in Areas
        BY <3>1, <3>2 DEF Areas
    <3>. QED
        BY <3>3 DEF Alloc!Next, Alloc!Free, Areas, AreaOf
  <2>3. CASE held' = held
      BY <2>3 DEF Areas
  <2>. QED
      BY <2>1, <2>2, <2>3 DEF Next, Returning, MallocBegins, SearchPasses, SearchFails,
                              Merges, MergeDone, vars
<1>. QED
    BY <1>1, <1>2, IInvInvariant, PTL DEF Spec, IsAllocator, Alloc!Spec, Areas, AreaOf

-----------------------------------------------------------------------------
(***************************************************************************)
(* Calls that are interrupted anywhere, also by one another.               *)
(***************************************************************************)
Searching == {"isFree", "isLarge", "isTooLarge", "advance", "mark"}
Splitting == {"neuSize", "neuNext", "curSize", "curNext"}
Growing == {"loadSize", "addSize", "storeSize", "loadNext", "storeNext"}
Releasing == {"free", "hasNext", "nextFree"} \cup Growing
Victim == Pcb(1)

CallsTypeOK ==
    /\ heap \in [Addr -> Block]
    /\ held \subseteq [ptr : Addr, len : Requests]
    /\ pc \in [Task -> {"idle", "done"} \cup Searching \cup Splitting \cup Releasing]
    /\ pc["shell"] # "done" /\ pc["reaper"] \in {"idle", "done"} \cup Releasing
    /\ at \in [Task -> Addr \cup {Null}] /\ at["reaper"] = Victim
    /\ size \in Requests \cup {0} /\ reg \in [Task -> Int]

\* The blocks in B lie one behind the other from heap_start to the end of the heap.
Tiles(B) ==
    /\ B \subseteq Addr /\ 0 \in B
    /\ \A b \in B : End(b) \in B \cup {HeapSize}
    /\ \A b, c \in B : b < c => End(b) <= c

\* The block whose size has been written already and whose next has not.
Relinked(b) == at["shell"] = b /\ pc["shell"] \in {"curNext", "loadNext", "storeNext"}

Chained(B) == \A b \in B : heap[b].next = End(b) \/ Relinked(b)

\* Each area in use has a block to itself.
Owned(B) ==
    /\ \A g \in InUse : /\ g.ptr - Header \in B /\ heap[g.ptr - Header].used = 1
                        /\ g.len <= heap[g.ptr - Header].size
    /\ \A g, h \in InUse : g.ptr = h.ptr => g = h
    /\ \A g \in held, h \in Pcbs : g.ptr # h.ptr

\* kmalloc is at a block of the list, and what it saw of it is still so.
Searches(B) ==
    LET c == at["shell"]
        l == pc["shell"]
    IN  /\ l = "isFree" => c \in B \cup {Null}
        /\ l \in (Searching \cup Splitting) \ {"isFree"} => c \in B
        /\ l \in {"isLarge", "isTooLarge", "mark"} \cup Splitting => heap[c].used = 0
        /\ l \in {"isTooLarge", "mark"} \cup Splitting => heap[c].size >= size /\ size \in Requests
        /\ l \in {"isFree", "isLarge", "advance"} => size \in Requests
        /\ l \in {"neuSize", "neuNext", "curSize"} => heap[c].size > size + Header
        /\ l \in {"neuNext", "curSize"} =>
               heap[Neu].size = heap[c].size - size - Header /\ heap[Neu].used = 0
        /\ l = "curSize" => heap[Neu].next = heap[c].next
        /\ l = "curNext" => heap[c].size = size /\ Neu \in B

\* So is the shell's kfree, and its block belongs to nobody any more.
Releases(B) ==
    LET c == at["shell"]
        l == pc["shell"]
        gone == heap[c].next
    IN  /\ l \in Releasing => c \in B /\ \A g \in InUse : g.ptr # c + Header
        /\ l \in Releasing \ {"free"} => heap[c].used = 0
        /\ l \in {"nextFree", "loadSize", "addSize", "storeSize", "loadNext"} => gone # Null
        /\ l \in {"loadSize", "addSize", "storeSize"} => heap[gone].used = 0
        /\ l = "addSize" => reg["shell"] = heap[c].size
        /\ l = "storeSize" => reg["shell"] = heap[c].size + Header + heap[gone].size
        /\ l = "loadNext" => heap[gone].next = End(c)
        /\ l = "storeNext" => reg["shell"] = End(c)

\* The reaper's kfree has only to find the victim's block where it was, with a PCB in
\* use behind it: then it merges nothing, and what the shell does to the block
\* meanwhile, but for giving it another next, does no harm. Nor can the block be
\* merged into the one before it, which is the shell's own PCB.
Waits(B) ==
    /\ pc["reaper"] \in {"idle", "free", "hasNext", "nextFree", "done"}
    /\ heap[0].size = PcbSize
    /\ pc["reaper"] # "done" => Victim \in B /\ heap[Victim].next = Pcb(2)
    /\ pc["reaper"] \in {"idle", "free"} =>
           /\ heap[Victim].used = 1
           /\ \A h \in held : h.ptr # Victim + Header
           /\ pc["shell"] \in Releasing => at["shell"] # Victim
    /\ pc["reaper"] # "done" /\ pc["shell"] \in Growing => at["shell"] # Victim

Whole(B) ==
    Tiles(B) /\ Chained(B) /\ Owned(B) /\ Searches(B) /\ Releases(B) /\ Waits(B)

\* There are such blocks, at every access: between the two stores of a split or a
\* merge, one next pointer is behind the times.
CallsInv == CallsTypeOK /\ \E B \in SUBSET Addr : Whole(B)

\* What the types say of a block.
LEMMA TileFacts ==
    ASSUME CallsTypeOK, NEW B, Tiles(B), NEW b \in B
    PROVE  /\ b \in Nat /\ b \in Addr /\ b < HeapSize
           /\ heap[b] \in Block /\ heap[b].size \in Nat /\ heap[b].used \in {0, 1}
           /\ heap[b].next \in Addr \cup {Null}
           /\ End(b) \in Nat /\ b + Header <= End(b) /\ b < End(b) /\ End(b) <= HeapSize
<1>. USE HeapAssumption
<1>1. b \in Addr /\ heap[b] \in Block
    BY DEF CallsTypeOK, Tiles
<1>2. b \in Nat /\ b < HeapSize /\ heap[b].size \in Nat /\ heap[b].used \in {0, 1}
      /\ heap[b].next \in Addr \cup {Null}
    BY <1>1 DEF Addr, Block
<1>3. End(b) = HeapSize \/ End(b) \in Addr
    BY DEF Tiles
<1>. QED
    BY <1>1, <1>2, <1>3 DEF End, Addr

\* At first: the blocks of three PCBs and the rest (kernel.c:87-104).
LEMMA CallsInvInit == PreemptedInit => CallsInv
<1>. SUFFICES ASSUME PreemptedInit PROVE CallsInv
    OBVIOUS
<1>. USE HeapAssumption, SizesAssumption
<1>1. PICK w : w = Header + PcbSize
    OBVIOUS
<1>2. /\ w \in Nat /\ w > Header /\ w = Header + PcbSize /\ 3 * w + Header < HeapSize /\ w = PcbSize + Header
      /\ Pcb(0) = 0 /\ Pcb(1) = w /\ Pcb(2) = 2 * w /\ Rest = 3 * w
    BY <1>1 DEF Pcb, Rest
<1>3. 0 \in Addr /\ w \in Addr /\ 2 * w \in Addr /\ 3 * w \in Addr /\ HeapSize - 3 * w - Header \in Nat
    BY <1>2 DEF Addr
<1>. DEFINE B == {0, w, 2 * w, 3 * w}
<1>4. heap = [a \in Addr |->
         IF a \in {0, w, 2 * w}
         THEN [size |-> PcbSize, used |-> 1, next |-> a + w]
         ELSE IF a = 3 * w
              THEN [size |-> HeapSize - 3 * w - Header, used |-> 0, next |-> Null]
              ELSE [size |-> 0, used |-> 1, next |-> Null]]
    <2>1. \A a \in Addr : a + Header + PcbSize = a + w
        BY <1>2 DEF Addr
    <2>. QED
        BY <1>2, <2>1 DEF PreemptedInit
<1>5. /\ heap[0] = [size |-> PcbSize, used |-> 1, next |-> w]
      /\ heap[w] = [size |-> PcbSize, used |-> 1, next |-> 2 * w]
      /\ heap[2 * w] = [size |-> PcbSize, used |-> 1, next |-> 3 * w]
      /\ heap[3 * w] = [size |-> HeapSize - 3 * w - Header, used |-> 0, next |-> HeapSize]
    BY <1>2, <1>3, <1>4 DEF Null
<1>6. End(0) = w /\ End(w) = 2 * w /\ End(2 * w) = 3 * w /\ End(3 * w) = HeapSize
    BY <1>2, <1>3, <1>5 DEF End
<1>7. \A a \in Addr : a \in {0, w, 2 * w} => a + w \in Addr
    BY <1>2, <1>3
<1>8. heap \in [Addr -> Block]
    BY <1>2, <1>3, <1>4, <1>7 DEF Block
<1>9. CallsTypeOK
    <2>1. at \in [Task -> Addr \cup {Null}] /\ at["reaper"] = Victim
        BY <1>2, <1>3 DEF PreemptedInit, Task, Victim
    <2>2. /\ held \subseteq [ptr : Addr, len : Requests]
          /\ pc \in [Task -> {"idle", "done"} \cup Searching \cup Splitting \cup Releasing]
          /\ pc["shell"] = "idle" /\ pc["reaper"] = "idle"
          /\ size \in Requests \cup {0} /\ reg \in [Task -> Int]
        BY DEF PreemptedInit, Task
    <2>. QED
        BY <1>8, <2>1, <2>2 DEF CallsTypeOK
<1>10. pc["shell"] = "idle" /\ pc["reaper"] = "idle" /\ held = {}
    BY DEF PreemptedInit, Task
<1>11. Tiles(B)
    BY <1>2, <1>3, <1>6 DEF Tiles
<1>12. Chained(B)
    BY <1>5, <1>6 DEF Chained
<1>13. Owned(B)
    <2>1. InUse = {[ptr |-> Header, len |-> PcbSize], [ptr |-> w + Header, len |-> PcbSize],
                   [ptr |-> 2 * w + Header, len |-> PcbSize]}
        BY <1>2, <1>10 DEF InUse, Pcbs, Area
    <2>2. \A g \in InUse : /\ g.ptr - Header \in {0, w, 2 * w} /\ g.len = PcbSize
                           /\ g = [ptr |-> g.ptr, len |-> PcbSize]
        BY <1>2, <2>1
    <2>3. \A b \in {0, w, 2 * w} : heap[b].used = 1 /\ heap[b].size = PcbSize
        BY <1>5
    <2>4. \A g \in InUse : PcbSize <= heap[g.ptr - Header].size
        BY <2>2, <2>3
    <2>5. \A g \in InUse : g.len <= heap[g.ptr - Header].size /\ heap[g.ptr - Header].used = 1
                           /\ g.ptr - Header \in B
        BY <2>2, <2>3, <2>4
    <2>6. \A g, h \in InUse : g.ptr = h.ptr => g = h
        BY <2>2
    <2>. QED
        BY <1>10, <2>5, <2>6 DEF Owned
<1>14. Searches(B) /\ Releases(B)
    BY <1>10 DEF Searches, Releases, Searching, Splitting, Releasing, Growing
<1>16. Waits(B)
    BY <1>2, <1>5, <1>10 DEF Waits, Victim, Releasing, Growing
<1>15. B \in SUBSET Addr
    BY <1>3
<1>. QED
    BY <1>9, <1>11, <1>12, <1>13, <1>14, <1>15, <1>16 DEF CallsInv, Whole

\* The blocks of the PCBs that stay: the shell's at the start of the heap, the
\* victim's behind it, and the reaper's (kernel.c:87-89).
LEMMA PcbFacts ==
    ASSUME CallsTypeOK, NEW B, Whole(B)
    PROVE  /\ Victim \in Nat /\ Victim # 0 /\ at["reaper"] = Victim
           /\ Victim + Header # Area(0).ptr /\ Victim + Header # Area(2).ptr
           /\ 0 \in B /\ 0 \in Addr /\ heap[0].used = 1 /\ End(0) = Victim
           /\ Pcb(2) \in B /\ Pcb(2) \in Addr /\ heap[Pcb(2)].used = 1 /\ Pcb(2) # Null
           /\ Area(0) \in InUse /\ Area(2) \in InUse /\ Area(0).ptr = 0 + Header
<1>1. PICK w \in Nat : w = Header + PcbSize /\ w > 0
    BY SizesAssumption, HeapAssumption
<1>2. Pcb(0) = 0 /\ Pcb(1) = w /\ Pcb(2) = 2 * w
    BY <1>1 DEF Pcb
<1>3. Area(0).ptr = Header /\ Area(2).ptr = 2 * w + Header
    BY <1>2, HeapAssumption DEF Area
<1>4. Area(0) \in InUse /\ Area(2) \in InUse
    BY DEF InUse, Pcbs
<1>5. Area(0).ptr - Header = 0 /\ Area(2).ptr - Header = 2 * w /\ w + Header # Header
      /\ w + Header # 2 * w + Header /\ 0 + Header = Header
    BY <1>1, <1>3, HeapAssumption
<1>6. 0 \in B /\ heap[0].used = 1 /\ 2 * w \in B /\ heap[2 * w].used = 1
    BY <1>4, <1>5 DEF Whole, Owned
<1>7. End(0) = w
    BY <1>1, HeapAssumption, SizesAssumption DEF Whole, Waits, End
<1>8. B \subseteq Addr
    BY DEF Whole, Tiles
<1>9. 2 * w # Null
    BY <1>6, <1>8 DEF Addr, Null
<1>. QED
    BY <1>1, <1>2, <1>3, <1>4, <1>5, <1>6, <1>7, <1>8, <1>9 DEF Victim, CallsTypeOK

\* What a step of the shell must leave for the reaper's kfree.
LEMMA WaitsKeep ==
    ASSUME NEW B, NEW D, Waits(B), pc'["reaper"] = pc["reaper"],
           heap'[0].size = heap[0].size,
           pc["reaper"] # "done" => Victim \in D /\ heap'[Victim].next = heap[Victim].next,
           pc["reaper"] \in {"idle", "free"} =>
               /\ heap'[Victim].used = heap[Victim].used
               /\ \A h \in held' : h.ptr # Victim + Header
               /\ pc'["shell"] \in Releasing => at'["shell"] # Victim,
           pc["reaper"] # "done" /\ pc'["shell"] \in Growing => at'["shell"] # Victim
    PROVE  Waits(D)'
    BY DEF Waits, Victim

\* What a step is that reads the headers only (kmalloc.c:27-30, 49).
Looks == /\ UNCHANGED <<heap, held, size>>
         /\ (pc'["reaper"] = "idle" <=> pc["reaper"] = "idle")

\* Reading changes no block and gives none away.
LEMMA LooksKeep ==
    ASSUME NEW B, Tiles(B), Owned(B), Looks
    PROVE  Tiles(B)' /\ Owned(B)' /\ InUse' = InUse /\ \A b \in B : End(b)' = End(b)
<1>1. InUse' = InUse /\ Pcbs' = Pcbs
    BY DEF Looks, InUse, Pcbs
<1>2. \A b \in B : End(b)' = End(b)
    BY DEF Looks, End
<1>3. Tiles(B)'
    BY DEF Looks, Tiles, End
<1>4. Owned(B)'
    BY <1>1 DEF Looks, Owned
<1>. QED
    BY <1>1, <1>2, <1>3, <1>4

\* The timer between two accesses, whoever it lets go on (idt.c:242-246).
LEMMA PreemptKeeps ==
    CallsInv /\ (Preempt \/ UNCHANGED preemptedVars) => CallsInv'
<1>. SUFFICES ASSUME CallsInv, Preempt \/ UNCHANGED preemptedVars PROVE CallsInv'
    OBVIOUS
<1>1. UNCHANGED <<heap, held, pc, at, size, reg>>
    BY DEF Preempt, preemptedVars
<1>2. PICK B \in SUBSET Addr : Whole(B)
    BY DEF CallsInv
<1>3. Looks
    BY <1>1 DEF Looks
<1>4. Tiles(B)' /\ Owned(B)' /\ InUse' = InUse /\ \A b \in B : End(b)' = End(b)
    BY <1>2, <1>3, LooksKeep DEF Whole
<1>5. CallsTypeOK'
    BY <1>1 DEF CallsInv, CallsTypeOK
<1>6. Chained(B)'
    BY <1>1, <1>2 DEF Whole, Chained, Relinked, End
<1>7. Searches(B)'
    BY <1>1, <1>2 DEF Whole, Searches, Neu
<1>8. Releases(B)' /\ Waits(B)'
    BY <1>1, <1>2, <1>4 DEF Whole, Releases, Waits, Victim, End
<1>. QED
    BY <1>4, <1>5, <1>6, <1>7, <1>8 DEF CallsInv, Whole

\* kmalloc starts at the first block (kmalloc.c:24-26).
LEMMA MallocCalledKeeps == CallsInv /\ MallocCalled => CallsInv'
<1>. SUFFICES ASSUME CallsInv, MallocCalled PROVE CallsInv'
    OBVIOUS
<1>. USE HeapAssumption DEF Task
<1>1. /\ pc["shell"] = "idle" /\ size' \in Requests /\ UNCHANGED <<heap, held, reg>>
      /\ at' = [at EXCEPT !["shell"] = 0] /\ pc' = [pc EXCEPT !["shell"] = "isFree"]
    BY DEF MallocCalled, At, Goto
<1>2. PICK B \in SUBSET Addr : Whole(B)
    BY DEF CallsInv
<1>3. /\ pc'["shell"] = "isFree" /\ at'["shell"] = 0 /\ pc'["reaper"] = pc["reaper"]
      /\ at'["reaper"] = at["reaper"] /\ pc' \in [Task -> {"idle", "done"} \cup Searching \cup Splitting \cup Releasing]
    BY <1>1 DEF CallsInv, CallsTypeOK, Searching
<1>4. Tiles(B)' /\ Owned(B)'
    <2>1. InUse' = InUse /\ Pcbs' = Pcbs
        BY <1>1, <1>3 DEF InUse, Pcbs
    <2>. QED
        BY <1>1, <1>2, <2>1 DEF Whole, Tiles, Owned, End
<1>6. CallsTypeOK'
    BY <1>1, <1>3 DEF CallsInv, CallsTypeOK, Addr
<1>7. Chained(B)'
    BY <1>1, <1>2, <1>3 DEF Whole, Chained, Relinked, End
<1>8. Searches(B)'
    BY <1>1, <1>2, <1>3 DEF Whole, Searches, Searching, Splitting, Tiles
<1>9. Releases(B)' /\ Waits(B)'
    <2>1. pc'["shell"] \notin Releasing /\ pc'["shell"] \notin Growing
        BY <1>3 DEF Releasing, Growing
    <2>2. Releases(B)'
        BY <2>1 DEF Releases, Releasing, Growing
    <2>3. Waits(B)'
        BY <1>1, <1>2, <1>3, <2>1, WaitsKeep DEF Whole, Waits
    <2>. QED
        BY <2>2, <2>3
<1>. QED
    BY <1>4, <1>6, <1>7, <1>8, <1>9 DEF CallsInv, Whole

\* The tests of the search and its way along next (kmalloc.c:27-30, 42).
LEMMA SearchKeeps ==
    CallsInv /\ (LooksIfFree \/ LooksIfLarge \/ Advances \/ LooksIfTooLarge) => CallsInv'
<1>. SUFFICES ASSUME CallsInv, LooksIfFree \/ LooksIfLarge \/ Advances \/ LooksIfTooLarge
              PROVE  CallsInv'
    OBVIOUS
<1>. USE HeapAssumption DEF Task
<1>. DEFINE c == at["shell"]
<1>0. CallsTypeOK
    BY DEF CallsInv
<1>1. PICK B \in SUBSET Addr : Whole(B)
    BY DEF CallsInv
<1>2. PICK l \in Searching \cup Splitting \cup {"idle"} : pc' = [pc EXCEPT !["shell"] = l]
    BY DEF LooksIfFree, LooksIfLarge, Advances, LooksIfTooLarge, Goto, Searching, Splitting
<1>3. /\ UNCHANGED <<heap, held, size, reg>> /\ pc["shell"] \in Searching
      /\ pc["shell"] # "advance" => at' = at
    BY DEF LooksIfFree, LooksIfLarge, Advances, LooksIfTooLarge, At, Searching
<1>4. pc'["shell"] = l /\ pc'["reaper"] = pc["reaper"]
    BY <1>0, <1>2 DEF CallsTypeOK
<1>5. pc' \in [Task -> {"idle", "done"} \cup Searching \cup Splitting \cup Releasing]
    BY <1>0, <1>2 DEF CallsTypeOK
<1>6. Looks
    BY <1>3, <1>4 DEF Looks
<1>7. Tiles(B)' /\ Owned(B)' /\ InUse' = InUse /\ \A b \in B : End(b)' = End(b)
    BY <1>1, <1>6, LooksKeep DEF Whole
<1>9. Releases(B)' /\ Waits(B)'
    <2>1. pc'["shell"] \notin Releasing /\ pc'["shell"] \notin Growing
        BY <1>4 DEF Searching, Splitting, Releasing, Growing
    <2>2. Releases(B)'
        BY <2>1 DEF Releases, Releasing, Growing
    <2>3. Waits(B)'
        BY <1>1, <1>3, <1>4, <2>1, WaitsKeep DEF Whole, Waits
    <2>. QED
        BY <2>2, <2>3
<1>10. \A b \in B : heap[b].next = End(b)
    BY <1>1, <1>3 DEF Whole, Chained, Relinked, Searching
<1>11. Chained(B)'
    BY <1>3, <1>7, <1>10 DEF Chained
<1>12. /\ pc["shell"] # "isFree" => c \in B
       /\ pc["shell"] = "isFree" => c \in B \cup {Null}
       /\ pc["shell"] \in {"isLarge", "isTooLarge"} => heap[c].used = 0
       /\ pc["shell"] = "isTooLarge" => heap[c].size >= size
       /\ size \in Requests
    BY <1>1, <1>3 DEF Whole, Searches, Searching, Splitting
<1>13. c \in B => heap[c].size \in Nat /\ heap[c].used \in {0, 1}
    BY <1>0, <1>1, TileFacts DEF Whole
<1>14. CASE Advances
    <2>1. l = "isFree" /\ c \in B /\ at' = [at EXCEPT !["shell"] = heap[c].next]
        BY <1>4, <1>12, <1>14, <1>0 DEF Advances, At, Goto, Mine, CallsTypeOK
    <2>2. at'["shell"] \in B \cup {Null} /\ at'["reaper"] = at["reaper"]
        BY <1>0, <1>1, <1>10, <2>1 DEF Whole, Tiles, Null, CallsTypeOK
    <2>3. at' \in [Task -> Addr \cup {Null}]
        BY <1>0, <1>1, <2>1, TileFacts DEF Whole, CallsTypeOK
    <2>4. CallsTypeOK'
        BY <1>0, <1>3, <1>4, <1>5, <2>1, <2>2, <2>3 DEF CallsTypeOK
    <2>5. Searches(B)'
        BY <1>3, <1>4, <1>12, <2>1, <2>2 DEF Searches, Searching, Splitting
    <2>. QED
        BY <1>7, <1>9, <1>11, <2>4, <2>5 DEF CallsInv, Whole
<1>15. CASE LooksIfFree \/ LooksIfLarge \/ LooksIfTooLarge
    <2>1. at' = at
        BY <1>15 DEF LooksIfFree, LooksIfLarge, LooksIfTooLarge
    <2>2. CallsTypeOK'
        BY <1>0, <1>3, <1>4, <1>5, <2>1 DEF CallsTypeOK, Searching, Splitting
    <2>3. \/ pc["shell"] = "isFree" /\ (l = "idle" \/ (c \in B /\ (l = "advance" \/ (l = "isLarge" /\ heap[c].used = 0))))
          \/ pc["shell"] = "isLarge" /\ (l = "advance" \/ (l = "isTooLarge" /\ heap[c].size >= size))
          \/ pc["shell"] = "isTooLarge" /\ (l = "mark" \/ (l = "neuSize" /\ heap[c].size > size + Header))
        BY <1>4, <1>12, <1>15, <1>0 DEF LooksIfFree, LooksIfLarge, LooksIfTooLarge, At, Goto, Mine, CallsTypeOK
    <2>4. Searches(B)'
        BY <1>3, <1>4, <1>12, <2>1, <2>3 DEF Searches, Searching, Splitting
    <2>. QED
        BY <1>7, <1>9, <1>11, <2>2, <2>4 DEF CallsInv, Whole
<1>. QED
    BY <1>14, <1>15

\* A store to the header of a block.
LEMMA WriteFacts ==
    ASSUME heap \in [Addr -> Block], NEW t \in Task, at[t] \in Addr,
           NEW b, Write(t, b), b \in Block
    PROVE  /\ heap' \in [Addr -> Block] /\ heap'[at[t]] = b
           /\ \A a \in Addr : a # at[t] => heap'[a] = heap[a]
    BY DEF Write

\* The blocks stay where they are when no size changes, and with their owners when
\* nobody gets an area and no block in use is marked free.
LEMMA SizesKeep ==
    ASSUME NEW B, Tiles(B), Owned(B), \A b \in B : heap'[b].size = heap[b].size,
           \A g \in InUse : heap'[g.ptr - Header].used = heap[g.ptr - Header].used,
           held' \subseteq held, Pcbs' \subseteq Pcbs
    PROVE  Tiles(B)' /\ Owned(B)' /\ InUse' \subseteq InUse /\ \A b \in B : End(b)' = End(b)
<1>1. InUse' \subseteq InUse
    BY DEF InUse
<1>2. \A b \in B : End(b)' = End(b)
    BY DEF End
<1>3. Tiles(B)'
    BY <1>2 DEF Tiles
<1>4. Owned(B)'
    <2>1. \A g \in InUse' : g \in InUse /\ g.ptr - Header \in B
        BY <1>1 DEF Owned
    <2>2. \A g \in InUse' : /\ heap'[g.ptr - Header].used = 1
                            /\ g.len <= heap'[g.ptr - Header].size
        BY <2>1 DEF Owned
    <2>3. \A g, h \in InUse' : g.ptr = h.ptr => g = h
        BY <2>1 DEF Owned
    <2>4. \A g \in held', h \in Pcbs' : g.ptr # h.ptr
        BY DEF Owned
    <2>. QED
        BY <2>1, <2>2, <2>3, <2>4 DEF Owned
<1>. QED
    BY <1>1, <1>2, <1>3, <1>4

\* The header of a split goes inside its block and outside all others.
LEMMA NeuFacts ==
    ASSUME CallsTypeOK, NEW B, Tiles(B), at["shell"] \in B, size \in Requests,
           heap[at["shell"]].size > size + Header
    PROVE  /\ Neu \in Addr /\ Neu \notin B /\ Neu # at["shell"]
           /\ at["shell"] < Neu /\ Neu + Header < End(at["shell"])
<1>. USE HeapAssumption
<1>1. PICK c \in B : c = at["shell"]
    OBVIOUS
<1>2. c \in Nat /\ c < HeapSize /\ heap[c].size \in Nat /\ End(c) <= HeapSize /\ End(c) \in Nat
    BY <1>1, TileFacts
<1>3. PICK m \in Nat : m = heap[c].size
    BY <1>2
<1>4. PICK n : n = Neu
    OBVIOUS
<1>5. size \in Nat /\ size > 0 /\ n = c + Header + size /\ End(c) = c + Header + m /\ m > size + Header
    BY <1>1, <1>3, <1>4 DEF Neu, End
<1>6. PICK e \in Nat : e = End(c)
    BY <1>2
<1>7. n \in Nat /\ c < n /\ n + Header < e /\ n < HeapSize /\ n < e
    BY ONLY <1>2, <1>3, <1>5, <1>6, HeapAssumption
<1>8. n \notin B
    <2>1. n \in B => e <= n
        BY <1>1, <1>6, <1>7 DEF Tiles
    <2>. QED
        BY <1>6, <1>7, <2>1
<1>9. n \in Addr
    BY <1>7 DEF Addr
<1>. QED
    BY <1>1, <1>4, <1>6, <1>7, <1>8, <1>9

\* What kmalloc has in its hands once it has chosen a block.
LEMMA SplitFacts ==
    ASSUME CallsInv, pc["shell"] \in Splitting \cup {"mark"}, NEW B, Whole(B)
    PROVE  /\ CallsTypeOK /\ at["shell"] \in B /\ at["shell"] # 0
           /\ heap[at["shell"]].used = 0 /\ size \in Requests
           /\ pc["shell"] # "curNext" => \A b \in B : heap[b].next = End(b)
           /\ \A b \in B \ {at["shell"]} : heap[b].next = End(b)
           /\ \A g \in InUse : g.ptr - Header # at["shell"]
           /\ pc["reaper"] \in {"idle", "free"} => at["shell"] # Victim
<1>1. CallsTypeOK
    BY DEF CallsInv
<1>2. at["shell"] \in B /\ heap[at["shell"]].used = 0 /\ size \in Requests
    BY DEF Whole, Searches, Searching, Splitting
<1>3. \A b \in B : Relinked(b) => pc["shell"] = "curNext" /\ b = at["shell"]
    BY DEF Relinked, Splitting
<1>4. \A b \in B : heap[b].next = End(b) \/ Relinked(b)
    BY DEF Whole, Chained
<1>5. \A g \in InUse : heap[g.ptr - Header].used = 1
    BY DEF Whole, Owned
<1>6. at["shell"] # 0
    BY <1>1, <1>2, PcbFacts
<1>7. pc["reaper"] \in {"idle", "free"} => heap[Victim].used = 1
    BY DEF Whole, Waits
<1>. QED
    BY <1>1, <1>2, <1>3, <1>4, <1>5, <1>6, <1>7

\* The header of the new block, in bytes that are nobody's (kmalloc.c:31-34).
LEMMA NewHeaderKeeps == CallsInv /\ (WritesNeu \/ LinksNeu) => CallsInv'
<1>. SUFFICES ASSUME CallsInv, WritesNeu \/ LinksNeu PROVE CallsInv'
    OBVIOUS
<1>. USE HeapAssumption DEF Task
<1>1. PICK B \in SUBSET Addr : Whole(B)
    BY DEF CallsInv
<1>2. PICK l \in {"neuNext", "curSize"} : pc' = [pc EXCEPT !["shell"] = l]
    BY DEF WritesNeu, LinksNeu, Goto
<1>3. /\ UNCHANGED <<held, at, size, reg>> /\ pc["shell"] \in {"neuSize", "neuNext"}
    BY DEF WritesNeu, LinksNeu, At
<1>4. /\ CallsTypeOK /\ at["shell"] \in B
      /\ heap[at["shell"]].used = 0 /\ size \in Requests
      /\ \A b \in B : heap[b].next = End(b)
    BY <1>1, <1>3, SplitFacts DEF Splitting
<1>5. heap[at["shell"]].size > size + Header
    BY <1>1, <1>3 DEF Whole, Searches
<1>6. PICK c \in B : c = at["shell"]
    BY <1>4
<1>7. Neu \in Addr /\ Neu \notin B
    BY <1>1, <1>4, <1>5, NeuFacts DEF Whole
<1>8. PICK n \in Addr : n = Neu /\ n \notin B /\ n = Neu'
    BY <1>3, <1>7 DEF Neu
<1>9. heap[c] \in Block /\ heap[c].size \in Nat /\ heap[n] \in Block
    BY <1>1, <1>4, <1>6, TileFacts DEF Whole, CallsTypeOK
<1>10. PICK m \in Nat : m = heap[c].size - size - Header
    BY <1>4, <1>5, <1>6, <1>9
<1>11. /\ pc'["shell"] = l /\ pc'["reaper"] = pc["reaper"]
       /\ pc' \in [Task -> {"idle", "done"} \cup Searching \cup Splitting \cup Releasing]
    BY <1>2, <1>4 DEF CallsTypeOK, Splitting
<1>12. PICK h \in Block : heap' = [heap EXCEPT ![n] = h]
    <2>1. CASE WritesNeu
        <3>1. heap' = [heap EXCEPT ![n] = [[heap[n] EXCEPT !.size = m] EXCEPT !.used = 0]]
            BY <1>4, <1>6, <1>8, <1>10, <2>1 DEF WritesNeu, Mine, CallsTypeOK
        <3>2. [[heap[n] EXCEPT !.size = m] EXCEPT !.used = 0] \in Block
            BY <1>9 DEF Block
        <3>. QED
            BY <3>1, <3>2
    <2>2. CASE LinksNeu
        <3>1. heap' = [heap EXCEPT ![n] = [heap[n] EXCEPT !.next = heap[c].next]]
            BY <1>4, <1>6, <1>8, <2>2 DEF LinksNeu, Mine, CallsTypeOK
        <3>2. [heap[n] EXCEPT !.next = heap[c].next] \in Block
            BY <1>9 DEF Block
        <3>. QED
            BY <3>1, <3>2
    <2>. QED
        BY <2>1, <2>2
<1>13. heap' \in [Addr -> Block] /\ \A b \in B : heap'[b] = heap[b]
    BY <1>4, <1>8, <1>12 DEF CallsTypeOK
<1>14. CallsTypeOK'
    BY <1>3, <1>4, <1>11, <1>13 DEF CallsTypeOK, Splitting
<1>15. Tiles(B)' /\ Owned(B)' /\ \A b \in B : End(b)' = End(b)
    <2>1. held' \subseteq held /\ Pcbs' \subseteq Pcbs
        BY <1>3, <1>11 DEF Pcbs
    <2>2. \A g \in InUse : heap'[g.ptr - Header].used = heap[g.ptr - Header].used
        BY <1>1, <1>13 DEF Whole, Owned
    <2>3. \A b \in B : heap'[b].size = heap[b].size
        BY <1>13
    <2>. QED
        BY <1>1, <2>1, <2>2, <2>3, SizesKeep DEF Whole
<1>16. Chained(B)'
    BY <1>4, <1>13, <1>15 DEF Chained
<1>18. Releases(B)' /\ Waits(B)'
    <2>1. pc'["shell"] \notin Releasing /\ pc'["shell"] \notin Growing
        BY <1>11 DEF Releasing, Growing
    <2>2. Releases(B)'
        BY <2>1 DEF Releases, Releasing, Growing
    <2>3. heap'[0] = heap[0]
        BY <1>1, <1>4, <1>13, PcbFacts
    <2>4. Waits(B)'
        BY <1>1, <1>3, <1>11, <1>13, <2>1, <2>3, WaitsKeep DEF Whole, Waits
    <2>. QED
        BY <2>2, <2>4
<1>19. /\ heap'[c].size > size + Header /\ heap'[c].size >= size /\ heap'[c].used = 0
       /\ heap'[c].next = heap[c].next /\ heap'[c].size - size - Header = m
    <2>1. heap'[c] = heap[c]
        BY <1>13
    <2>2. PICK k \in Nat, s \in Nat : k = heap[c].size /\ s = size
        BY <1>4, <1>9
    <2>3. k > s + Header /\ k >= s /\ k - s - Header = m
        BY <1>5, <1>6, <1>10, <2>2
    <2>. QED
        BY <1>4, <1>6, <2>1, <2>2, <2>3
<1>20. /\ heap'[n].size = m /\ heap'[n].used = 0
       /\ l = "curSize" => heap'[n].next = heap[c].next
    <2>1. CASE WritesNeu
        <3>1. l = "neuNext"
            BY <1>2, <1>4, <1>11, <2>1 DEF WritesNeu, Goto, CallsTypeOK
        <3>2. heap'[n] = [[heap[n] EXCEPT !.size = m] EXCEPT !.used = 0]
            BY <1>4, <1>6, <1>8, <1>10, <2>1 DEF WritesNeu, Mine, CallsTypeOK
        <3>. QED
            BY <1>9, <3>1, <3>2 DEF Block
    <2>2. CASE LinksNeu
        <3>1. heap'[n] = [heap[n] EXCEPT !.next = heap[c].next]
            BY <1>4, <1>6, <1>8, <2>2 DEF LinksNeu, Mine, CallsTypeOK
        <3>2. heap[n].size = m /\ heap[n].used = 0
            BY <1>1, <1>6, <1>8, <1>10, <2>2 DEF LinksNeu, At, Whole, Searches
        <3>. QED
            BY <1>9, <3>1, <3>2 DEF Block
    <2>. QED
        BY <2>1, <2>2
<1>21. Searches(B)'
    BY <1>3, <1>4, <1>6, <1>8, <1>11, <1>19, <1>20 DEF Searches, Searching, Splitting
<1>. QED
    BY <1>14, <1>15, <1>16, <1>18, <1>21 DEF CallsInv, Whole

\* The store of the size cuts the block in two: from here the new one is a block of
\* the heap, and only next still has to follow (kmalloc.c:36).
LEMMA CutKeeps == CallsInv /\ Shrinks /\ pc["shell"] = "curSize" => CallsInv'
<1>. SUFFICES ASSUME CallsInv, Shrinks, pc["shell"] = "curSize" PROVE CallsInv'
    OBVIOUS
<1>. USE HeapAssumption DEF Task
<1>1. PICK B \in SUBSET Addr : Whole(B)
    BY DEF CallsInv
<1>2. /\ UNCHANGED <<held, at, size, reg>> /\ pc' = [pc EXCEPT !["shell"] = "curNext"]
      /\ Write("shell", [Mine("shell") EXCEPT !.size = size])
    BY DEF Shrinks, At, Goto
<1>3. /\ CallsTypeOK /\ at["shell"] \in B /\ at["shell"] # 0
      /\ pc["reaper"] \in {"idle", "free"} => at["shell"] # Victim
      /\ heap[at["shell"]].used = 0 /\ size \in Requests
      /\ \A b \in B : heap[b].next = End(b)
      /\ \A g \in InUse : g.ptr - Header # at["shell"]
    BY <1>1, SplitFacts DEF Splitting
<1>4. PICK c \in B : c = at["shell"]
    BY <1>3
<1>5. /\ heap[c].size > size + Header /\ heap[Neu].size = heap[c].size - size - Header
      /\ heap[Neu].used = 0 /\ heap[Neu].next = heap[c].next
    BY <1>1, <1>4 DEF Whole, Searches, Splitting
<1>6. Neu \in Addr /\ Neu \notin B /\ c < Neu /\ Neu + Header < End(c)
    BY <1>1, <1>3, <1>4, <1>5, NeuFacts DEF Whole
<1>7. PICK n \in Addr : n = Neu /\ n \notin B /\ n = Neu' /\ c < n /\ n + Header < End(c)
    BY <1>2, <1>6 DEF Neu
<1>8. /\ heap[c] \in Block /\ heap[c].size \in Nat /\ heap[c].next = End(c) /\ c \in Nat /\ c \in Addr
      /\ End(c) \in Nat /\ End(c) \in B \cup {HeapSize}
    BY <1>1, <1>3, TileFacts DEF Whole, Tiles
<1>9. /\ heap' \in [Addr -> Block] /\ heap'[c] = [heap[c] EXCEPT !.size = size]
      /\ \A a \in Addr : a # c => heap'[a] = heap[a]
    <2>1. [heap[c] EXCEPT !.size = size] \in Block
        BY <1>3, <1>8 DEF Block
    <2>. QED
        BY <1>2, <1>3, <1>4, <1>8, <2>1, WriteFacts DEF Mine, CallsTypeOK
<1>10. /\ heap'[c].size = size /\ heap'[c].used = 0 /\ heap'[c].next = heap[c].next
       /\ heap'[n] = heap[n] /\ n # c /\ \A b \in B \ {c} : heap'[b] = heap[b]
    BY <1>3, <1>4, <1>7, <1>8, <1>9 DEF Block
<1>. DEFINE D == B \cup {n}
<1>11. /\ End(c)' = n /\ End(n)' = End(c) /\ \A b \in B \ {c} : End(b)' = End(b)
    <2>1. End(c)' = n
        BY <1>4, <1>7, <1>10 DEF End, Neu
    <2>2. n + Header + heap[n].size = End(c)
        <3>1. PICK m \in Nat : m = heap[c].size
            BY <1>8
        <3>2. heap[n].size = m - size - Header /\ n = c + Header + size /\ End(c) = c + Header + m
            BY <1>4, <1>5, <1>7, <3>1 DEF Neu, End
        <3>3. size \in Nat /\ c \in Nat
            BY <1>3, <1>8
        <3>. QED
            BY ONLY <3>1, <3>2, <3>3, HeapAssumption
    <2>. QED
        BY <1>10, <2>1, <2>2 DEF End
<1>12. \A b \in B : b \in Nat /\ End(b) \in Nat /\ b < End(b) /\ End(b) \in B \cup {HeapSize}
    BY <1>1, <1>3, TileFacts DEF Whole, Tiles
<1>13. \A b, d \in B : b < d => End(b) <= d
    BY <1>1 DEF Whole, Tiles
<1>14. n \in Nat
    BY DEF Addr
<1>15. Tiles(D)'
    <2>1. \A b \in D : End(b)' \in D \cup {HeapSize}
        BY <1>11, <1>12
    <2>2. ASSUME NEW b \in D, NEW d \in D, b < d PROVE End(b)' <= d
        <3>1. PICK e \in Nat : e = End(c)
            BY <1>8
        <3>2. CASE b = c
            <4>1. d \in B => e <= d
                BY <1>13, <2>2, <3>1, <3>2
            <4>2. n <= d
                BY <1>7, <1>12, <1>14, <3>1, <4>1
            <4>. QED
                BY <1>11, <3>2, <4>2
        <3>3. CASE b = n
            <4>1. d \in B /\ d \in Nat /\ c < d
                BY <1>4, <1>7, <1>8, <1>12, <1>14, <2>2, <3>3
            <4>. QED
                BY <1>11, <1>13, <3>3, <4>1
        <3>4. CASE b \in B \ {c} /\ d = n
            <4>1. b \in Nat /\ End(b) \in Nat
                BY <1>12, <3>4
            <4>2. b < c
                <5>1. c < b => e <= b
                    BY <1>13, <3>1, <3>4
                <5>. QED
                    BY <1>7, <1>8, <1>14, <2>2, <3>1, <3>4, <4>1, <5>1
            <4>3. End(b) <= c
                BY <1>13, <3>4, <4>2
            <4>4. End(b) <= n
                BY <1>7, <1>8, <1>14, <4>1, <4>3
            <4>. QED
                BY <1>11, <3>4, <4>4
        <3>5. CASE b \in B \ {c} /\ d \in B
            BY <1>11, <1>13, <2>2, <3>5
        <3>. QED
            BY <3>2, <3>3, <3>4, <3>5
    <2>3. D \subseteq Addr /\ 0 \in D
        BY <1>1 DEF Whole, Tiles
    <2>. QED
        BY <2>1, <2>2, <2>3 DEF Tiles
<1>16. /\ pc'["shell"] = "curNext" /\ pc'["reaper"] = pc["reaper"]
       /\ pc' \in [Task -> {"idle", "done"} \cup Searching \cup Splitting \cup Releasing]
    BY <1>2, <1>3 DEF CallsTypeOK, Splitting
<1>17. Chained(D)'
    <2>1. Relinked(c)'
        BY <1>2, <1>4, <1>16 DEF Relinked
    <2>2. heap'[n].next = End(n)'
        BY <1>5, <1>7, <1>8, <1>10, <1>11
    <2>3. \A b \in B \ {c} : heap'[b].next = End(b)'
        BY <1>3, <1>10, <1>11
    <2>. QED
        BY <2>1, <2>2, <2>3 DEF Chained
<1>18. Owned(D)'
    <2>1. held' = held /\ Pcbs' = Pcbs /\ InUse' = InUse
        BY <1>2, <1>16 DEF Pcbs, InUse
    <2>2. \A g \in InUse : g.ptr - Header \in B \ {c}
        BY <1>1, <1>3, <1>4 DEF Whole, Owned
    <2>. QED
        BY <1>1, <1>10, <2>1, <2>2 DEF Whole, Owned
<1>19. CallsTypeOK'
    BY <1>2, <1>3, <1>9, <1>16 DEF CallsTypeOK, Splitting
<1>20. Waits(D)'
    <2>1. pc'["shell"] \notin Releasing /\ pc'["shell"] \notin Growing
        BY <1>16 DEF Releasing, Growing
    <2>2. heap'[0].size = heap[0].size
        BY <1>1, <1>3, <1>4, <1>10, PcbFacts
    <2>3. pc["reaper"] # "done" => Victim \in D /\ heap'[Victim].next = heap[Victim].next
        BY <1>1, <1>10 DEF Whole, Waits
    <2>4. pc["reaper"] \in {"idle", "free"} => heap'[Victim].used = heap[Victim].used
        BY <1>1, <1>3, <1>4, <1>10 DEF Whole, Waits
    <2>5. pc["reaper"] \in {"idle", "free"} => \A h \in held' : h.ptr # Victim + Header
        BY <1>1, <1>2 DEF Whole, Waits
    <2>6. Waits(B)
        BY <1>1 DEF Whole
    <2>. QED
        BY <1>16, <2>1, <2>2, <2>3, <2>4, <2>5, <2>6, WaitsKeep
<1>21. Releases(D)'
    <2>1. pc'["shell"] \notin Releasing
        BY <1>16 DEF Releasing, Growing
    <2>. QED
        BY <2>1 DEF Releases, Releasing, Growing
<1>22. Searches(D)'
    <2>1. heap'[c].size >= size
        BY <1>3, <1>10
    <2>. QED
        BY <1>2, <1>3, <1>4, <1>7, <1>10, <1>16, <2>1 DEF Searches, Searching, Splitting
<1>23. D \in SUBSET Addr
    OBVIOUS
<1>. QED
    BY <1>15, <1>17, <1>18, <1>19, <1>20, <1>21, <1>22, <1>23 DEF CallsInv, Whole

\* The store of next, after which the chain is whole again (kmalloc.c:37).
LEMMA RelinkKeeps ==
    CallsInv /\ Shrinks /\ pc["shell"] = "curNext" /\ ~ SplitsUnderKfree => CallsInv'
<1>. SUFFICES ASSUME CallsInv, Shrinks, pc["shell"] = "curNext", ~ SplitsUnderKfree
              PROVE  CallsInv'
    OBVIOUS
<1>. USE HeapAssumption DEF Task
<1>1. PICK B \in SUBSET Addr : Whole(B)
    BY DEF CallsInv
<1>2. /\ UNCHANGED <<held, at, size, reg>> /\ pc' = [pc EXCEPT !["shell"] = "mark"]
      /\ Write("shell", [Mine("shell") EXCEPT !.next = Neu])
    BY DEF Shrinks, At, Goto
<1>3. /\ CallsTypeOK /\ at["shell"] \in B /\ at["shell"] # 0
      /\ pc["reaper"] \in {"idle", "free"} => at["shell"] # Victim
      /\ heap[at["shell"]].used = 0 /\ size \in Requests
      /\ \A b \in B \ {at["shell"]} : heap[b].next = End(b)
    BY <1>1, SplitFacts DEF Splitting
<1>4. PICK c \in B : c = at["shell"]
    BY <1>3
<1>5. heap[c].size = size /\ Neu \in B /\ Neu = End(c)
    BY <1>1, <1>4 DEF Whole, Searches, Neu, End
<1>6. PICK n \in Addr : n = Neu /\ n = End(c)
    BY <1>1, <1>5
<1>7. heap[c] \in Block /\ c \in Addr /\ size \in Nat
    BY <1>1, <1>3, TileFacts DEF Whole
<1>8. /\ heap' \in [Addr -> Block] /\ heap'[c] = [heap[c] EXCEPT !.next = n]
      /\ \A a \in Addr : a # c => heap'[a] = heap[a]
    <2>1. [heap[c] EXCEPT !.next = n] \in Block
        BY <1>7 DEF Block
    <2>. QED
        BY <1>2, <1>3, <1>4, <1>6, <1>7, <2>1, WriteFacts DEF Mine, CallsTypeOK
<1>9. heap'[c].size = heap[c].size /\ heap'[c].used = heap[c].used /\ heap'[c].next = n
    BY <1>7, <1>8 DEF Block
<1>10. /\ pc'["shell"] = "mark" /\ pc'["reaper"] = pc["reaper"]
       /\ pc' \in [Task -> {"idle", "done"} \cup Searching \cup Splitting \cup Releasing]
    BY <1>2, <1>3 DEF CallsTypeOK, Searching
<1>11. Tiles(B)' /\ Owned(B)' /\ \A b \in B : End(b)' = End(b)
    <2>1. held' \subseteq held /\ Pcbs' \subseteq Pcbs
        BY <1>2, <1>10 DEF Pcbs
    <2>2. \A b \in B : heap'[b].size = heap[b].size /\ heap'[b].used = heap[b].used
        BY <1>8, <1>9
    <2>3. \A g \in InUse : heap'[g.ptr - Header].used = heap[g.ptr - Header].used
        BY <1>1, <2>2 DEF Whole, Owned
    <2>. QED
        BY <1>1, <2>1, <2>2, <2>3, SizesKeep DEF Whole
<1>12. Chained(B)'
    <2>1. heap'[c].next = End(c)'
        BY <1>6, <1>9, <1>11
    <2>2. \A b \in B \ {c} : heap'[b].next = End(b)'
        BY <1>3, <1>4, <1>8, <1>11
    <2>. QED
        BY <2>1, <2>2 DEF Chained
<1>13. CallsTypeOK'
    BY <1>2, <1>3, <1>8, <1>10 DEF CallsTypeOK, Searching
<1>14. Waits(B)'
    <2>1. pc'["shell"] \notin Releasing /\ pc'["shell"] \notin Growing
        BY <1>10 DEF Releasing, Growing
    <2>2. heap'[0].size = heap[0].size
        BY <1>1, <1>3, <1>4, <1>8, PcbFacts
    <2>3. pc["reaper"] # "done" => c # Victim
        <3>1. pc["reaper"] \in {"hasNext", "nextFree"} => c # Victim
            BY <1>3, <1>4, <1>10 DEF SplitsUnderKfree, Merging, CallsTypeOK
        <3>2. pc["reaper"] \in {"idle", "free", "hasNext", "nextFree", "done"}
            BY <1>1 DEF Whole, Waits
        <3>. QED
            BY <1>3, <1>4, <3>1, <3>2
    <2>4. pc["reaper"] # "done" => Victim \in B /\ Victim \in Addr /\ heap'[Victim] = heap[Victim]
        BY <1>1, <1>8, <2>3 DEF Whole, Waits, Tiles
    <2>5. pc["reaper"] \in {"idle", "free"} => \A h \in held' : h.ptr # Victim + Header
        BY <1>1, <1>2 DEF Whole, Waits
    <2>6. Waits(B)
        BY <1>1 DEF Whole
    <2>. QED
        BY <1>10, <2>1, <2>2, <2>4, <2>5, <2>6, WaitsKeep
<1>15. Releases(B)'
    <2>1. pc'["shell"] \notin Releasing
        BY <1>10 DEF Releasing, Growing
    <2>. QED
        BY <2>1 DEF Releases, Releasing, Growing
<1>16. Searches(B)'
    BY <1>2, <1>3, <1>4, <1>5, <1>7, <1>9, <1>10 DEF Searches, Searching, Splitting
<1>. QED
    BY <1>11, <1>12, <1>13, <1>14, <1>15, <1>16 DEF CallsInv, Whole

\* The block gets its owner, the only one (kmalloc.c:39-40).
LEMMA MarksKeeps == CallsInv /\ Marks => CallsInv'
<1>. SUFFICES ASSUME CallsInv, Marks PROVE CallsInv'
    OBVIOUS
<1>. USE HeapAssumption DEF Task
<1>1. PICK B \in SUBSET Addr : Whole(B)
    BY DEF CallsInv
<1>2. /\ UNCHANGED <<at, size, reg>> /\ pc' = [pc EXCEPT !["shell"] = "idle"]
      /\ Write("shell", [Mine("shell") EXCEPT !.used = 1]) /\ pc["shell"] = "mark"
      /\ held' = held \cup {[ptr |-> at["shell"] + Header, len |-> size]}
    BY DEF Marks, At, Goto
<1>3. /\ CallsTypeOK /\ at["shell"] \in B /\ at["shell"] # 0
      /\ pc["reaper"] \in {"idle", "free"} => at["shell"] # Victim
      /\ heap[at["shell"]].used = 0 /\ size \in Requests
      /\ \A b \in B : heap[b].next = End(b)
      /\ \A g \in InUse : g.ptr - Header # at["shell"]
    BY <1>1, <1>2, SplitFacts DEF Splitting
<1>4. PICK c \in B : c = at["shell"]
    BY <1>3
<1>5. heap[c].size >= size
    BY <1>1, <1>2, <1>4 DEF Whole, Searches
<1>6. /\ heap[c] \in Block /\ c \in Addr /\ size \in Nat /\ size > 0 /\ c \in Nat
      /\ heap[c].size \in Nat /\ End(c) <= HeapSize /\ End(c) \in Nat
    <2>1. Tiles(B)
        BY <1>1 DEF Whole
    <2>2. size \in Nat /\ size > 0
        <3>1. PICK k \in Requests : k = size
            BY <1>3
        <3>2. k \in Nat /\ k > 0
            BY ONLY <3>1, HeapAssumption
        <3>. QED
            BY <3>1, <3>2
    <2>3. CallsTypeOK
        BY <1>3
    <2>4. /\ heap[c] \in Block /\ c \in Addr /\ c \in Nat
          /\ heap[c].size \in Nat /\ End(c) <= HeapSize /\ End(c) \in Nat
        BY <2>1, <2>3, TileFacts
    <2>. QED
        BY <2>2, <2>4
<1>7. /\ heap' \in [Addr -> Block] /\ heap'[c] = [heap[c] EXCEPT !.used = 1]
      /\ \A a \in Addr : a # c => heap'[a] = heap[a]
    <2>1. [heap[c] EXCEPT !.used = 1] \in Block
        BY <1>6 DEF Block
    <2>. QED
        BY <1>2, <1>3, <1>4, <1>6, <2>1, WriteFacts DEF Mine, CallsTypeOK
<1>8. heap'[c].size = heap[c].size /\ heap'[c].used = 1 /\ heap'[c].next = heap[c].next
    BY <1>6, <1>7 DEF Block
<1>9. /\ pc'["shell"] = "idle" /\ pc'["reaper"] = pc["reaper"]
      /\ pc' \in [Task -> {"idle", "done"} \cup Searching \cup Splitting \cup Releasing]
    BY <1>2, <1>3 DEF CallsTypeOK
<1>10. \A b \in B : End(b)' = End(b) /\ heap'[b].next = heap[b].next
                    /\ heap'[b].size = heap[b].size
    BY <1>7, <1>8 DEF End
<1>11. Tiles(B)'
    BY <1>1, <1>10 DEF Whole, Tiles
<1>12. Chained(B)'
    BY <1>3, <1>10 DEF Chained
<1>13. PICK p \in Addr : p = c + Header /\ p - Header = c
    <2>1. PICK m \in Nat : m = heap[c].size
        BY <1>6
    <2>2. c + Header + m <= HeapSize /\ m >= size
        BY <1>5, <1>6, <2>1 DEF End
    <2>3. c + Header \in Nat /\ c + Header < HeapSize /\ (c + Header) - Header = c
        BY ONLY <1>6, <2>1, <2>2, HeapAssumption
    <2>. QED
        BY <2>3 DEF Addr
<1>14. PICK a : a = [ptr |-> p, len |-> size]
    OBVIOUS
<1>15. /\ a \in [ptr : Addr, len : Requests] /\ a.ptr = p /\ a.len = size
       /\ held' = held \cup {a} /\ Pcbs' = Pcbs /\ InUse' = InUse \cup {a}
    BY <1>2, <1>3, <1>4, <1>9, <1>13, <1>14 DEF InUse, Pcbs
<1>16. \A g \in InUse : /\ g.ptr - Header \in B /\ g.ptr - Header # c
                        /\ heap[g.ptr - Header].used = 1
                        /\ g.len <= heap[g.ptr - Header].size
    BY <1>1, <1>3, <1>4 DEF Whole, Owned
<1>17. \A g \in InUse : g.ptr # p
    BY <1>13, <1>16
<1>18. Owned(B)'
    <2>1. \A g \in InUse' : /\ g.ptr - Header \in B /\ heap'[g.ptr - Header].used = 1
                            /\ g.len <= heap'[g.ptr - Header].size
        <3>1. \A g \in InUse : heap'[g.ptr - Header] = heap[g.ptr - Header]
            BY <1>7, <1>16
        <3>2. a.ptr - Header = c /\ a.len <= heap'[c].size
            BY <1>5, <1>8, <1>13, <1>15
        <3>. QED
            BY <1>8, <1>15, <1>16, <3>1, <3>2
    <2>2. \A g, h \in InUse' : g.ptr = h.ptr => g = h
        BY <1>1, <1>15, <1>17 DEF Whole, Owned
    <2>3. \A g \in held', h \in Pcbs' : g.ptr # h.ptr
        BY <1>1, <1>15, <1>17 DEF Whole, Owned, InUse
    <2>. QED
        BY <2>1, <2>2, <2>3 DEF Owned
<1>19. CallsTypeOK'
    BY <1>2, <1>3, <1>7, <1>9, <1>15 DEF CallsTypeOK
<1>20. Waits(B)'
    <2>1. pc'["shell"] \notin Releasing /\ pc'["shell"] \notin Growing
        BY <1>9 DEF Releasing, Growing
    <2>2. heap'[0].size = heap[0].size
        BY <1>1, <1>3, <1>10, PcbFacts
    <2>3. pc["reaper"] # "done" => Victim \in B /\ heap'[Victim].next = heap[Victim].next
        BY <1>1, <1>10 DEF Whole, Waits
    <2>4. pc["reaper"] \in {"idle", "free"} => heap'[Victim].used = heap[Victim].used
        BY <1>1, <1>3, <1>4, <1>7 DEF Whole, Waits, Tiles
    <2>5. pc["reaper"] \in {"idle", "free"} => p # Victim + Header
        <3>1. Victim \in Nat
            BY <1>1, <1>3, PcbFacts
        <3>. QED
            BY <1>3, <1>4, <1>6, <1>13, <3>1
    <2>6. pc["reaper"] \in {"idle", "free"} => \A h \in held' : h.ptr # Victim + Header
        BY <1>1, <1>15, <2>5 DEF Whole, Waits
    <2>7. Waits(B)
        BY <1>1 DEF Whole
    <2>. QED
        BY <1>9, <2>1, <2>2, <2>3, <2>4, <2>6, <2>7, WaitsKeep
<1>21. Searches(B)' /\ Releases(B)'
    <2>1. pc'["shell"] \notin Releasing
        BY <1>9 DEF Releasing, Growing
    <2>. QED
        BY <1>9, <2>1 DEF Searches, Searching, Splitting, Releases, Releasing, Growing
<1>. QED
    BY <1>11, <1>12, <1>18, <1>19, <1>20, <1>21 DEF CallsInv, Whole

\* What the shell has in its hands in kfree.
LEMMA ReleaseFacts ==
    ASSUME CallsInv, pc["shell"] \in Releasing, NEW B, Whole(B)
    PROVE  /\ CallsTypeOK /\ at["shell"] \in B /\ at["shell"] # 0
           /\ \A g \in InUse : g.ptr # at["shell"] + Header /\ g.ptr - Header # at["shell"]
           /\ pc["shell"] \notin {"loadNext", "storeNext"} => \A b \in B : heap[b].next = End(b)
           /\ \A b \in B \ {at["shell"]} : heap[b].next = End(b)
           /\ pc["reaper"] \in {"idle", "free"} => at["shell"] # Victim
           /\ pc["reaper"] # "done" /\ pc["shell"] \in Growing => at["shell"] # Victim
<1>1. CallsTypeOK
    BY DEF CallsInv
<1>2. at["shell"] \in B /\ \A g \in InUse : g.ptr # at["shell"] + Header
    BY DEF Whole, Releases
<1>3. \A g \in InUse : g.ptr - Header # at["shell"]
    <2>1. \A g \in InUse : g.ptr - Header \in B
        BY DEF Whole, Owned
    <2>2. ASSUME NEW g \in InUse, g.ptr - Header = at["shell"] PROVE FALSE
        <3>1. g.ptr \in Int
            BY <1>1, SizesAssumption, HeapAssumption
               DEF InUse, Pcbs, Area, Pcb, CallsTypeOK, Addr
        <3>2. PICK c \in B : c = at["shell"]
            BY <1>2
        <3>3. c \in Nat
            BY <1>1, TileFacts DEF Whole
        <3>4. g.ptr = c + Header
            BY <2>2, <3>1, <3>2, <3>3, HeapAssumption
        <3>. QED
            BY <1>2, <3>2, <3>4
    <2>. QED
        BY <2>2
<1>4. \A b \in B : Relinked(b) => pc["shell"] \in {"loadNext", "storeNext"} /\ b = at["shell"]
    BY DEF Relinked, Releasing, Growing
<1>5. \A b \in B : heap[b].next = End(b) \/ Relinked(b)
    BY DEF Whole, Chained
<1>6. at["shell"] # 0
    BY <1>1, <1>2, PcbFacts
<1>7. /\ pc["reaper"] \in {"idle", "free"} => at["shell"] # Victim
      /\ pc["reaper"] # "done" /\ pc["shell"] \in Growing => at["shell"] # Victim
    BY DEF Whole, Waits
<1>. QED
    BY <1>1, <1>2, <1>3, <1>4, <1>5, <1>6, <1>7

\* kfree begins, with an area that is its caller's alone (kmalloc.c:56-59).
LEMMA FreeCalledKeeps == CallsInv /\ FreeCalled("shell") => CallsInv'
<1>. SUFFICES ASSUME CallsInv, FreeCalled("shell") PROVE CallsInv'
    OBVIOUS
<1>. USE HeapAssumption DEF Task
<1>1. PICK B \in SUBSET Addr : Whole(B)
    BY DEF CallsInv
<1>2. /\ UNCHANGED <<heap, size, reg>> /\ pc["shell"] = "idle" /\ pc' = [pc EXCEPT !["shell"] = "free"]
    BY DEF FreeCalled, At, Goto
<1>3. CallsTypeOK
    BY DEF CallsInv
<1>4. /\ pc'["shell"] = "free" /\ pc'["reaper"] = pc["reaper"]
      /\ pc' \in [Task -> {"idle", "done"} \cup Searching \cup Splitting \cup Releasing]
    BY <1>2, <1>3 DEF CallsTypeOK, Releasing
<1>5. Searches(B)'
    BY <1>4 DEF Searches, Searching, Splitting
<1>6. \A b \in B : heap[b].next = End(b)
    BY <1>1, <1>2 DEF Whole, Chained, Relinked
<1>7. PICK h \in held : at' = [at EXCEPT !["shell"] = h.ptr - Header] /\ held' = held \ {h}
    BY DEF FreeCalled
<1>8. held' \subseteq held /\ Pcbs' = Pcbs
    BY <1>4, <1>7 DEF Pcbs
<1>9. Tiles(B)' /\ Owned(B)' /\ InUse' \subseteq InUse /\ \A b \in B : End(b)' = End(b)
    <2>1. \A b \in B : heap'[b].size = heap[b].size
        BY <1>2
    <2>2. \A g \in InUse : heap'[g.ptr - Header].used = heap[g.ptr - Header].used
        BY <1>2
    <2>. QED
        BY <1>1, <1>8, <2>1, <2>2, SizesKeep DEF Whole
<1>10. Chained(B)'
    BY <1>2, <1>6, <1>9 DEF Chained
<1>11. h \in InUse /\ h.ptr \in Addr /\ h.ptr - Header \in B
    BY <1>1, <1>3 DEF InUse, CallsTypeOK, Whole, Owned
<1>12. PICK c \in Addr : c = h.ptr - Header
    BY <1>11
<1>13. /\ at' \in [Task -> Addr \cup {Null}] /\ at'["reaper"] = Victim /\ at'["shell"] = c
       /\ c \in B
    BY <1>3, <1>7, <1>11, <1>12 DEF CallsTypeOK
<1>14. c + Header = h.ptr
    BY <1>11, <1>12 DEF Addr
<1>15. \A g \in InUse' : g.ptr # h.ptr
    BY <1>1, <1>7, <1>8, <1>11 DEF InUse, Whole, Owned
<1>16. Releases(B)'
    BY <1>4, <1>13, <1>14, <1>15 DEF Releases, Releasing, Growing
<1>17. CallsTypeOK'
    BY <1>2, <1>3, <1>4, <1>8, <1>13 DEF CallsTypeOK, Releasing
<1>18. Waits(B)'
    <2>1. pc["reaper"] \in {"idle", "free"} => c # Victim
        <3>1. pc["reaper"] \in {"idle", "free"} => h.ptr # Victim + Header
            BY <1>1 DEF Whole, Waits
        <3>. QED
            BY <1>14, <3>1
    <2>2. pc'["shell"] \notin Growing
        BY <1>4 DEF Growing
    <2>. QED
        BY <1>1, <1>2, <1>4, <1>8, <1>13, <2>1, <2>2, WaitsKeep DEF Whole, Waits
<1>. QED
    BY <1>5, <1>9, <1>10, <1>16, <1>17, <1>18 DEF CallsInv, Whole

\* The block is free from here (kmalloc.c:60).
LEMMA FreesKeeps ==
    ASSUME CallsInv, Frees("shell")
    PROVE  CallsInv'
<1>. USE HeapAssumption DEF Task
<1>1. PICK B \in SUBSET Addr : Whole(B)
    BY DEF CallsInv
<1>2. /\ UNCHANGED <<held, at, size, reg>> /\ pc["shell"] = "free" /\ pc' = [pc EXCEPT !["shell"] = "hasNext"]
      /\ Write("shell", [Mine("shell") EXCEPT !.used = 0])
    BY DEF Frees, At, Goto
<1>3. /\ CallsTypeOK /\ at["shell"] # 0
      /\ pc["reaper"] \in {"idle", "free"} => at["shell"] # Victim
      /\ pc["reaper"] # "done" /\ pc["shell"] \in Growing => at["shell"] # Victim
      /\ at["shell"] \in B /\ \A g \in InUse : g.ptr # at["shell"] + Header /\ g.ptr - Header # at["shell"]
      /\ \A b \in B : heap[b].next = End(b)
    BY <1>1, <1>2, ReleaseFacts DEF Releasing
<1>4. PICK c \in B : c = at["shell"]
    BY <1>3
<1>5. heap[c] \in Block /\ c \in Addr
    BY <1>1, <1>3, TileFacts DEF Whole
<1>6. /\ heap' \in [Addr -> Block] /\ heap'[c] = [heap[c] EXCEPT !.used = 0]
      /\ \A a \in Addr : a # c => heap'[a] = heap[a]
    <2>1. [heap[c] EXCEPT !.used = 0] \in Block
        BY <1>5 DEF Block
    <2>. QED
        BY <1>2, <1>3, <1>4, <1>5, <2>1, WriteFacts DEF Mine, CallsTypeOK
<1>7. heap'[c].size = heap[c].size /\ heap'[c].used = 0 /\ heap'[c].next = heap[c].next
    BY <1>5, <1>6 DEF Block
<1>8. /\ pc'["shell"] = "hasNext" /\ pc'["reaper"] = pc["reaper"]
      /\ pc' \in [Task -> {"idle", "done"} \cup Searching \cup Splitting \cup Releasing]
      /\ pc'["shell"] # "done" /\ pc'["reaper"] \in {"idle", "done"} \cup Releasing
    BY <1>2, <1>3 DEF CallsTypeOK, Releasing, Growing
<1>9. Searches(B)'
    BY <1>8 DEF Searches, Searching, Splitting
<1>10. Tiles(B)' /\ Owned(B)' /\ InUse' \subseteq InUse /\ \A b \in B : End(b)' = End(b)
    <2>1. held' \subseteq held /\ Pcbs' \subseteq Pcbs
        BY <1>2, <1>8 DEF Pcbs
    <2>2. \A b \in B : heap'[b].size = heap[b].size
        BY <1>6, <1>7
    <2>3. \A g \in InUse : heap'[g.ptr - Header].used = heap[g.ptr - Header].used
        <3>1. \A g \in InUse : g.ptr - Header \in Addr
            BY <1>1 DEF Whole, Owned
        <3>. QED
            BY <1>3, <1>4, <1>6, <3>1
    <2>. QED
        BY <1>1, <2>1, <2>2, <2>3, SizesKeep DEF Whole
<1>11. Chained(B)'
    <2>1. \A b \in B : heap'[b].next = heap[b].next
        BY <1>6, <1>7
    <2>. QED
        BY <1>3, <1>10, <2>1 DEF Chained
<1>12. Releases(B)'
    <2>1. at'["shell"] = c /\ \A g \in InUse' : g.ptr # c + Header
        BY <1>2, <1>3, <1>4, <1>10
    <2>. QED
        BY <1>4, <1>7, <1>8, <2>1 DEF Releases, Releasing, Growing
<1>13. CallsTypeOK'
    BY <1>2, <1>3, <1>6, <1>8 DEF CallsTypeOK
<1>14. Waits(B)'
    <2>1. \A b \in B : heap'[b].next = heap[b].next /\ heap'[b].size = heap[b].size
        BY <1>6, <1>7
    <2>2. heap'[0].size = heap[0].size
        BY <1>1, <1>3, <2>1, PcbFacts
    <2>3. pc["reaper"] # "done" => Victim \in B /\ heap'[Victim].next = heap[Victim].next
        BY <1>1, <2>1 DEF Whole, Waits
    <2>4. pc["reaper"] \in {"idle", "free"} => heap'[Victim].used = heap[Victim].used
        BY <1>1, <1>3, <1>4, <1>6, <2>3 DEF Whole, Tiles
    <2>5. pc["reaper"] \in {"idle", "free"} =>
              at'["shell"] # Victim /\ \A h \in held' : h.ptr # Victim + Header
        BY <1>1, <1>2, <1>3 DEF Whole, Waits
    <2>6. Waits(B) /\ pc'["shell"] \notin Growing
        BY <1>1, <1>8 DEF Whole, Growing
    <2>. QED
        BY <1>8, <2>2, <2>3, <2>4, <2>5, <2>6, WaitsKeep
<1>. QED
    BY <1>9, <1>10, <1>11, <1>12, <1>13, <1>14 DEF CallsInv, Whole

\* merge_blocks between its stores: its tests and loads (kmalloc.c:49-51).
LEMMA LoadsKeep ==
    ASSUME CallsInv,
           \/ LooksBehind("shell")
           \/ /\ Grows("shell") \/ Unlinks("shell")
              /\ pc["shell"] \in {"loadSize", "addSize", "loadNext"}
    PROVE  CallsInv'
<1>. USE HeapAssumption DEF Task
<1>1. PICK B \in SUBSET Addr : Whole(B)
    BY DEF CallsInv
<1>2. /\ UNCHANGED <<heap, held, at, size>>
      /\ pc["shell"] \in {"hasNext", "nextFree", "loadSize", "addSize", "loadNext"}
    BY DEF LooksBehind, Grows, Unlinks, At
<1>3. /\ CallsTypeOK /\ at["shell"] # 0
      /\ pc["reaper"] \in {"idle", "free"} => at["shell"] # Victim
      /\ pc["reaper"] # "done" /\ pc["shell"] \in Growing => at["shell"] # Victim
      /\ at["shell"] \in B /\ \A g \in InUse : g.ptr # at["shell"] + Header
      /\ pc["shell"] # "loadNext" => \A b \in B : heap[b].next = End(b)
      /\ \A b \in B \ {at["shell"]} : heap[b].next = End(b)
    BY <1>1, <1>2, ReleaseFacts DEF Releasing, Growing
<1>4. PICK c \in B : c = at["shell"]
    BY <1>3
<1>5. /\ heap[c].size \in Nat /\ heap[c].next \in Addr \cup {Null} /\ End(c) \in Nat
      /\ heap[c].used = 0
    BY <1>1, <1>2, <1>3, <1>4, TileFacts DEF Whole, Releases, Releasing, Growing
<1>6. \A a \in Addr : heap[a].size \in Nat /\ heap[a].used \in {0, 1}
    BY <1>3 DEF CallsTypeOK, Block
<1>7. PICK gone : gone = heap[c].next
    OBVIOUS
<1>8. /\ pc["shell"] \in {"nextFree", "loadSize", "addSize"} => gone \in Addr
      /\ pc["shell"] \in {"loadSize", "addSize"} => heap[gone].used = 0
      /\ pc["shell"] = "addSize" => reg["shell"] = heap[c].size
      /\ pc["shell"] = "loadNext" => heap[gone].next = End(c)
    BY <1>1, <1>2, <1>4, <1>5, <1>7 DEF Whole, Releases
<1>9. PICK l \in (Releasing \ {"free"}) \cup {"idle"} : pc' = [pc EXCEPT !["shell"] = l]
    BY DEF LooksBehind, Grows, Unlinks, Goto, Finished, Releasing, Growing
<1>10. /\ pc'["shell"] = l /\ pc'["reaper"] = pc["reaper"]
       /\ pc' \in [Task -> {"idle", "done"} \cup Searching \cup Splitting \cup Releasing]
       /\ pc'["shell"] # "done" /\ pc'["reaper"] \in {"idle", "done"} \cup Releasing
       /\ pc'["reaper"] = "idle" <=> pc["reaper"] = "idle"
    BY <1>2, <1>3, <1>9 DEF CallsTypeOK, Releasing, Growing
<1>11. /\ Searches(B)'
       /\ \A b : Relinked(b)' <=> at'["shell"] = b /\ l \in {"loadNext", "storeNext"}
    BY <1>9, <1>10 DEF Searches, Searching, Splitting, Relinked, Releasing, Growing
<1>12. Tiles(B)' /\ Owned(B)' /\ InUse' = InUse /\ \A b \in B : End(b)' = End(b)
    BY <1>1, <1>2, <1>10, LooksKeep DEF Whole, Looks
<1>13. PICK r \in Int : reg' = [reg EXCEPT !["shell"] = r]
         /\ \/ pc["shell"] = "hasNext" /\ (l = "idle" \/ (l = "nextFree" /\ gone # Null))
            \/ pc["shell"] = "nextFree" /\ (l = "idle" \/ (l = "loadSize" /\ heap[gone].used = 0))
            \/ pc["shell"] = "loadSize" /\ l = "addSize" /\ r = heap[c].size
            \/ pc["shell"] = "addSize" /\ l = "storeSize" /\ r = heap[c].size + Header + heap[gone].size
            \/ pc["shell"] = "loadNext" /\ l = "storeNext" /\ r = End(c)
    <2>1. CASE LooksBehind("shell")
        <3>1. reg' = [reg EXCEPT !["shell"] = reg["shell"]] /\ reg["shell"] \in Int
            BY <1>3, <2>1 DEF LooksBehind, CallsTypeOK
        <3>2. \/ pc["shell"] = "hasNext" /\ (l = "idle" \/ (l = "nextFree" /\ gone # Null))
              \/ pc["shell"] = "nextFree" /\ (l = "idle" \/ (l = "loadSize" /\ heap[gone].used = 0))
            <4>1. l = pc'["shell"] /\ pc \in [Task -> {"idle", "done"} \cup Searching \cup Splitting \cup Releasing]
                BY <1>3, <1>10 DEF CallsTypeOK
            <4>2. Finished("shell") = "idle"
                BY DEF Finished
            <4>. QED
                BY <1>4, <1>7, <2>1, <4>1, <4>2 DEF LooksBehind, At, Goto, Mine
        <3>. QED
            BY <3>1, <3>2
    <2>2. CASE Grows("shell") /\ pc["shell"] = "loadSize"
        BY <1>4, <1>5, <1>10, <2>2 DEF Grows, At, Goto, Mine, CallsTypeOK
    <2>3. CASE Grows("shell") /\ pc["shell"] = "addSize"
        <3>1. PICK n : n = reg["shell"] + Header + heap[gone].size
            OBVIOUS
        <3>2. reg' = [reg EXCEPT !["shell"] = n] /\ l = "storeSize"
            BY <1>3, <1>4, <1>7, <1>10, <2>3, <3>1 DEF Grows, At, Goto, Mine, CallsTypeOK
        <3>3. heap[gone].size \in Nat /\ reg["shell"] = heap[c].size
            BY <1>6, <1>8, <2>3
        <3>4. n \in Int /\ n = heap[c].size + Header + heap[gone].size
            BY <1>5, <3>1, <3>3
        <3>. QED
            BY <2>3, <3>2, <3>4
    <2>4. CASE Unlinks("shell") /\ pc["shell"] = "loadNext"
        <3>1. PICK n : n = heap[gone].next
            OBVIOUS
        <3>2. reg' = [reg EXCEPT !["shell"] = n] /\ l = "storeNext"
            BY <1>3, <1>4, <1>7, <1>10, <2>4, <3>1 DEF Unlinks, At, Goto, Mine, CallsTypeOK
        <3>3. n \in Int /\ n = End(c)
            BY <1>5, <1>8, <2>4, <3>1
        <3>. QED
            BY <2>4, <3>2, <3>3
    <2>. QED
        BY <2>1, <2>2, <2>3, <2>4 DEF Grows, Unlinks, At
<1>14. Chained(B)'
    <2>1. l = "storeNext" <=> pc["shell"] = "loadNext"
        BY <1>2, <1>13
    <2>2. l # "loadNext"
        BY <1>13
    <2>3. at'["shell"] = c
        BY <1>2, <1>4
    <2>4. CASE pc["shell"] = "loadNext"
        <3>1. Relinked(c)'
            BY <1>11, <2>1, <2>3, <2>4
        <3>. QED
            BY <1>2, <1>3, <1>4, <1>12, <3>1 DEF Chained
    <2>5. CASE pc["shell"] # "loadNext"
        BY <1>2, <1>3, <1>12, <2>5 DEF Chained
    <2>. QED
        BY <2>4, <2>5
<1>15. Releases(B)'
    <2>1. /\ at'["shell"] = c /\ heap' = heap /\ heap[c].next = gone /\ End(c)' = End(c)
          /\ \A g \in InUse' : g.ptr # c + Header
        BY <1>2, <1>3, <1>4, <1>7, <1>12
    <2>2. reg'["shell"] = r
        BY <1>3, <1>13 DEF CallsTypeOK
    <2>3. l \in {"nextFree", "loadSize", "addSize", "storeSize"} => gone # Null
        BY <1>8, <1>13 DEF Null, Addr
    <2>4. l \in {"loadSize", "addSize", "storeSize"} => heap[gone].used = 0
        BY <1>8, <1>13
    <2>5. /\ l = "addSize" => r = heap[c].size
          /\ l = "storeSize" => r = heap[c].size + Header + heap[gone].size
          /\ l # "loadNext"
          /\ l = "storeNext" => r = End(c)
        BY <1>13
    <2>. QED
        BY <1>4, <1>5, <1>10, <2>1, <2>2, <2>3, <2>4, <2>5 DEF Releases, Releasing, Growing
<1>16. CallsTypeOK'
    <2>1. reg' \in [Task -> Int]
        BY <1>3, <1>13 DEF CallsTypeOK
    <2>. QED
        BY <1>2, <1>3, <1>10, <2>1 DEF CallsTypeOK
<1>17. Waits(B)'
    <2>1. l \in Growing => pc["shell"] \in Growing \/ (pc["shell"] = "nextFree" /\ heap[gone].used = 0)
        BY <1>13 DEF Growing
    <2>2. pc["reaper"] # "done" /\ c = Victim => heap[gone].used = 1
        BY <1>1, <1>3, <1>7, PcbFacts DEF Whole, Waits
    <2>3. pc["reaper"] # "done" /\ l \in Growing => c # Victim
        BY <1>3, <1>4, <2>1, <2>2
    <2>4. pc["reaper"] \in {"idle", "free"} => c # Victim
        BY <1>3, <1>4
    <2>5. at'["shell"] = c /\ pc'["shell"] = l
        BY <1>2, <1>4, <1>10
    <2>6. pc["reaper"] # "done" => Victim \in B
        BY <1>1 DEF Whole, Waits
    <2>7. pc["reaper"] \in {"idle", "free"} => \A h \in held' : h.ptr # Victim + Header
        BY <1>1, <1>2 DEF Whole, Waits
    <2>8. Waits(B) /\ heap' = heap
        BY <1>1, <1>2 DEF Whole
    <2>. QED
        BY <1>10, <2>3, <2>4, <2>5, <2>6, <2>7, <2>8, WaitsKeep
<1>. QED
    BY <1>11, <1>12, <1>14, <1>15, <1>16, <1>17 DEF CallsInv, Whole

\* The store of next takes the merged block out of the chain (kmalloc.c:51).
LEMMA UnlinksKeeps ==
    ASSUME CallsInv, Unlinks("shell"), pc["shell"] = "storeNext"
    PROVE  CallsInv'
<1>. USE HeapAssumption DEF Task
<1>1. PICK B \in SUBSET Addr : Whole(B)
    BY DEF CallsInv
<1>2. /\ UNCHANGED <<held, at, size, reg>> /\ pc' = [pc EXCEPT !["shell"] = "hasNext"]
      /\ Write("shell", [Mine("shell") EXCEPT !.next = reg["shell"]])
    BY DEF Unlinks, At, Goto
<1>3. /\ CallsTypeOK /\ at["shell"] # 0
      /\ pc["reaper"] \in {"idle", "free"} => at["shell"] # Victim
      /\ pc["reaper"] # "done" /\ pc["shell"] \in Growing => at["shell"] # Victim
      /\ at["shell"] \in B /\ \A g \in InUse : g.ptr # at["shell"] + Header
      /\ \A b \in B \ {at["shell"]} : heap[b].next = End(b)
    BY <1>1, ReleaseFacts DEF Releasing, Growing
<1>4. PICK c \in B : c = at["shell"]
    BY <1>3
<1>5. PICK e \in Addr \cup {Null} : e = reg["shell"] /\ e = End(c)
    BY <1>1, <1>4 DEF Whole, Tiles, Releases, Null
<1>6. heap[c] \in Block /\ c \in Addr /\ heap[c].used = 0
    BY <1>1, <1>3, <1>4, TileFacts DEF Whole, Releases, Releasing, Growing
<1>7. /\ heap' \in [Addr -> Block] /\ heap'[c] = [heap[c] EXCEPT !.next = e]
      /\ \A a \in Addr : a # c => heap'[a] = heap[a]
    <2>1. [heap[c] EXCEPT !.next = e] \in Block
        BY <1>6 DEF Block
    <2>. QED
        BY <1>2, <1>3, <1>4, <1>5, <1>6, <2>1, WriteFacts DEF Mine, CallsTypeOK
<1>8. heap'[c].size = heap[c].size /\ heap'[c].used = 0 /\ heap'[c].next = e
    BY <1>6, <1>7 DEF Block
<1>9. /\ pc'["shell"] = "hasNext" /\ pc'["reaper"] = pc["reaper"]
      /\ pc' \in [Task -> {"idle", "done"} \cup Searching \cup Splitting \cup Releasing]
      /\ pc'["shell"] # "done" /\ pc'["reaper"] \in {"idle", "done"} \cup Releasing
    BY <1>2, <1>3 DEF CallsTypeOK, Releasing, Growing
<1>10. Searches(B)'
    BY <1>9 DEF Searches, Searching, Splitting
<1>11. Tiles(B)' /\ Owned(B)' /\ InUse' \subseteq InUse /\ \A b \in B : End(b)' = End(b)
    <2>1. held' \subseteq held /\ Pcbs' \subseteq Pcbs
        BY <1>2, <1>9 DEF Pcbs
    <2>2. \A b \in B : heap'[b].size = heap[b].size /\ heap'[b].used = heap[b].used
        BY <1>6, <1>7, <1>8
    <2>3. \A g \in InUse : heap'[g.ptr - Header].used = heap[g.ptr - Header].used
        BY <1>1, <2>2 DEF Whole, Owned
    <2>. QED
        BY <1>1, <2>1, <2>2, <2>3, SizesKeep DEF Whole
<1>12. Chained(B)'
    <2>1. heap'[c].next = End(c)'
        BY <1>5, <1>8, <1>11
    <2>2. \A b \in B \ {c} : heap'[b].next = End(b)'
        BY <1>3, <1>4, <1>7, <1>11
    <2>. QED
        BY <2>1, <2>2 DEF Chained
<1>13. Releases(B)'
    <2>1. at'["shell"] = c /\ \A g \in InUse' : g.ptr # c + Header
        BY <1>2, <1>3, <1>4, <1>11
    <2>. QED
        BY <1>4, <1>8, <1>9, <2>1 DEF Releases, Releasing, Growing
<1>14. CallsTypeOK'
    BY <1>2, <1>3, <1>7, <1>9 DEF CallsTypeOK
<1>15. Waits(B)'
    <2>1. pc["reaper"] # "done" => c # Victim
        BY <1>3, <1>4 DEF Growing
    <2>2. \A b \in B : heap'[b].size = heap[b].size
        BY <1>6, <1>7, <1>8
    <2>3. heap'[0].size = heap[0].size
        BY <1>1, <1>3, <2>2, PcbFacts
    <2>4. pc["reaper"] # "done" => Victim \in B /\ Victim \in Addr /\ heap'[Victim] = heap[Victim]
        BY <1>1, <1>7, <2>1 DEF Whole, Waits, Tiles
    <2>5. pc["reaper"] \in {"idle", "free"} =>
              at'["shell"] # Victim /\ \A h \in held' : h.ptr # Victim + Header
        BY <1>1, <1>2, <1>3 DEF Whole, Waits
    <2>6. Waits(B) /\ pc'["shell"] \notin Growing
        BY <1>1, <1>9 DEF Whole, Growing
    <2>. QED
        BY <1>9, <2>3, <2>4, <2>5, <2>6, WaitsKeep
<1>. QED
    BY <1>10, <1>11, <1>12, <1>13, <1>14, <1>15 DEF CallsInv, Whole

\* The block behind a block that is followed by another one.
LEMMA BehindFacts ==
    ASSUME CallsTypeOK, NEW B, Tiles(B), NEW c \in B, NEW n, n = End(c), n # HeapSize
    PROVE  /\ n \in B /\ n # c /\ n # 0 /\ c < n
           /\ \A b \in B : End(b) = n => b = c
           /\ \A b \in B \ {c} : End(b) \in (B \ {n}) \cup {HeapSize}
           /\ End(n) \in (B \ {n}) \cup {HeapSize}
           /\ \A b \in B \ {n} : c < b => End(n) <= b
<1>1. n \in B
    BY DEF Tiles
<1>2. \A b \in B : /\ b \in Nat /\ End(b) \in Nat /\ b < End(b) /\ End(b) \in B \cup {HeapSize}
    BY TileFacts DEF Tiles
<1>3. \A b, d \in B : b < d => End(b) <= d
    BY DEF Tiles
<1>4. n # c /\ n # 0 /\ c < n
    BY <1>1, <1>2
<1>5. ASSUME NEW b \in B, End(b) = n PROVE b = c
    <2>1. b < c => n <= c
        BY <1>3, <1>5
    <2>2. c < b => n <= b
        BY <1>3
    <2>3. b < n
        BY <1>2, <1>5
    <2>. QED
        BY <1>1, <1>2, <1>4, <2>1, <2>2, <2>3
<1>6. End(n) # n
    BY <1>1, <1>2
<1>7. ASSUME NEW b \in B \ {n}, c < b PROVE End(n) <= b
    <2>1. n <= b
        BY <1>3, <1>7
    <2>2. n < b
        BY <1>1, <1>2, <2>1
    <2>. QED
        BY <1>1, <1>3, <2>2
<1>. QED
    BY <1>1, <1>2, <1>4, <1>5, <1>6, <1>7

\* The store of the size takes the next block in: from here there is one block less,
\* and only next still has to follow (kmalloc.c:50).
LEMMA GrowsKeeps ==
    ASSUME CallsInv, Grows("shell"), pc["shell"] = "storeSize"
    PROVE  CallsInv'
<1>. USE HeapAssumption DEF Task
<1>1. PICK B \in SUBSET Addr : Whole(B)
    BY DEF CallsInv
<1>2. /\ UNCHANGED <<held, at, size, reg>> /\ pc' = [pc EXCEPT !["shell"] = "loadNext"]
      /\ Write("shell", [Mine("shell") EXCEPT !.size = reg["shell"]])
    BY DEF Grows, At, Goto
<1>3. /\ CallsTypeOK /\ at["shell"] # 0
      /\ pc["reaper"] \in {"idle", "free"} => at["shell"] # Victim
      /\ pc["reaper"] # "done" /\ pc["shell"] \in Growing => at["shell"] # Victim
      /\ at["shell"] \in B /\ \A g \in InUse : g.ptr # at["shell"] + Header /\ g.ptr - Header # at["shell"]
      /\ \A b \in B : heap[b].next = End(b)
    BY <1>1, ReleaseFacts DEF Releasing, Growing
<1>4. PICK c \in B : c = at["shell"]
    BY <1>3
<1>5. PICK n : n = heap[c].next
    OBVIOUS
<1>6. /\ n = End(c) /\ n # HeapSize /\ heap[n].used = 0 /\ heap[c].used = 0
      /\ reg["shell"] = heap[c].size + Header + heap[n].size
    BY <1>1, <1>3, <1>4, <1>5 DEF Whole, Releases, Releasing, Growing, Null
<1>7. /\ n \in B /\ n # c /\ n # 0 /\ c < n
      /\ \A b \in B \ {c} : End(b) \in (B \ {n}) \cup {HeapSize}
      /\ End(n) \in (B \ {n}) \cup {HeapSize}
      /\ \A b \in B \ {n} : c < b => End(n) <= b
    <2>1. Tiles(B)
        BY <1>1 DEF Whole
    <2>. QED
        BY <1>3, <1>6, <2>1, BehindFacts
<1>8. /\ heap[c] \in Block /\ c \in Addr /\ n \in Addr /\ heap[c].size \in Nat /\ heap[n].size \in Nat
      /\ c \in Nat /\ n \in Nat
    BY <1>1, <1>3, <1>4, <1>7, TileFacts DEF Whole
<1>9. PICK m \in Nat : m = reg["shell"]
    BY <1>6, <1>8
<1>10. /\ heap' \in [Addr -> Block] /\ heap'[c] = [heap[c] EXCEPT !.size = m]
       /\ \A a \in Addr : a # c => heap'[a] = heap[a]
    <2>1. [heap[c] EXCEPT !.size = m] \in Block
        BY <1>8 DEF Block
    <2>. QED
        BY <1>2, <1>3, <1>4, <1>8, <1>9, <2>1, WriteFacts DEF Mine, CallsTypeOK
<1>11. /\ heap'[c].size = m /\ heap'[c].used = 0 /\ heap'[c].next = n
       /\ heap'[n] = heap[n] /\ \A b \in B \ {c} : heap'[b] = heap[b]
    BY <1>5, <1>6, <1>7, <1>8, <1>10 DEF Block
<1>12. End(c)' = End(n) /\ \A b \in B \ {c} : End(b)' = End(b)
    <2>1. n = c + Header + heap[c].size
        BY <1>6 DEF End
    <2>2. PICK i \in Nat, j \in Nat : i = heap[c].size /\ j = heap[n].size
        BY <1>8
    <2>3. n = c + Header + i /\ m = i + Header + j /\ c \in Nat
        BY <1>6, <1>8, <1>9, <2>1, <2>2
    <2>4. c + Header + m = n + Header + j
        BY ONLY <2>2, <2>3, HeapAssumption
    <2>. QED
        BY <1>11, <2>2, <2>4 DEF End
<1>. DEFINE D == B \ {n}
<1>13. Tiles(D)'
    <2>1. \A b \in D : End(b)' \in D \cup {HeapSize}
        BY <1>7, <1>12
    <2>2. \A b, d \in D : b < d => End(b)' <= d
        <3>1. \A b, d \in B : b < d => End(b) <= d
            BY <1>1 DEF Whole, Tiles
        <3>. QED
            BY <1>7, <1>12, <3>1
    <2>3. D \subseteq Addr /\ 0 \in D
        BY <1>1, <1>7 DEF Whole, Tiles
    <2>. QED
        BY <2>1, <2>2, <2>3 DEF Tiles
<1>14. /\ pc'["shell"] = "loadNext" /\ pc'["reaper"] = pc["reaper"]
       /\ pc' \in [Task -> {"idle", "done"} \cup Searching \cup Splitting \cup Releasing]
       /\ pc'["shell"] # "done" /\ pc'["reaper"] \in {"idle", "done"} \cup Releasing
       /\ pc'["reaper"] = "idle" <=> pc["reaper"] = "idle"
    BY <1>2, <1>3 DEF CallsTypeOK, Releasing, Growing
<1>15. /\ Searches(D)'
       /\ \A b : Relinked(b)' <=> at'["shell"] = b
    BY <1>14 DEF Searches, Searching, Splitting, Relinked
<1>16. Chained(D)'
    <2>1. Relinked(c)'
        BY <1>2, <1>4, <1>15
    <2>2. \A b \in D \ {c} : heap'[b].next = End(b)'
        BY <1>3, <1>11, <1>12
    <2>. QED
        BY <2>1, <2>2 DEF Chained
<1>17. InUse' = InUse /\ held' = held /\ Pcbs' = Pcbs
    BY <1>2, <1>14 DEF Pcbs, InUse
<1>18. Owned(D)'
    <2>1. \A g \in InUse : /\ g.ptr - Header \in D \ {c} /\ heap[g.ptr - Header].used = 1
                           /\ g.len <= heap[g.ptr - Header].size
        BY <1>1, <1>3, <1>4, <1>6 DEF Whole, Owned
    <2>2. \A g \in InUse : heap'[g.ptr - Header] = heap[g.ptr - Header]
        BY <1>11, <2>1
    <2>. QED
        BY <1>1, <1>17, <2>1, <2>2 DEF Whole, Owned
<1>19. Releases(D)'
    <2>1. at'["shell"] = c /\ c \in D /\ \A g \in InUse' : g.ptr # c + Header
        BY <1>2, <1>3, <1>4, <1>7, <1>17
    <2>2. heap'[n].next = End(c)'
        BY <1>3, <1>7, <1>11, <1>12
    <2>3. n # Null
        BY <1>6 DEF Null
    <2>. QED
        BY <1>4, <1>11, <1>14, <2>1, <2>2, <2>3 DEF Releases, Releasing, Growing
<1>20. CallsTypeOK'
    BY <1>2, <1>3, <1>10, <1>14 DEF CallsTypeOK
<1>21. D \in SUBSET Addr
    OBVIOUS
<1>22. Waits(D)'
    <2>1. pc["reaper"] # "done" => c # Victim
        BY <1>3, <1>4 DEF Growing
    <2>2. 0 \in B /\ 0 # c /\ End(0) = Victim
        BY <1>1, <1>3, <1>4, PcbFacts
    <2>3. n # Victim
        <3>1. Tiles(B)
            BY <1>1 DEF Whole
        <3>2. \A b \in B : End(b) = n => b = c
            BY <1>3, <1>6, <3>1, BehindFacts
        <3>. QED
            BY <2>2, <3>2
    <2>4. heap'[0].size = heap[0].size
        BY <1>11, <2>2
    <2>5. pc["reaper"] # "done" => Victim \in D /\ heap'[Victim] = heap[Victim]
        BY <1>1, <1>11, <2>1, <2>3 DEF Whole, Waits
    <2>6. pc["reaper"] # "done" => at'["shell"] # Victim
        BY <1>2, <1>4, <2>1
    <2>7. pc["reaper"] \in {"idle", "free"} => \A h \in held' : h.ptr # Victim + Header
        BY <1>1, <1>2 DEF Whole, Waits
    <2>8. Waits(B)
        BY <1>1 DEF Whole
    <2>. QED
        BY <1>14, <2>4, <2>5, <2>6, <2>7, <2>8, WaitsKeep
<1>. QED
    BY <1>13, <1>15, <1>16, <1>18, <1>19, <1>20, <1>21, <1>22 DEF CallsInv, Whole

\* Once the reaper has called kfree, the victim's PCB is nobody's any more
\* (schedular.c:133).
LEMMA ReaperCallsKeeps ==
    ASSUME CallsInv, FreeCalled("reaper")
    PROVE  CallsInv'
<1>. USE DEF Task
<1>1. PICK B \in SUBSET Addr : Whole(B)
    BY DEF CallsInv
<1>2. /\ UNCHANGED <<heap, held, at, size, reg>> /\ pc["reaper"] = "idle"
      /\ pc' = [pc EXCEPT !["reaper"] = "free"]
    BY DEF FreeCalled, At, Goto
<1>3. CallsTypeOK
    BY DEF CallsInv
<1>4. pc'["reaper"] = "free" /\ pc'["shell"] = pc["shell"]
    BY <1>2, <1>3 DEF CallsTypeOK
<1>5. CallsTypeOK'
    BY <1>2, <1>3, <1>4 DEF CallsTypeOK, Releasing
<1>6. Tiles(B)' /\ Owned(B)' /\ InUse' \subseteq InUse /\ \A b \in B : End(b)' = End(b)
    <2>1. held' \subseteq held /\ Pcbs' \subseteq Pcbs
        BY <1>2, <1>4 DEF Pcbs
    <2>. QED
        BY <1>1, <1>2, <2>1, SizesKeep DEF Whole
<1>7. Chained(B)'
    BY <1>1, <1>2, <1>4 DEF Whole, Chained, Relinked, End
<1>8. Searches(B)'
    BY <1>1, <1>2, <1>4 DEF Whole, Searches, Neu
<1>9. Releases(B)'
    BY <1>1, <1>2, <1>4, <1>6 DEF Whole, Releases, End
<1>10. Waits(B)'
    BY <1>1, <1>2, <1>4 DEF Whole, Waits, Victim
<1>. QED
    BY <1>5, <1>6, <1>7, <1>8, <1>9, <1>10 DEF CallsInv, Whole

\* The victim's block is free from here, to the shell as well (kmalloc.c:60).
LEMMA ReaperFreesKeeps ==
    ASSUME CallsInv, Frees("reaper")
    PROVE  CallsInv'
<1>. USE DEF Task
<1>1. PICK B \in SUBSET Addr : Whole(B)
    BY DEF CallsInv
<1>2. /\ UNCHANGED <<held, at, size, reg>> /\ pc["reaper"] = "free"
      /\ pc' = [pc EXCEPT !["reaper"] = "hasNext"]
      /\ Write("reaper", [Mine("reaper") EXCEPT !.used = 0])
    BY DEF Frees, At, Goto
<1>3. CallsTypeOK /\ at["reaper"] = Victim
    BY DEF CallsInv, CallsTypeOK
<1>4. /\ Victim \in B /\ heap[Victim].used = 1
      /\ \A h \in held : h.ptr # Victim + Header
      /\ pc["shell"] \in Releasing => at["shell"] # Victim
    BY <1>1, <1>2 DEF Whole, Waits
<1>5. heap[Victim] \in Block /\ Victim \in Addr
    BY <1>1, <1>3, <1>4, TileFacts DEF Whole
<1>6. /\ heap' \in [Addr -> Block] /\ heap'[Victim] = [heap[Victim] EXCEPT !.used = 0]
      /\ \A a \in Addr : a # Victim => heap'[a] = heap[a]
    <2>1. [heap[Victim] EXCEPT !.used = 0] \in Block
        BY <1>5 DEF Block
    <2>. QED
        BY <1>2, <1>3, <1>5, <2>1, WriteFacts DEF Mine, CallsTypeOK
<1>7. /\ heap'[Victim].size = heap[Victim].size /\ heap'[Victim].used = 0
      /\ heap'[Victim].next = heap[Victim].next
    BY <1>5, <1>6 DEF Block
<1>8. \A a \in Addr : /\ heap'[a].size = heap[a].size /\ heap'[a].next = heap[a].next
                      /\ a # Victim => heap'[a].used = heap[a].used
                      /\ heap[a].used = 0 => heap'[a].used = 0
    BY <1>6, <1>7
<1>9. pc'["reaper"] = "hasNext" /\ pc'["shell"] = pc["shell"]
    BY <1>2, <1>3 DEF CallsTypeOK
<1>10. CallsTypeOK'
    BY <1>2, <1>3, <1>6, <1>9 DEF CallsTypeOK, Releasing
<1>11. B \subseteq Addr
    OBVIOUS
<1>12. Tiles(B)' /\ Owned(B)' /\ InUse' \subseteq InUse /\ \A b \in B : End(b)' = End(b)
    <2>1. held' \subseteq held /\ Pcbs' \subseteq Pcbs
        BY <1>2, <1>9 DEF Pcbs
    <2>2. \A b \in B : heap'[b].size = heap[b].size
        BY <1>8
    <2>3. ASSUME NEW g \in InUse PROVE heap'[g.ptr - Header].used = heap[g.ptr - Header].used
        <3>1. g.ptr # Victim + Header
            BY <1>1, <1>2, <1>3, <1>4, PcbFacts DEF InUse, Pcbs
        <3>2. g.ptr \in Int
            BY <1>3, SizesAssumption, HeapAssumption DEF InUse, Pcbs, Area, Pcb, CallsTypeOK, Addr
        <3>3. PICK b \in B : b = g.ptr - Header
            BY <1>1 DEF Whole, Owned
        <3>4. b # Victim
            BY <1>5, <3>1, <3>2, <3>3, HeapAssumption DEF Addr
        <3>. QED
            BY <1>8, <3>3, <3>4
    <2>. QED
        BY <1>1, <2>1, <2>2, <2>3, SizesKeep DEF Whole
<1>13. Chained(B)'
    BY <1>1, <1>2, <1>8, <1>9, <1>12 DEF Whole, Chained, Relinked
<1>14. Searches(B)'
    <2>1. PICK c : c = at["shell"] /\ c = at'["shell"]
        BY <1>2
    <2>2. PICK n : n = Neu /\ n = Neu'
        BY <1>2 DEF Neu
    <2>3. pc["shell"] \in {"neuNext", "curSize"} => n \in Addr
        <3>1. CASE pc["shell"] \in {"neuNext", "curSize"}
            <4>1. c \in B /\ size \in Requests /\ heap[c].size > size + Header
                BY <1>1, <2>1, <3>1 DEF Whole, Searches, Splitting
            <4>. QED
                BY <1>1, <1>3, <2>1, <2>2, <4>1, NeuFacts DEF Whole
        <3>. QED
            BY <3>1
    <2>4. pc["shell"] \in (Searching \cup Splitting) \ {"isFree"} => c \in Addr
        BY <1>1, <2>1 DEF Whole, Searches
    <2>5. UNCHANGED size /\ Searches(B)
        BY <1>1, <1>2 DEF Whole
    <2>. QED
        BY <1>8, <1>9, <2>1, <2>2, <2>3, <2>4, <2>5 DEF Searches, Searching, Splitting
<1>15. Releases(B)'
    <2>1. PICK c : c = at["shell"] /\ c = at'["shell"]
        BY <1>2
    <2>2. CASE pc["shell"] \notin Releasing
        BY <1>9, <2>2 DEF Releases, Releasing, Growing
    <2>3. CASE pc["shell"] \in Releasing
        <3>1. c \in B /\ c \in Addr /\ \A g \in InUse : g.ptr # c + Header
            BY <1>1, <1>11, <2>1, <2>3 DEF Whole, Releases
        <3>2. PICK gone : gone = heap[c].next /\ gone = heap'[c].next
            BY <1>8, <3>1
        <3>3. gone \in Addr \cup {Null}
            BY <1>1, <1>3, <3>1, <3>2, TileFacts DEF Whole
        <3>4. pc["shell"] \in {"loadSize", "addSize", "storeSize"} => gone \in Addr
            BY <1>1, <2>1, <3>2, <3>3 DEF Whole, Releases
        <3>5. pc["shell"] = "loadNext" => heap[gone].next = heap'[gone].next
            <4>1. pc["shell"] = "loadNext" => gone \in Addr
                BY <1>1, <1>3, <2>1, <2>3, <3>2, <3>3 DEF Whole, Releases
            <4>. QED
                BY <1>8, <4>1
        <3>6. End(c)' = End(c) /\ reg' = reg /\ Releases(B)
            BY <1>1, <1>2, <1>12, <3>1 DEF Whole
        <3>. QED
            BY <1>8, <1>9, <1>12, <2>1, <3>1, <3>2, <3>4, <3>5, <3>6
               DEF Releases, Releasing, Growing
    <2>. QED
        BY <2>2, <2>3
<1>16. Waits(B)'
    <2>1. heap'[0].size = heap[0].size
        BY <1>1, <1>3, <1>8, PcbFacts
    <2>2. pc["shell"] \in Growing => at["shell"] # Victim
        BY <1>4 DEF Releasing
    <2>. QED
        BY <1>1, <1>2, <1>4, <1>7, <1>9, <2>1, <2>2 DEF Whole, Waits, Victim
<1>. QED
    BY <1>10, <1>12, <1>13, <1>14, <1>15, <1>16 DEF CallsInv, Whole

\* It finds the PCB of the reaper behind the victim's, and merges nothing
\* (kmalloc.c:49).
LEMMA ReaperLooksKeeps ==
    ASSUME CallsInv, LooksBehind("reaper")
    PROVE  CallsInv'
<1>. USE DEF Task
<1>1. PICK B \in SUBSET Addr : Whole(B)
    BY DEF CallsInv
<1>2. UNCHANGED <<heap, held, at, size, reg>> /\ pc["reaper"] \in {"hasNext", "nextFree"}
    BY DEF LooksBehind, At
<1>3. CallsTypeOK /\ at["reaper"] = Victim
    BY DEF CallsInv, CallsTypeOK
<1>4. /\ Victim \in B /\ heap[Victim].next = Pcb(2) /\ Pcb(2) # Null /\ heap[Pcb(2)].used = 1
      /\ pc["shell"] \in Growing => at["shell"] # Victim
    BY <1>1, <1>2, <1>3, PcbFacts DEF Whole, Waits
<1>5. PICK l \in {"nextFree", "done"} : pc' = [pc EXCEPT !["reaper"] = l]
    BY <1>2, <1>3, <1>4 DEF LooksBehind, At, Goto, Mine, Finished
<1>6. pc'["reaper"] = l /\ pc'["shell"] = pc["shell"]
    BY <1>3, <1>5 DEF CallsTypeOK
<1>7. Looks
    BY <1>2, <1>5, <1>6 DEF Looks
<1>8. Tiles(B)' /\ Owned(B)' /\ InUse' = InUse /\ \A b \in B : End(b)' = End(b)
    BY <1>1, <1>7, LooksKeep DEF Whole
<1>9. CallsTypeOK'
    BY <1>2, <1>3, <1>5, <1>6 DEF CallsTypeOK, Releasing
<1>10. Chained(B)'
    BY <1>1, <1>2, <1>6, <1>8 DEF Whole, Chained, Relinked
<1>11. Searches(B)'
    BY <1>1, <1>2, <1>6 DEF Whole, Searches, Neu
<1>12. Releases(B)'
    BY <1>1, <1>2, <1>6, <1>8 DEF Whole, Releases, End
<1>13. Waits(B)'
    BY <1>1, <1>2, <1>4, <1>6 DEF Whole, Waits, Victim
<1>. QED
    BY <1>8, <1>9, <1>10, <1>11, <1>12, <1>13 DEF CallsInv, Whole

\* Every access of either task preserves it, but for the one split.
LEMMA CallsInvStep ==
    CallsInv /\ (PreemptedNext \/ UNCHANGED preemptedVars) /\ ~ SplitsUnderKfree => CallsInv'
<1>. SUFFICES ASSUME CallsInv, PreemptedNext \/ UNCHANGED preemptedVars, ~ SplitsUnderKfree
              PROVE  CallsInv'
    OBVIOUS
<1>1. CASE Preempt \/ UNCHANGED preemptedVars
    BY <1>1, PreemptKeeps
<1>2. CASE Malloc
    <2>1. CASE Shrinks
        BY <2>1, CutKeeps, RelinkKeeps DEF Shrinks, At
    <2>. QED
        BY <1>2, <2>1, MallocCalledKeeps, SearchKeeps, NewHeaderKeeps, MarksKeeps DEF Malloc
<1>3. CASE FreeCalled("shell") \/ Frees("shell") \/ LooksBehind("shell") \/ Grows("shell") \/ Unlinks("shell")
    <2>1. CASE Grows("shell")
        <3>1. pc["shell"] \in {"loadSize", "addSize", "storeSize"}
            BY <2>1 DEF Grows, At
        <3>. QED
            BY <2>1, <3>1, LoadsKeep, GrowsKeeps
    <2>2. CASE Unlinks("shell")
        <3>1. pc["shell"] \in {"loadNext", "storeNext"}
            BY <2>2 DEF Unlinks, At
        <3>. QED
            BY <2>2, <3>1, LoadsKeep, UnlinksKeeps
    <2>. QED
        BY <1>3, <2>1, <2>2, FreeCalledKeeps, FreesKeeps, LoadsKeep
<1>4. CASE FreeCalled("reaper") \/ Frees("reaper") \/ LooksBehind("reaper") \/ Grows("reaper") \/ Unlinks("reaper")
    <2>1. pc["reaper"] \in {"idle", "free", "hasNext", "nextFree", "done"}
        BY DEF CallsInv, Whole, Waits
    <2>2. ~ Grows("reaper") /\ ~ Unlinks("reaper")
        BY <2>1 DEF Grows, Unlinks, At
    <2>. QED
        BY <1>4, <2>2, ReaperCallsKeeps, ReaperFreesKeeps, ReaperLooksKeeps
<1>. QED
    BY <1>1, <1>2, <1>3, <1>4 DEF PreemptedNext, Free, Task

\* Blocks of different owners lie apart.
LEMMA CallsInvMeans == CallsInv => HarmNeedsSplit
<1>. SUFFICES ASSUME CallsInv PROVE HarmNeedsSplit
    OBVIOUS
<1>1. PICK B \in SUBSET Addr : Whole(B)
    BY DEF CallsInv
<1>2. CallsTypeOK /\ Tiles(B) /\ Owned(B)
    BY <1>1 DEF CallsInv, Whole
<1>3. ASSUME NEW g \in InUse
      PROVE  /\ g.ptr \in Int /\ g.ptr - Header \in B
             /\ heap[g.ptr - Header].used = 1 /\ g.len <= heap[g.ptr - Header].size
             /\ g.ptr + heap[g.ptr - Header].size = End(g.ptr - Header)
    <2>1. g.ptr \in Int
        BY <1>2, SizesAssumption, HeapAssumption DEF InUse, Pcbs, Area, Pcb, CallsTypeOK, Addr
    <2>2. PICK b \in B : b = g.ptr - Header
        BY <1>2 DEF Owned
    <2>3. b \in Nat /\ heap[b].size \in Nat
        BY <1>2, TileFacts
    <2>4. g.ptr + heap[b].size = End(b)
        BY <2>1, <2>2, <2>3, HeapAssumption DEF End
    <2>. QED
        BY <1>2, <2>1, <2>2, <2>4 DEF Owned
<1>4. ASSUME NEW g \in InUse, NEW h \in InUse \ {g} PROVE Apart(g, h)
    <2>1. PICK b \in B, d \in B : b = g.ptr - Header /\ d = h.ptr - Header
        BY <1>3
    <2>2. b \in Nat /\ d \in Nat
        BY <1>2, TileFacts
    <2>3. g.ptr # h.ptr
        BY <1>2 DEF Owned
    <2>4. b # d
        BY <1>3, <2>1, <2>3, HeapAssumption
    <2>5. End(b) <= d \/ End(d) <= b
        BY <1>2, <2>2, <2>4 DEF Tiles
    <2>. QED
        BY <1>3, <2>1, <2>5 DEF Apart
<1>. QED
    BY <1>3, <1>4 DEF HarmNeedsSplit

\* However often the timer interrupts kmalloc and kfree, wherever, and whichever call
\* begins inside another one: as long as kmalloc has not split the block of a kfree
\* that is not over (kmalloc.c:30-37, 60-61), every area in use has a block of its own,
\* marked used and large enough, for every heap, every request and every size of a PCB.
THEOREM HarmNeedsASplit == PreemptedSpec => []HarmNeedsSplit
<1>. DEFINE I == ~ split => CallsInv
<1>1. PreemptedInit => I
    BY CallsInvInit
<1>2. I /\ [PreemptedNext /\ split' = (split \/ SplitsUnderKfree)]_preemptedVars => I'
    <2>. SUFFICES ASSUME I, [PreemptedNext /\ split' = (split \/ SplitsUnderKfree)]_preemptedVars,
                         ~ split'
                  PROVE  CallsInv'
        OBVIOUS
    <2>1. CASE UNCHANGED preemptedVars
        <3>1. ~ split
            BY <2>1 DEF preemptedVars
        <3>. QED
            BY <2>1, <3>1, PreemptKeeps
    <2>2. CASE PreemptedNext /\ split' = (split \/ SplitsUnderKfree)
        <3>1. ~ split /\ ~ SplitsUnderKfree
            BY <2>2
        <3>. QED
            BY <2>2, <3>1, CallsInvStep
    <2>. QED
        BY <2>1, <2>2
<1>3. I => HarmNeedsSplit
    BY CallsInvMeans DEF HarmNeedsSplit
<1>. HIDE DEF I
<1>. QED
    BY <1>1, <1>2, <1>3, PTL DEF PreemptedSpec

=============================================================================
