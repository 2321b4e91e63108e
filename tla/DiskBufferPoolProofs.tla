------------------------ MODULE DiskBufferPoolProofs ------------------------
(***************************************************************************)
(* Proofs about DiskBufferPool for any number of frames, files, pages and  *)
(* handles: a held page stays where it is, the frame lists are sound, the  *)
(* header counts its bitmap.  Reads may fail; writes do not                *)
(* (a failed extension leaves a hole whose page number reads as 0).        *)
(***************************************************************************)
EXTENDS DiskBufferPool, FiniteSetTheorems, WellFoundedInduction, TLAPS

Holders(f) == {h \in Handle : ph[h].open /\ ph[h].frame = f}

IsHeader(f) == \E id \in FileId : IsOpen(id) /\ openFile[id].hdr = f

\* The page table maps a page to the frame that holds it.
TableMatches ==
  \A k \in FD \X PageNum : pageTable[k] # NoFrame =>
    frames[pageTable[k]].fd = k[1] /\ frames[pageTable[k]].pn = k[2]

\* Each handle accounts for one pin of its frame.
PinsHeld == \A f \in FrameId : frames[f].pin >= Cardinality(Holders(f))

\* A held page is a data page and is in its frame.
HandlesMatch ==
  \A h \in Handle : ph[h].open =>
    /\ frames[ph[h].frame].fd = ph[h].fd
    /\ frames[ph[h].frame].pn = ph[h].pn
    /\ ph[h].pn # 0
    /\ DescOpen(fdFile, ph[h].fd)

\* The header frame of an open file is pinned and holds the header page.
HeaderOk(id) ==
  LET f == frames[openFile[id].hdr]
  IN  /\ f.pin > 0
      /\ f.fd = openFile[id].fd
      /\ f.pn = 0
      /\ f.data \in Header
      /\ 0 \in f.data.bits
      /\ \A p \in f.data.bits : p < f.data.count
      /\ f.data.alloc = Cardinality(f.data.bits)
      /\ \A p \in PageNum : p < f.data.count => disk[openFile[id].name][p] # Hole

HeadersMatch == \A id \in FileId : IsOpen(id) => HeaderOk(id)

\* An entry for a page 0 is that of an open file's header.
HeaderEntries ==
  \A k \in FD \X PageNum : pageTable[k] # NoFrame /\ k[2] = 0 => IsHeader(pageTable[k])

\* An open file has its descriptor and exists; free file ids are not open.
DescriptorsMatch ==
  /\ \A id \in FileId : IsOpen(id) => fdFile[openFile[id].fd] = openFile[id].name
  /\ \A fd \in FD : fdFile[fd] # NoFile => fdFile[fd] \in files
  /\ Distinct(freeIds)
  /\ \A id \in Elems(freeIds) : ~IsOpen(id)

\* A dirty frame is to be written to a data page, or holds a header.
DirtyFrames ==
  \A f \in FrameId : frames[f].dirty =>
    /\ DescOpen(fdFile, frames[f].fd)
    /\ frames[f].pn = 0 => IsHeader(f)

\* A header on disk is the one create_file wrote.
DiskHeaders ==
  \A n \in FileName : disk[n][0] = IF n \in files THEN NewHeader ELSE Hole

IInv ==
  /\ TypeOK
  /\ ReusableFrames
  /\ TableMatches
  /\ PinsHeld
  /\ HandlesMatch
  /\ HeadersMatch
  /\ HeaderEntries
  /\ DescriptorsMatch
  /\ DirtyFrames
  /\ DiskHeaders

-----------------------------------------------------------------------------
(* Lists of frames *)

\* The elements of a list of frames are frames.
LEMMA ElemsIn ==
  ASSUME NEW S, NEW s \in Seq(S)
  PROVE  Elems(s) \subseteq S
BY DEF Elems

\* Removing a frame from a list without duplicates (LRUReplacer::Pin).
LEMMA WithoutLemma ==
  ASSUME NEW S, NEW s \in Seq(S), Distinct(s), NEW f
  PROVE  /\ Without(s, f) \in Seq(S)
         /\ Distinct(Without(s, f))
         /\ Elems(Without(s, f)) = Elems(s) \ {f}
<1>1. CASE f \notin Elems(s)
  BY <1>1 DEF Without
<1>2. CASE f \in Elems(s)
  <2> DEFINE k == CHOOSE i \in DOMAIN s : s[i] = f
             t == [i \in 1 .. Len(s) - 1 |-> IF i < k THEN s[i] ELSE s[i + 1]]
  <2>1. k \in DOMAIN s /\ s[k] = f
    BY <1>2 DEF Elems
  <2>2. DOMAIN s = 1 .. Len(s) /\ Len(s) \in Nat
    OBVIOUS
  <2> HIDE DEF k
  <2>3. Without(s, f) = t
    BY <1>2 DEF Without, k
  <2>4. Len(s) - 1 \in Nat
    BY <2>1, <2>2
  <2>5. t \in Seq(S) /\ DOMAIN t = 1 .. Len(s) - 1
    BY <2>1, <2>2, <2>4
  <2>6. Distinct(t)
    BY <2>1, <2>2, <2>5 DEF Distinct
  <2>7. ASSUME NEW x \in Elems(t) PROVE x \in Elems(s) \ {f}
    BY <2>1, <2>2, <2>5 DEF Elems, Distinct
  <2>8. ASSUME NEW x \in Elems(s) \ {f} PROVE x \in Elems(t)
    <3>1. PICK j \in DOMAIN s : s[j] = x
      BY DEF Elems
    <3>2. CASE j < k
      BY <3>1, <3>2, <2>1, <2>2, <2>5 DEF Elems
    <3>3. CASE j > k
      <4>1. j - 1 \in DOMAIN t /\ t[j - 1] = x
        BY <3>1, <3>3, <2>1, <2>2, <2>5
      <4>2. QED
        BY <4>1 DEF Elems
    <3>4. j # k
      BY <3>1, <2>1
    <3>5. QED
      BY <3>2, <3>3, <3>4, <2>1, <2>2
  <2>9. QED
    BY <2>3, <2>5, <2>6, <2>7, <2>8
<1>3. QED
  BY <1>1, <1>2

\* The rest of a list without duplicates (free_list_.pop_front).
LEMMA TailLemma ==
  ASSUME NEW S, NEW s \in Seq(S), s # <<>>, Distinct(s)
  PROVE  /\ Head(s) \in Elems(s) /\ Head(s) \in S
         /\ Tail(s) \in Seq(S)
         /\ Distinct(Tail(s))
         /\ Elems(Tail(s)) = Elems(s) \ {Head(s)}
<1>1. /\ Len(s) \in Nat \ {0} /\ DOMAIN s = 1 .. Len(s) /\ Head(s) = s[1]
      /\ Tail(s) \in Seq(S) /\ Len(Tail(s)) = Len(s) - 1
      /\ DOMAIN Tail(s) = 1 .. Len(s) - 1
      /\ \A i \in 1 .. Len(s) - 1 : Tail(s)[i] = s[i + 1]
  OBVIOUS
<1>2. Head(s) \in Elems(s) /\ Head(s) \in S
  BY <1>1 DEF Elems
<1>3. Distinct(Tail(s))
  BY <1>1 DEF Distinct
<1>4. ASSUME NEW x \in Elems(Tail(s)) PROVE x \in Elems(s) \ {Head(s)}
  BY <1>1 DEF Elems, Distinct
<1>5. ASSUME NEW x \in Elems(s) \ {Head(s)} PROVE x \in Elems(Tail(s))
  <2>1. PICK j \in DOMAIN s : s[j] = x
    BY DEF Elems
  <2>2. j - 1 \in DOMAIN Tail(s) /\ Tail(s)[j - 1] = x
    BY <2>1, <1>1
  <2>3. QED
    BY <2>2 DEF Elems
<1>6. QED
  BY <1>1, <1>2, <1>3, <1>4, <1>5

\* A frame put at the back of a list that does not hold it (push_back).
LEMMA AppendLemma ==
  ASSUME NEW S, NEW s \in Seq(S), NEW f \in S, Distinct(s), f \notin Elems(s)
  PROVE  /\ Append(s, f) \in Seq(S)
         /\ Distinct(Append(s, f))
         /\ Elems(Append(s, f)) = Elems(s) \cup {f}
<1>1. /\ Len(s) \in Nat /\ DOMAIN s = 1 .. Len(s)
      /\ Append(s, f) \in Seq(S) /\ DOMAIN Append(s, f) = 1 .. Len(s) + 1
      /\ \A i \in 1 .. Len(s) : Append(s, f)[i] = s[i]
      /\ Append(s, f)[Len(s) + 1] = f
  OBVIOUS
<1>2. Distinct(Append(s, f))
  BY <1>1 DEF Distinct, Elems
<1>3. ASSUME NEW x \in Elems(Append(s, f)) PROVE x \in Elems(s) \cup {f}
  BY <1>1 DEF Elems
<1>4. ASSUME NEW x \in Elems(s) \cup {f} PROVE x \in Elems(Append(s, f))
  <2>1. CASE x = f
    BY <2>1, <1>1 DEF Elems
  <2>2. CASE x \in Elems(s)
    <3>1. PICK j \in DOMAIN s : s[j] = x
      BY <2>2 DEF Elems
    <3>2. j \in DOMAIN Append(s, f) /\ Append(s, f)[j] = x
      BY <3>1, <1>1
    <3>3. QED
      BY <3>2 DEF Elems
  <2>3. QED
    BY <2>1, <2>2
<1>5. QED
  BY <1>1, <1>2, <1>3, <1>4

\* LRUReplacer::Unpin adds at most the frame it is given.
LEMMA LruUnpinLemma ==
  ASSUME NEW s \in Seq(FrameId), NEW f \in FrameId, Distinct(s)
  PROVE  /\ LruUnpin(s, f) \in Seq(FrameId)
         /\ Distinct(LruUnpin(s, f))
         /\ Elems(LruUnpin(s, f)) \subseteq Elems(s) \cup {f}
<1> DEFINE t == IF f \in Elems(s) THEN s ELSE <<f>> \o s
<1>1. t \in Seq(FrameId) /\ Distinct(t) /\ Elems(t) \subseteq Elems(s) \cup {f}
  <2>1. CASE f \in Elems(s)
    BY <2>1
  <2>2. CASE f \notin Elems(s)
    <3>1. /\ Len(s) \in Nat /\ DOMAIN s = 1 .. Len(s)
          /\ t \in Seq(FrameId) /\ Len(t) = Len(s) + 1 /\ DOMAIN t = 1 .. Len(s) + 1
          /\ t[1] = f /\ \A i \in 2 .. Len(s) + 1 : t[i] = s[i - 1]
      BY <2>2
    <3> HIDE DEF t
    <3>2. \A i \in 2 .. Len(s) + 1 : i - 1 \in DOMAIN s
      BY <3>1
    <3>3. \A i \in 2 .. Len(s) + 1 : t[i] \in Elems(s) /\ t[i] # f
      BY <3>1, <3>2, <2>2 DEF Elems
    <3>4. Distinct(t)
      <4> SUFFICES ASSUME NEW i \in DOMAIN t, NEW j \in DOMAIN t, t[i] = t[j]
                   PROVE  i = j
        BY DEF Distinct
      <4>1. CASE i = 1 \/ j = 1
        BY <4>1, <3>1, <3>3
      <4>2. CASE i # 1 /\ j # 1
        <5>1. i \in 2 .. Len(s) + 1 /\ j \in 2 .. Len(s) + 1
          BY <4>2, <3>1
        <5>2. s[i - 1] = s[j - 1] /\ i - 1 \in DOMAIN s /\ j - 1 \in DOMAIN s
          BY <5>1, <3>1, <3>2
        <5>3. i - 1 = j - 1
          BY <5>2 DEF Distinct
        <5>4. QED
          BY <5>1, <5>3
      <4>3. QED
        BY <4>1, <4>2
    <3>5. \A i \in DOMAIN t : t[i] \in Elems(s) \cup {f}
      BY <3>1, <3>3
    <3>6. QED
      BY <3>1, <3>4, <3>5 DEF Elems
  <2>3. QED
    BY <2>1, <2>2
<1> HIDE DEF t
<1>2. LruUnpin(s, f) = IF Len(t) > NumFrames THEN SubSeq(t, 1, Len(t) - 1) ELSE t
  BY DEF LruUnpin, t
<1>3. CASE Len(t) > NumFrames
  <2> DEFINE u == SubSeq(t, 1, Len(t) - 1)
  <2>1. /\ Len(t) \in Nat \ {0} /\ DOMAIN t = 1 .. Len(t)
        /\ u \in Seq(FrameId) /\ DOMAIN u = 1 .. Len(t) - 1
        /\ \A i \in 1 .. Len(t) - 1 : u[i] = t[i] /\ i \in DOMAIN t
    BY <1>1, <1>3, SizeAssumption
  <2> HIDE DEF u
  <2>2. Distinct(u)
    BY <2>1, <1>1 DEF Distinct
  <2>3. Elems(u) \subseteq Elems(t)
    BY <2>1 DEF Elems
  <2>4. QED
    BY <1>1, <1>2, <1>3, <2>1, <2>2, <2>3 DEF u
<1>4. QED
  BY <1>1, <1>2, <1>3

-----------------------------------------------------------------------------
(* alloc() and allocate_block *)

\* What alloc() returns: an unpinned frame that is then on no list, in no
\* page-table entry, and behind no handle.
LEMMA AllocLemma ==
  ASSUME IInv, HasFrame
  PROVE  /\ AllocId \in FrameId
         /\ frames[AllocId].pin = 0
         /\ Holders(AllocId) = {}
         /\ ~IsHeader(AllocId)
         /\ FreeAfterAlloc \in Seq(FrameId)
         /\ Distinct(FreeAfterAlloc)
         /\ Elems(FreeAfterAlloc) \subseteq Elems(freeList) \ {AllocId}
         /\ LruAfterAlloc \in Seq(FrameId)
         /\ Distinct(LruAfterAlloc)
         /\ Elems(LruAfterAlloc) \subseteq Elems(lru) \ {AllocId}
         /\ TableAfterAlloc \in [FD \X PageNum -> FrameId \cup {NoFrame}]
         /\ \A k \in FD \X PageNum : TableAfterAlloc[k] \in {pageTable[k], NoFrame} \ {AllocId}
<1> DEFINE a == AllocId
<1>0. /\ freeList \in Seq(FrameId) /\ lru \in Seq(FrameId)
      /\ Distinct(freeList) /\ Distinct(lru)
      /\ Elems(freeList) \cap Elems(lru) = {}
      /\ \A f \in Elems(freeList) \cup Elems(lru) : frames[f].pin = 0
      /\ \A k \in FD \X PageNum : pageTable[k] \notin Elems(freeList)
      /\ pageTable \in [FD \X PageNum -> FrameId \cup {NoFrame}]
      /\ frames \in [FrameId -> Frame]
  BY DEF IInv, TypeOK, ReusableFrames
<1>1. a \in FrameId /\ a \in Elems(freeList) \cup Elems(lru)
  <2>1. CASE freeList # <<>>
    BY <2>1, <1>0, TailLemma DEF AllocId
  <2>2. CASE freeList = <<>>
    <3>1. lru # <<>>
      BY <2>2 DEF HasFrame
    <3>2. Len(lru) \in DOMAIN lru /\ lru[Len(lru)] \in FrameId
      BY <3>1, <1>0
    <3>3. QED
      BY <2>2, <3>2 DEF AllocId, Elems
  <2>3. QED
    BY <2>1, <2>2
<1>2. frames[a].pin = 0
  BY <1>0, <1>1
<1>3. Holders(a) = {}
  <2> SUFFICES ASSUME NEW h \in Holders(a) PROVE FALSE
    OBVIOUS
  <2>1. Cardinality(Holders(a)) <= 0
    BY <1>1, <1>2, SetAssumption, FS_Subset, FS_CardinalityType DEF IInv, PinsHeld, Holders
  <2>2. IsFiniteSet(Holders(a))
    BY SetAssumption, FS_Subset DEF Holders
  <2>3. Cardinality(Holders(a)) = 0
    BY <2>1, <2>2, FS_CardinalityType
  <2>4. QED
    BY <2>2, <2>3, FS_EmptySet
<1>4. ~IsHeader(a)
  BY <1>1, <1>2 DEF IsHeader, IInv, HeadersMatch, HeaderOk
<1>5. /\ FreeAfterAlloc \in Seq(FrameId) /\ Distinct(FreeAfterAlloc)
      /\ Elems(FreeAfterAlloc) \subseteq Elems(freeList) \ {a}
  <2>1. CASE freeList # <<>>
    BY <2>1, <1>0, TailLemma DEF FreeAfterAlloc, AllocId
  <2>2. CASE freeList = <<>>
    BY <2>2, <1>0 DEF FreeAfterAlloc, Elems
  <2>3. QED
    BY <2>1, <2>2
<1>6. /\ LruAfterAlloc \in Seq(FrameId) /\ Distinct(LruAfterAlloc)
      /\ Elems(LruAfterAlloc) \subseteq Elems(lru) \ {a}
  BY <1>0, WithoutLemma DEF LruAfterAlloc
<1>7. /\ TableAfterAlloc \in [FD \X PageNum -> FrameId \cup {NoFrame}]
      /\ \A k \in FD \X PageNum : TableAfterAlloc[k] \in {pageTable[k], NoFrame}
  BY <1>0 DEF TableAfterAlloc, Erase
<1>8. ASSUME NEW k \in FD \X PageNum PROVE TableAfterAlloc[k] # a
  <2>0. a # NoFrame
    BY <1>1 DEF FrameId, NoFrame
  <2>1. CASE freeList # <<>>
    <3>1. a \in Elems(freeList)
      BY <2>1, <1>0, TailLemma DEF AllocId
    <3>2. QED
      BY <2>1, <3>1, <1>0 DEF TableAfterAlloc
  <2>2. CASE freeList = <<>>
    <3>1. TableAfterAlloc = Erase(pageTable, frames[a].fd, frames[a].pn)
      BY <2>2 DEF TableAfterAlloc
    <3>2. CASE pageTable[k] # a
      BY <3>1, <3>2, <2>0 DEF Erase
    <3>3. CASE pageTable[k] = a
      <4>1. k = <<frames[a].fd, frames[a].pn>>
        BY <3>3, <2>0 DEF IInv, TableMatches
      <4>2. QED
        BY <3>1, <4>1, <2>0 DEF Erase
    <3>4. QED
      BY <3>2, <3>3
  <2>3. QED
    BY <2>1, <2>2
<1>9. QED
  BY <1>1, <1>2, <1>3, <1>4, <1>5, <1>6, <1>7, <1>8

\* The flush in allocate_block touches no header and makes no hole.
LEMMA BlockDiskLemma ==
  ASSUME IInv, NEW ft \in [FD -> FileName \cup {NoFile}], BlockReady(ft),
         NEW fr, fr[AllocId] = frames[AllocId]
  PROVE  LET d == DiskAfterBlock(ft, fr)
         IN  /\ d \in [FileName -> [PageNum -> Content \cup {Hole}]]
             /\ \A n \in FileName : d[n][0] = disk[n][0]
             /\ \A n \in FileName, p \in PageNum : disk[n][p] # Hole => d[n][p] # Hole
<1> DEFINE a == AllocId
           d == DiskAfterBlock(ft, fr)
<1>0. disk \in [FileName -> [PageNum -> Content \cup {Hole}]] /\ 0 \in PageNum
  BY SizeAssumption DEF IInv, TypeOK, PageNum
<1>1. a \in FrameId /\ ~IsHeader(a) /\ HasFrame
  BY AllocLemma DEF BlockReady
<1>2. CASE ~frames[a].dirty
  <2>1. d = disk
    BY <1>2 DEF DiskAfterBlock
  <2>2. QED
    BY <2>1, <1>0
<1>3. CASE frames[a].dirty
  <2>1. frames[a] \in Frame
    BY <1>1 DEF IInv, TypeOK
  <2>2. frames[a].fd \in FD /\ ft[frames[a].fd] \in FileName
    BY <1>3 DEF BlockReady, DescOpen
  <2>3. frames[a].pn \in PageNum \ {0} /\ frames[a].data \in Content
    BY <2>1, <1>1, <1>3 DEF IInv, DirtyFrames, Frame
  <2>4. d = [disk EXCEPT ![ft[frames[a].fd]][frames[a].pn] = frames[a].data]
    BY <1>3 DEF DiskAfterBlock, Flushed
  <2>5. frames[a].data # Hole
    BY <2>3, NameAssumption
  <2> HIDE DEF d
  <2> QED
    BY <2>2, <2>3, <2>4, <2>5, <1>0 DEF d
<1>4. QED
  BY <1>2, <1>3

-----------------------------------------------------------------------------
(* get_this_page *)

\* fr is frames, but for a header of file id that still counts its bitmap.
GoodFrames(fr, id) ==
  /\ fr \in [FrameId -> Frame]
  /\ \A f \in FrameId : fr[f].pin = frames[f].pin /\ fr[f].fd = frames[f].fd
                        /\ fr[f].pn = frames[f].pn /\ fr[f].dirty = frames[f].dirty
  /\ \A f \in FrameId : f # openFile[id].hdr => fr[f] = frames[f]
  /\ LET x == fr[openFile[id].hdr].data
     IN  /\ x \in Header /\ 0 \in x.bits /\ x.count = Hdr(id).count
         /\ \A p \in x.bits : p < x.count
         /\ x.alloc = Cardinality(x.bits)

\* An open file's handle is well formed and its descriptor is open.
LEMMA OpenDesc ==
  ASSUME IInv, NEW id \in FileId, IsOpen(id)
  PROVE  openFile[id] \in FileHandle /\ DescOpen(fdFile, openFile[id].fd)
<1>1. openFile[id] \in FileHandle
  BY DEF IInv, TypeOK, IsOpen
<1>2. fdFile[openFile[id].fd] = openFile[id].name
  BY DEF IInv, DescriptorsMatch
<1>3. openFile[id].name # NoFile /\ openFile[id].fd \in FD
  BY <1>1, NameAssumption DEF FileHandle
<1>4. QED
  BY <1>1, <1>2, <1>3 DEF DescOpen

\* One more handle on frame f.
LEMMA AddHolder ==
  ASSUME IInv, NEW h \in Handle, ~ph[h].open, NEW f \in FrameId, NEW fd, NEW p,
         ph' = [ph EXCEPT ![h] = [open |-> TRUE, frame |-> f, fd |-> fd, pn |-> p]]
  PROVE  /\ Cardinality(Holders(f)') = Cardinality(Holders(f)) + 1
         /\ \A g \in FrameId \ {f} : Holders(g)' = Holders(g)
<1>0. ph \in [Handle -> PageHandle \cup {Closed}]
  BY DEF IInv, TypeOK
<1>1. Holders(f)' = Holders(f) \cup {h} /\ h \notin Holders(f)
  BY <1>0 DEF Holders
<1>2. IsFiniteSet(Holders(f))
  BY SetAssumption, FS_Subset DEF Holders
<1>3. \A g \in FrameId \ {f} : Holders(g)' = Holders(g)
  BY <1>0 DEF Holders
<1>4. QED
  BY <1>1, <1>2, <1>3, FS_AddElement

\* get_this_page pins the page in frame f for the handle h.
Pins(h, id, p, fr, f) ==
  /\ frames' = [fr EXCEPT ![f].pin = @ + 1]
  /\ lru' = Without(lru, f)
  /\ ph' = [ph EXCEPT ![h] = [open |-> TRUE, frame |-> f, fd |-> openFile[id].fd, pn |-> p]]

\* Pinning a cached page preserves the invariant.
LEMMA HitLemma ==
  ASSUME IInv, NEW h \in Handle, NEW id \in FileId, NEW p \in PageNum \ {0}, NEW fr,
         ~ph[h].open, IsOpen(id), GoodFrames(fr, id),
         NEW f, f = pageTable[<<openFile[id].fd, p>>], f # NoFrame, Pins(h, id, p, fr, f),
         UNCHANGED <<freeList, pageTable, disk, openFile, freeIds, files, fdFile>>
  PROVE  IInv'
<1> USE DEF IInv
<1>0. TypeOK /\ openFile[id] \in FileHandle
  BY DEF TypeOK, IsOpen
<1>1. /\ f \in FrameId
      /\ frames[f].fd = openFile[id].fd /\ frames[f].pn = p
  BY <1>0 DEF TypeOK, FileHandle, TableMatches
<1>2. \A i \in FileId : IsOpen(i) => openFile[i].hdr # f /\ openFile[i].hdr \in FrameId
  BY <1>1 DEF HeadersMatch, HeaderOk, TypeOK, IsOpen, FileHandle
<1>3. /\ lru' \in Seq(FrameId) /\ Distinct(lru') /\ Elems(lru') = Elems(lru) \ {f}
  BY <1>0, WithoutLemma DEF TypeOK, ReusableFrames, Pins
<1>4. /\ frames' \in [FrameId -> Frame]
      /\ frames'[f].pin = frames[f].pin + 1
      /\ \A g \in FrameId : /\ frames'[g].fd = frames[g].fd /\ frames'[g].pn = frames[g].pn
                            /\ frames'[g].dirty = frames[g].dirty
                            /\ g # f => frames'[g] = fr[g] /\ frames'[g].pin = frames[g].pin
  <2>1. fr[f] \in Frame /\ fr[f].pin \in Nat
    BY <1>1 DEF GoodFrames, Frame
  <2>2. frames' = [fr EXCEPT ![f].pin = fr[f].pin + 1]
    BY DEF Pins
  <2>3. frames' \in [FrameId -> Frame] /\ frames'[f].pin = frames[f].pin + 1
    BY <1>1, <2>1, <2>2 DEF GoodFrames, Frame
  <2>4. ASSUME NEW g \in FrameId
        PROVE  /\ frames'[g].fd = frames[g].fd /\ frames'[g].pn = frames[g].pn
               /\ frames'[g].dirty = frames[g].dirty
               /\ g # f => frames'[g] = fr[g] /\ frames'[g].pin = frames[g].pin
    BY <1>1, <2>1, <2>2 DEF GoodFrames, Frame
  <2>5. QED
    BY <2>3, <2>4
<1>5. TypeOK'
  <2>1. [open |-> TRUE, frame |-> f, fd |-> openFile[id].fd, pn |-> p] \in PageHandle
    BY <1>0, <1>1 DEF PageHandle, FileHandle
  <2>2. QED
    BY <1>0, <1>3, <1>4, <2>1 DEF TypeOK, Pins
<1>6. ReusableFrames'
  <2>1. f \notin Elems(freeList)
    BY <1>0 DEF ReusableFrames, TypeOK, FileHandle
  <2>2. \A g \in Elems(freeList) \cup Elems(lru) : g \in FrameId
    BY <1>0 DEF TypeOK, Elems
  <2>3. QED
    BY <1>3, <1>4, <2>1, <2>2 DEF ReusableFrames
<1>7. TableMatches'
  BY <1>0, <1>4 DEF TableMatches, TypeOK
<1>8. PinsHeld'
  <2>1. /\ Cardinality(Holders(f)') = Cardinality(Holders(f)) + 1
        /\ \A g \in FrameId \ {f} : Holders(g)' = Holders(g)
    BY <1>1, AddHolder DEF Pins
  <2>2. Cardinality(Holders(f)) \in Nat
    BY SetAssumption, FS_Subset, FS_CardinalityType DEF Holders
  <2>3. frames[f].pin >= Cardinality(Holders(f)) /\ frames[f].pin \in Nat
    BY <1>0, <1>1 DEF PinsHeld, TypeOK, Frame
  <2>4. frames'[f].pin >= Cardinality(Holders(f)')
    BY <1>4, <2>1, <2>2, <2>3
  <2>5. QED
    BY <1>4, <2>1, <2>4 DEF PinsHeld
<1>9. HandlesMatch'
  <2> SUFFICES ASSUME NEW g \in Handle, ph'[g].open
               PROVE  /\ frames'[ph'[g].frame].fd = ph'[g].fd
                      /\ frames'[ph'[g].frame].pn = ph'[g].pn
                      /\ ph'[g].pn # 0
                      /\ DescOpen(fdFile, ph'[g].fd)
    BY DEF HandlesMatch, DescOpen
  <2>1. CASE g = h
    <3>1. ph'[g] = [open |-> TRUE, frame |-> f, fd |-> openFile[id].fd, pn |-> p]
      BY <2>1, <1>0, <1>1 DEF TypeOK, Pins
    <3>2. QED
      BY <3>1, <1>1, <1>4, OpenDesc
  <2>2. CASE g # h
    <3>1. ph'[g] = ph[g] /\ ph[g].open /\ ph[g].frame \in FrameId
      BY <2>2, <1>0 DEF TypeOK, PageHandle, Closed, Pins
    <3>2. QED
      BY <3>1, <1>4 DEF HandlesMatch
  <2>3. QED
    BY <2>1, <2>2
<1>10. HeadersMatch'
  <2> SUFFICES ASSUME NEW i \in FileId, IsOpen(i)
               PROVE  HeaderOk(i)'
    BY DEF HeadersMatch, IsOpen
  <2>1. frames'[openFile[i].hdr] = fr[openFile[i].hdr] /\ HeaderOk(i)
    BY <1>2, <1>4 DEF HeadersMatch
  <2>2. CASE openFile[i].hdr # openFile[id].hdr
    BY <1>2, <2>1, <2>2 DEF HeaderOk, GoodFrames
  <2>3. CASE openFile[i].hdr = openFile[id].hdr
    <3>1. LET x == frames'[openFile[i].hdr].data
          IN  /\ x \in Header /\ 0 \in x.bits /\ x.count = frames[openFile[i].hdr].data.count
              /\ \A q \in x.bits : q < x.count
              /\ x.alloc = Cardinality(x.bits)
      BY <2>1, <2>3 DEF GoodFrames, Hdr
    <3>2. /\ frames'[openFile[i].hdr].pin = frames[openFile[i].hdr].pin
          /\ frames'[openFile[i].hdr].fd = frames[openFile[i].hdr].fd
          /\ frames'[openFile[i].hdr].pn = frames[openFile[i].hdr].pn
      BY <1>2, <2>1 DEF GoodFrames
    <3>3. QED
      BY <2>1, <3>1, <3>2 DEF HeaderOk
  <2>4. QED
    BY <2>2, <2>3
<1>11. DescriptorsMatch'
  BY DEF DescriptorsMatch, IsOpen
<1>12. DirtyFrames'
  BY <1>4 DEF DirtyFrames, DescOpen, IsHeader, IsOpen
<1>13. DiskHeaders'
  BY DEF DiskHeaders
<1>14. HeaderEntries'
  BY DEF HeaderEntries, IsHeader, IsOpen
<1> QED
  BY <1>14, <1>5, <1>6, <1>7, <1>8, <1>9, <1>10, <1>11, <1>12, <1>13

\* A new frame takes page p of descriptor fd: the lists and the page table stay sound.
LEMMA InstallLemma ==
  ASSUME IInv, HasFrame, NEW fd \in FD, NEW p \in PageNum,
         freeList' = FreeAfterAlloc,
         lru' = LruAfterAlloc,
         pageTable' = [TableAfterAlloc EXCEPT ![<<fd, p>>] = AllocId],
         frames'[AllocId].fd = fd, frames'[AllocId].pn = p,
         \A f \in FrameId \ {AllocId} :
           frames'[f].pin = frames[f].pin /\ frames'[f].fd = frames[f].fd
           /\ frames'[f].pn = frames[f].pn
  PROVE  /\ freeList' \in Seq(FrameId)
         /\ lru' \in Seq(FrameId)
         /\ pageTable' \in [FD \X PageNum -> FrameId \cup {NoFrame}]
         /\ ReusableFrames'
         /\ TableMatches'
<1>0. TypeOK /\ ReusableFrames /\ TableMatches
  BY DEF IInv
<1>1. PICK a : a = AllocId
  OBVIOUS
<1>2. /\ a \in FrameId
      /\ freeList' \in Seq(FrameId) /\ Distinct(freeList')
      /\ Elems(freeList') \subseteq Elems(freeList) \ {a}
      /\ lru' \in Seq(FrameId) /\ Distinct(lru')
      /\ Elems(lru') \subseteq Elems(lru) \ {a}
  BY <1>1, AllocLemma
<1>3. /\ TableAfterAlloc \in [FD \X PageNum -> FrameId \cup {NoFrame}]
      /\ \A k \in FD \X PageNum : TableAfterAlloc[k] \in {pageTable[k], NoFrame} \ {a}
  BY <1>1, AllocLemma
<1>4. /\ pageTable' \in [FD \X PageNum -> FrameId \cup {NoFrame}]
      /\ \A k \in FD \X PageNum : \/ k = <<fd, p>> /\ pageTable'[k] = a
                                  \/ k # <<fd, p>> /\ pageTable'[k] \in {pageTable[k], NoFrame} \ {a}
  BY <1>1, <1>2, <1>3
<1>5. \A f \in FrameId \ {a} : frames'[f].pin = frames[f].pin
        /\ frames'[f].fd = frames[f].fd /\ frames'[f].pn = frames[f].pn
  BY <1>1
<1>6. ReusableFrames'
  <2>1. \A f \in Elems(freeList) \cup Elems(lru) : f \in FrameId
    BY <1>0 DEF TypeOK, Elems
  <2>2. \A f \in Elems(freeList') \cup Elems(lru') : frames'[f].pin = 0
    BY <1>0, <1>2, <1>5, <2>1 DEF ReusableFrames
  <2>3. ASSUME NEW k \in FD \X PageNum PROVE pageTable'[k] \notin Elems(freeList')
    <3>1. NoFrame \notin FrameId
      BY DEF NoFrame, FrameId
    <3>2. QED
      BY <1>0, <1>2, <1>4, <2>1, <3>1 DEF ReusableFrames
  <2>4. QED
    BY <1>0, <1>2, <2>2, <2>3 DEF ReusableFrames
<1>7. TableMatches'
  <2> SUFFICES ASSUME NEW k \in FD \X PageNum, pageTable'[k] # NoFrame
               PROVE  frames'[pageTable'[k]].fd = k[1] /\ frames'[pageTable'[k]].pn = k[2]
    BY DEF TableMatches
  <2>1. CASE k = <<fd, p>>
    BY <2>1, <1>1, <1>4
  <2>2. CASE k # <<fd, p>>
    <3>1. pageTable'[k] = pageTable[k] /\ pageTable[k] \in FrameId \ {a}
      BY <2>2, <1>4
    <3>2. QED
      BY <3>1, <1>0, <1>5 DEF TableMatches
  <2>3. QED
    BY <2>1, <2>2
<1> QED
  BY <1>2, <1>4, <1>6, <1>7

\* get_this_page loads the page into the frame allocate_block gives it.
Loads(h, id, p, fr) ==
  /\ frames' = LoadPage(fr, DiskAfterBlock(fdFile, fr), openFile[id].name, openFile[id].fd, p)
  /\ freeList' = FreeAfterAlloc
  /\ lru' = LruAfterAlloc
  /\ pageTable' = [TableAfterAlloc EXCEPT ![<<openFile[id].fd, p>>] = AllocId]
  /\ disk' = DiskAfterBlock(fdFile, fr)
  /\ ph' = [ph EXCEPT ![h] = [open |-> TRUE, frame |-> AllocId,
                             fd |-> openFile[id].fd, pn |-> p]]

\* Loading a page into a new frame preserves the invariant.
LEMMA MissLemma ==
  ASSUME IInv, NEW h \in Handle, NEW id \in FileId, NEW p \in PageNum \ {0}, NEW fr,
         ~ph[h].open, IsOpen(id), GoodFrames(fr, id), p < Hdr(id).count,
         BlockReady(fdFile), Loads(h, id, p, fr),
         UNCHANGED <<openFile, freeIds, files, fdFile>>
  PROVE  IInv'
<1> USE DEF IInv
<1>0. TypeOK /\ openFile[id] \in FileHandle /\ HasFrame /\ HeaderOk(id)
  BY DEF TypeOK, IsOpen, BlockReady, HeadersMatch
<1>1. PICK a : a = AllocId
  OBVIOUS
<1>2. a \in FrameId /\ Holders(a) = {} /\ ~IsHeader(a)
  BY <1>0, <1>1, AllocLemma
<1>3. \A i \in FileId : IsOpen(i) => openFile[i].hdr \in FrameId \ {a}
  BY <1>0, <1>2 DEF TypeOK, IsOpen, FileHandle, IsHeader
<1>4. fr[a] = frames[a]
  BY <1>2, <1>3 DEF GoodFrames
<1>5. /\ disk' \in [FileName -> [PageNum -> Content \cup {Hole}]]
      /\ \A n \in FileName : disk'[n][0] = disk[n][0]
      /\ \A n \in FileName, q \in PageNum : disk[n][q] # Hole => disk'[n][q] # Hole
  <2>1. fr[AllocId] = frames[AllocId]
    BY <1>1, <1>4
  <2>2. fdFile \in [FD -> FileName \cup {NoFile}]
    BY <1>0 DEF TypeOK
  <2>3. disk' = DiskAfterBlock(fdFile, fr)
    BY DEF Loads
  <2> DEFINE d == DiskAfterBlock(fdFile, fr)
  <2>4. /\ d \in [FileName -> [PageNum -> Content \cup {Hole}]]
        /\ \A n \in FileName : d[n][0] = disk[n][0]
        /\ \A n \in FileName, q \in PageNum : disk[n][q] # Hole => d[n][q] # Hole
    BY <2>1, <2>2, BlockDiskLemma
  <2> HIDE DEF d
  <2>5. disk' = d
    BY <2>3 DEF d
  <2>6. QED
    BY <2>4, <2>5
<1>6. PICK x \in Content : frames' = [fr EXCEPT ![a] = [dirty |-> FALSE, pin |-> 1,
                                         fd |-> openFile[id].fd, pn |-> p, data |-> x]]
  <2>1. disk'[openFile[id].name][p] # Hole /\ openFile[id].name \in FileName
    BY <1>0, <1>5 DEF HeaderOk, Hdr, FileHandle
  <2>2. disk'[openFile[id].name][p] \in Content
    BY <2>1, <1>5
  <2>3. QED
    BY <1>1, <2>1, <2>2 DEF Loads, LoadPage, LoadedPn, LoadedData
<1>7. /\ frames' \in [FrameId -> Frame]
      /\ frames'[a].pin = 1 /\ frames'[a].fd = openFile[id].fd /\ frames'[a].pn = p
      /\ ~frames'[a].dirty
      /\ \A f \in FrameId \ {a} :
           /\ frames'[f] = fr[f]
           /\ frames'[f].pin = frames[f].pin /\ frames'[f].fd = frames[f].fd
           /\ frames'[f].pn = frames[f].pn /\ frames'[f].dirty = frames[f].dirty
  BY <1>0, <1>2, <1>6 DEF GoodFrames, Frame, FileHandle
<1>8. /\ freeList' \in Seq(FrameId)
      /\ lru' \in Seq(FrameId)
      /\ pageTable' \in [FD \X PageNum -> FrameId \cup {NoFrame}]
      /\ ReusableFrames'
      /\ TableMatches'
  BY <1>0, <1>1, <1>7, InstallLemma DEF FileHandle, Loads
<1>9. TypeOK'
  <2>1. [open |-> TRUE, frame |-> a, fd |-> openFile[id].fd, pn |-> p] \in PageHandle
    BY <1>0, <1>2 DEF PageHandle, FileHandle
  <2>2. QED
    BY <1>0, <1>1, <1>5, <1>7, <1>8, <2>1 DEF TypeOK, Loads
<1>10. PinsHeld'
  <2>1. /\ Cardinality(Holders(a)') = Cardinality(Holders(a)) + 1
        /\ \A g \in FrameId \ {a} : Holders(g)' = Holders(g)
    BY <1>1, <1>2, AddHolder DEF Loads
  <2>2. Cardinality(Holders(a)') = 1
    BY <2>1, <1>2, FS_EmptySet
  <2>3. QED
    BY <1>7, <2>1, <2>2 DEF PinsHeld
<1>11. HandlesMatch'
  <2> SUFFICES ASSUME NEW g \in Handle, ph'[g].open
               PROVE  /\ frames'[ph'[g].frame].fd = ph'[g].fd
                      /\ frames'[ph'[g].frame].pn = ph'[g].pn
                      /\ ph'[g].pn # 0
                      /\ DescOpen(fdFile, ph'[g].fd)
    BY DEF HandlesMatch, DescOpen
  <2>1. CASE g = h
    <3>1. ph'[g] = [open |-> TRUE, frame |-> a, fd |-> openFile[id].fd, pn |-> p]
      BY <2>1, <1>0, <1>1 DEF TypeOK, Loads
    <3>2. QED
      BY <3>1, <1>1, <1>7, OpenDesc
  <2>2. CASE g # h
    <3>1. ph'[g] = ph[g] /\ ph[g].open /\ ph[g].frame \in FrameId
      BY <2>2, <1>0 DEF TypeOK, PageHandle, Closed, Loads
    <3>2. ph[g].frame # a
      BY <3>1, <1>2 DEF Holders
    <3>3. QED
      BY <3>1, <3>2, <1>7 DEF HandlesMatch
  <2>3. QED
    BY <2>1, <2>2
<1>12. HeadersMatch'
  <2> SUFFICES ASSUME NEW i \in FileId, IsOpen(i)
               PROVE  HeaderOk(i)'
    BY DEF HeadersMatch, IsOpen
  <2>1. frames'[openFile[i].hdr] = fr[openFile[i].hdr] /\ HeaderOk(i) /\ openFile[i].name \in FileName
    BY <1>0, <1>3, <1>7 DEF HeadersMatch, TypeOK, FileHandle, IsOpen
  <2>2. CASE openFile[i].hdr # openFile[id].hdr
    BY <1>3, <1>5, <2>1, <2>2 DEF HeaderOk, GoodFrames
  <2>3. CASE openFile[i].hdr = openFile[id].hdr
    <3>1. LET h0 == frames'[openFile[i].hdr].data
          IN  /\ h0 \in Header /\ 0 \in h0.bits /\ h0.count = frames[openFile[i].hdr].data.count
              /\ \A q \in h0.bits : q < h0.count
              /\ h0.alloc = Cardinality(h0.bits)
      BY <2>1, <2>3 DEF GoodFrames, Hdr
    <3>2. /\ frames'[openFile[i].hdr].pin = frames[openFile[i].hdr].pin
          /\ frames'[openFile[i].hdr].fd = frames[openFile[i].hdr].fd
          /\ frames'[openFile[i].hdr].pn = frames[openFile[i].hdr].pn
      BY <1>3, <2>1 DEF GoodFrames
    <3>3. \A q \in PageNum : disk[openFile[i].name][q] # Hole => disk'[openFile[i].name][q] # Hole
      BY <1>5, <2>1
    <3>4. QED
      BY <2>1, <3>1, <3>2, <3>3 DEF HeaderOk
  <2>4. QED
    BY <2>2, <2>3
<1>13. DescriptorsMatch'
  BY DEF DescriptorsMatch, IsOpen
<1>14. DirtyFrames'
  BY <1>7 DEF DirtyFrames, DescOpen, IsHeader, IsOpen
<1>15. DiskHeaders'
  BY <1>5 DEF DiskHeaders
<1>16. HeaderEntries'
  <2> SUFFICES ASSUME NEW k \in FD \X PageNum, pageTable'[k] # NoFrame, k[2] = 0
               PROVE  IsHeader(pageTable'[k])
    BY DEF HeaderEntries, IsHeader, IsOpen
  <2>1. k # <<openFile[id].fd, p>>
    OBVIOUS
  <2>2. pageTable'[k] = pageTable[k]
    BY <2>1, <1>0, AllocLemma DEF FileHandle, Loads
  <2>3. QED
    BY <2>2 DEF HeaderEntries
<1> QED
  BY <1>16, <1>8, <1>9, <1>10, <1>11, <1>12, <1>13, <1>14, <1>15

\* Whichever header fr changes, every header still counts its bitmap.
GoodAll(fr) ==
  /\ fr \in [FrameId -> Frame]
  /\ \A f \in FrameId : fr[f].pin = frames[f].pin /\ fr[f].fd = frames[f].fd
                        /\ fr[f].pn = frames[f].pn /\ fr[f].dirty = frames[f].dirty
  /\ \A f \in FrameId : ~IsHeader(f) => fr[f] = frames[f]
  /\ \A id \in FileId : IsOpen(id) =>
       LET x == fr[openFile[id].hdr].data
       IN  /\ x \in Header /\ 0 \in x.bits /\ x.count = Hdr(id).count
           /\ \A p \in x.bits : p < x.count
           /\ x.alloc = Cardinality(x.bits)

\* When the header of one file changes, the headers of all files stay good.
LEMMA GoodFramesAll ==
  ASSUME IInv, NEW id \in FileId, IsOpen(id), NEW fr, GoodFrames(fr, id)
  PROVE  GoodAll(fr)
<1>0. \A i \in FileId : IsOpen(i) => HeaderOk(i) /\ openFile[i].hdr \in FrameId
  BY DEF IInv, HeadersMatch, TypeOK, IsOpen, FileHandle
<1>1. ASSUME NEW f \in FrameId, ~IsHeader(f) PROVE fr[f] = frames[f]
  BY <1>1 DEF GoodFrames, IsHeader
<1>2. ASSUME NEW i \in FileId, IsOpen(i)
      PROVE  LET x == fr[openFile[i].hdr].data
             IN  /\ x \in Header /\ 0 \in x.bits /\ x.count = Hdr(i).count
                 /\ \A p \in x.bits : p < x.count
                 /\ x.alloc = Cardinality(x.bits)
  <2>1. CASE openFile[i].hdr = openFile[id].hdr
    BY <2>1 DEF GoodFrames, Hdr
  <2>2. CASE openFile[i].hdr # openFile[id].hdr
    BY <2>2, <1>0, <1>2 DEF GoodFrames, Hdr, HeaderOk
  <2>3. QED
    BY <2>1, <2>2
<1>3. QED
  BY <1>1, <1>2 DEF GoodAll, GoodFrames

\* A header that changes in memory while nothing else happens.
LEMMA HeaderOnlyLemma ==
  ASSUME IInv, GoodAll(frames'),
         UNCHANGED <<freeList, lru, pageTable, disk, ph, openFile, freeIds, files, fdFile>>
  PROVE  IInv'
<1> USE DEF IInv
<1>0. TypeOK /\ \A i \in FileId : IsOpen(i) => HeaderOk(i) /\ openFile[i].hdr \in FrameId
  BY DEF HeadersMatch, TypeOK, IsOpen, FileHandle
<1>1. TypeOK'
  BY <1>0 DEF TypeOK, GoodAll
<1>2. ReusableFrames'
  <2>1. \A f \in Elems(freeList) \cup Elems(lru) : f \in FrameId
    BY <1>0 DEF TypeOK, Elems
  <2>2. QED
    BY <2>1 DEF ReusableFrames, GoodAll
<1>3. TableMatches' /\ HeaderEntries'
  BY <1>0 DEF TableMatches, HeaderEntries, IsHeader, IsOpen, GoodAll, TypeOK
<1>4. PinsHeld'
  BY DEF PinsHeld, Holders, GoodAll
<1>5. HandlesMatch'
  <2>1. \A h \in Handle : ph[h].open => ph[h].frame \in FrameId
    BY <1>0 DEF TypeOK, PageHandle, Closed
  <2>2. QED
    BY <2>1 DEF HandlesMatch, DescOpen, GoodAll
<1>6. HeadersMatch'
  BY <1>0 DEF HeadersMatch, HeaderOk, GoodAll, IsOpen, Hdr
<1>7. DescriptorsMatch' /\ DiskHeaders' /\ DirtyFrames'
  BY DEF DescriptorsMatch, DiskHeaders, DirtyFrames, DescOpen, IsHeader, IsOpen, GoodAll
<1> QED
  BY <1>1, <1>2, <1>3, <1>4, <1>5, <1>6, <1>7

\* A frame whose page could not be loaded goes back to the free list.
LEMMA LoadFailsLemma ==
  ASSUME IInv, NEW fr, GoodAll(fr), NEW ft \in [FD -> FileName \cup {NoFile}],
         BlockReady(ft), NEW n, NEW fd \in FD, NEW p,
         LoadFails(fr, DiskAfterBlock(ft, fr), n, fd, p),
         UNCHANGED <<ph, openFile, freeIds, files, fdFile>>
  PROVE  IInv'
<1> USE DEF IInv
<1>0. TypeOK /\ HasFrame /\ \A i \in FileId : IsOpen(i) => HeaderOk(i)
  BY DEF HeadersMatch, BlockReady
<1>1. PICK a : a = AllocId
  OBVIOUS
<1>2. a \in FrameId /\ Holders(a) = {} /\ ~IsHeader(a) /\ fr[a] = frames[a]
  BY <1>0, <1>1, AllocLemma DEF GoodAll
<1>3. \A i \in FileId : IsOpen(i) => openFile[i].hdr \in FrameId \ {a} /\ openFile[i].name \in FileName
  BY <1>0, <1>2 DEF TypeOK, IsOpen, FileHandle, IsHeader
<1>4. /\ disk' \in [FileName -> [PageNum -> Content \cup {Hole}]]
      /\ \A m \in FileName : disk'[m][0] = disk[m][0]
      /\ \A m \in FileName, q \in PageNum : disk[m][q] # Hole => disk'[m][q] # Hole
  BY <1>1, <1>2, BlockDiskLemma DEF LoadFails
<1>5. /\ frames' \in [FrameId -> Frame]
      /\ frames'[a].pin = 0 /\ ~frames'[a].dirty
      /\ \A f \in FrameId \ {a} :
           /\ frames'[f] = fr[f]
           /\ frames'[f].pin = frames[f].pin /\ frames'[f].fd = frames[f].fd
           /\ frames'[f].pn = frames[f].pn /\ frames'[f].dirty = frames[f].dirty
  BY <1>1, <1>2 DEF LoadFails, GoodAll, Frame
<1>6. /\ freeList' \in Seq(FrameId) /\ Distinct(freeList')
      /\ Elems(freeList') \subseteq Elems(freeList) \cup {a}
      /\ lru' \in Seq(FrameId) /\ Distinct(lru')
      /\ Elems(lru') \subseteq Elems(lru) \ {a}
  <2>1. /\ FreeAfterAlloc \in Seq(FrameId) /\ Distinct(FreeAfterAlloc)
        /\ Elems(FreeAfterAlloc) \subseteq Elems(freeList) \ {a}
        /\ freeList' = Append(FreeAfterAlloc, a)
    BY <1>0, <1>1, AllocLemma DEF LoadFails
  <2>2. Distinct(freeList') /\ Elems(freeList') = Elems(FreeAfterAlloc) \cup {a} /\ freeList' \in Seq(FrameId)
    BY <1>2, <2>1, AppendLemma
  <2>3. lru' \in Seq(FrameId) /\ Distinct(lru') /\ Elems(lru') \subseteq Elems(lru) \ {a}
    BY <1>0, <1>1, AllocLemma DEF LoadFails
  <2>4. QED
    BY <2>1, <2>2, <2>3
<1>7. /\ pageTable' \in [FD \X PageNum -> FrameId \cup {NoFrame}]
      /\ \A k \in FD \X PageNum : pageTable'[k] \in {pageTable[k], NoFrame} \ {a}
  <2>1. /\ TableAfterAlloc \in [FD \X PageNum -> FrameId \cup {NoFrame}]
        /\ \A k \in FD \X PageNum : TableAfterAlloc[k] \in {pageTable[k], NoFrame} \ {a}
    BY <1>0, <1>1, AllocLemma
  <2>2. NoFrame # a
    BY <1>2 DEF NoFrame, FrameId
  <2>3. QED
    BY <2>1, <2>2 DEF LoadFails, Erase
<1>8. TypeOK'
  BY <1>0, <1>4, <1>5, <1>6, <1>7 DEF TypeOK
<1>9. ReusableFrames'
  <2>1. \A f \in Elems(freeList) \cup Elems(lru) : f \in FrameId
    BY <1>0 DEF TypeOK, Elems
  <2>2. NoFrame \notin FrameId
    BY DEF NoFrame, FrameId
  <2>3. \A f \in Elems(freeList') \cup Elems(lru') : frames'[f].pin = 0
    BY <1>5, <1>6, <2>1 DEF ReusableFrames
  <2>4. \A k \in FD \X PageNum : pageTable'[k] \notin Elems(freeList')
    BY <1>2, <1>6, <1>7, <2>1, <2>2 DEF ReusableFrames
  <2>5. QED
    BY <1>6, <2>3, <2>4 DEF ReusableFrames
<1>10. TableMatches' /\ HeaderEntries'
  BY <1>0, <1>5, <1>7 DEF TableMatches, HeaderEntries, TypeOK, IsHeader, IsOpen
<1>11. PinsHeld'
  <2>1. \A f \in FrameId : Holders(f)' = Holders(f)
    BY DEF Holders
  <2>2. Cardinality(Holders(a)) = 0
    BY <1>2, FS_EmptySet
  <2>3. QED
    BY <1>5, <2>1, <2>2 DEF PinsHeld
<1>12. HandlesMatch'
  <2>1. \A h \in Handle : ph[h].open => ph[h].frame \in FrameId \ {a}
    BY <1>0, <1>2 DEF TypeOK, PageHandle, Closed, Holders
  <2>2. QED
    BY <1>5, <2>1 DEF HandlesMatch, DescOpen
<1>13. HeadersMatch'
  <2> SUFFICES ASSUME NEW i \in FileId, IsOpen(i)
               PROVE  HeaderOk(i)'
    BY DEF HeadersMatch, IsOpen
  <2>1. frames'[openFile[i].hdr] = fr[openFile[i].hdr] /\ HeaderOk(i)
    BY <1>0, <1>3, <1>5
  <2>2. QED
    BY <1>3, <1>4, <2>1 DEF HeaderOk, GoodAll, Hdr
<1>14. DescriptorsMatch' /\ DirtyFrames'
  BY <1>5 DEF DescriptorsMatch, DirtyFrames, DescOpen, IsHeader, IsOpen
<1>15. DiskHeaders'
  BY <1>4 DEF DiskHeaders
<1> QED
  BY <1>8, <1>9, <1>10, <1>11, <1>12, <1>13, <1>14, <1>15

\* A dirty frame's descriptor is open, so without write errors allocate_block
\* always flushes it.
LEMMA NoLeak ==
  ASSUME IInv, ~WriteErrors, NEW ft, \A fd \in FD : fdFile[fd] # NoFile => ft[fd] # NoFile
  PROVE  ~BlockLeaks(ft)
<1>1. SUFFICES ASSUME BlockLeaks(ft) PROVE FALSE
  OBVIOUS
<1>2. AllocId \in FrameId /\ frames[AllocId].dirty
  BY <1>1, AllocLemma DEF BlockLeaks
<1>3. DescOpen(fdFile, frames[AllocId].fd)
  BY <1>2 DEF IInv, DirtyFrames
<1>4. QED
  BY <1>1, <1>3 DEF BlockLeaks, DescOpen

\* get_this_page, whatever the page table and the disk say.
LEMMA FetchLemma ==
  ASSUME IInv, ~WriteErrors, NEW h \in Handle, NEW id \in FileId,
         NEW p \in PageNum \ {0}, NEW fr,
         ~ph[h].open, IsOpen(id), GoodFrames(fr, id), p < Hdr(id).count,
         Fetch(h, id, p, fr),
         UNCHANGED <<openFile, freeIds, files, fdFile>>
  PROVE  IInv'
<1>0. GoodAll(fr)
  BY GoodFramesAll
<1>1. fdFile \in [FD -> FileName \cup {NoFile}] /\ openFile[id].fd \in FD
  BY DEF IInv, TypeOK, IsOpen, FileHandle
<1>2. ~BlockLeaks(fdFile)
  BY NoLeak
<1>3. PICK f : f = pageTable[<<openFile[id].fd, p>>]
  OBVIOUS
<1>4. CASE /\ f # NoFrame
           /\ frames' = [fr EXCEPT ![f].pin = @ + 1]
           /\ lru' = Without(lru, f)
           /\ ph' = [ph EXCEPT ![h] = [open |-> TRUE, frame |-> f, fd |-> openFile[id].fd, pn |-> p]]
           /\ UNCHANGED <<freeList, pageTable, disk>>
  BY <1>3, <1>4, HitLemma DEF Pins
<1>5. CASE /\ BlockReady(fdFile)
           /\ frames' = LoadPage(fr, DiskAfterBlock(fdFile, fr), openFile[id].name, openFile[id].fd, p)
           /\ freeList' = FreeAfterAlloc
           /\ lru' = LruAfterAlloc
           /\ pageTable' = [TableAfterAlloc EXCEPT ![<<openFile[id].fd, p>>] = AllocId]
           /\ disk' = DiskAfterBlock(fdFile, fr)
           /\ ph' = [ph EXCEPT ![h] = [open |-> TRUE, frame |-> AllocId,
                                       fd |-> openFile[id].fd, pn |-> p]]
  BY <1>5, MissLemma DEF Loads
<1>6. CASE /\ BlockReady(fdFile)
           /\ LoadFails(fr, DiskAfterBlock(fdFile, fr), openFile[id].name, openFile[id].fd, p)
           /\ UNCHANGED ph
  BY <1>0, <1>1, <1>6, LoadFailsLemma
<1>7. CASE frames' = fr /\ UNCHANGED <<freeList, lru, pageTable, disk, ph>>
  BY <1>0, <1>7, HeaderOnlyLemma
<1>8. QED
  BY <1>2, <1>3, <1>4, <1>5, <1>6, <1>7 DEF Fetch

\* get_this_page preserves the invariant.
LEMMA GetThisPageInv ==
  ASSUME IInv, ~WriteErrors, NEW h \in Handle, NEW id \in FileId,
         NEW p \in PageNum \ {0}, GetThisPage(h, id, p)
  PROVE  IInv'
<1>1. GoodFrames(frames, id)
  BY DEF IInv, TypeOK, HeadersMatch, HeaderOk, GetThisPage, HeaderIntact, GoodFrames, Hdr
<1>2. QED
  BY <1>1, FetchLemma DEF GetThisPage, HeaderIntact, PageOk

\* A non-empty set of pages has a first one.
LEMMA FirstPage ==
  ASSUME NEW S \in SUBSET PageNum, S # {}
  PROVE  \E p \in S : \A q \in S : p <= q
<1>1. S \subseteq Nat
  BY SizeAssumption DEF PageNum
<1> DEFINE R == {ss \in Nat \X Nat : ss[1] < ss[2]}
<1>2. IsWellFoundedOn(R, Nat)
  BY NatLessThanWellFounded, Zenon DEF OpToRel
<1> HIDE DEF R
<1>3. PICK p \in S : \A q \in S : ~(<<q, p>> \in R)
  BY <1>1, <1>2, WFMin
<1>4. \A q \in S : ~(q < p)
  BY <1>1, <1>3 DEF R
<1>5. QED
  BY <1>1, <1>4

\* The pages of a bitmap are finitely many.
LEMMA BitsFinite ==
  ASSUME NEW x \in Header
  PROVE  IsFiniteSet(x.bits) /\ Cardinality(x.bits) \in Nat
<1>1. IsFiniteSet(PageNum)
  BY SizeAssumption, FS_Interval DEF PageNum
<1>2. x.bits \in SUBSET PageNum
  BY DEF Header
<1>3. QED
  BY <1>1, <1>2, FS_Subset, FS_CardinalityType

\* allocate_page of a free page preserves the invariant: the header counts the
\* page it marks.
LEMMA ReusePageInv ==
  ASSUME IInv, ~WriteErrors, NEW h \in Handle, NEW id \in FileId, ReusePage(h, id)
  PROVE  IInv'
<1>0. HeaderOk(id) /\ IsOpen(id) /\ openFile[id].hdr \in FrameId /\ frames \in [FrameId -> Frame]
  BY DEF IInv, HeadersMatch, ReusePage, HeaderIntact, TypeOK, IsOpen, FileHandle
<1>1. PICK p : p = FirstFree(id)
  OBVIOUS
<1>2. p \in FreePages(id)
  <2>1. FreePages(id) \in SUBSET PageNum /\ FreePages(id) # {}
    BY DEF ReusePage, HasFreePage, FreePages
  <2>2. \E q \in FreePages(id) : \A r \in FreePages(id) : q <= r
    BY <2>1, FirstPage
  <2>3. QED
    BY <1>1, <2>2 DEF FirstFree
<1>3. p \in PageNum \ {0} /\ p < Hdr(id).count /\ p \notin Hdr(id).bits
  BY <1>0, <1>2 DEF FreePages, HeaderOk, Hdr
<1>4. PICK x : x = [count |-> Hdr(id).count, alloc |-> Hdr(id).alloc + 1,
                    bits |-> Hdr(id).bits \cup {p}]
  OBVIOUS
<1>5. /\ Hdr(id) \in Header /\ Hdr(id).alloc = Cardinality(Hdr(id).bits)
      /\ Hdr(id).bits \subseteq PageNum
      /\ \A q \in Hdr(id).bits : q < Hdr(id).count
  BY <1>0 DEF HeaderOk, Hdr, Header
<1>6. x \in Header
  BY <1>3, <1>4, <1>5 DEF Header
<1>7. x.alloc = Cardinality(x.bits)
  BY <1>3, <1>4, <1>5, BitsFinite, FS_AddElement
<1>8. PICK fr : fr = [frames EXCEPT ![openFile[id].hdr].data = x]
  OBVIOUS
<1>9. GoodFrames(fr, id)
  <2>1. x \in Content
    BY <1>6 DEF Content
  <2>2. /\ fr \in [FrameId -> Frame]
        /\ fr[openFile[id].hdr].data = x
        /\ \A f \in FrameId : /\ fr[f].pin = frames[f].pin
                              /\ fr[f].fd = frames[f].fd
                              /\ fr[f].pn = frames[f].pn
                              /\ fr[f].dirty = frames[f].dirty
                              /\ f # openFile[id].hdr => fr[f] = frames[f]
    BY <1>0, <1>8, <2>1 DEF Frame
  <2>3. 0 \in x.bits /\ \A q \in x.bits : q < x.count
    BY <1>0, <1>3, <1>4, <1>5 DEF HeaderOk, Hdr
  <2>4. x.count = Hdr(id).count
    BY <1>4
  <2>5. QED
    BY <1>6, <1>7, <2>2, <2>3, <2>4 DEF GoodFrames
<1>10. fr = WithHdr(id, Hdr(id).count, Hdr(id).alloc + 1, Hdr(id).bits \cup {p})
  BY <1>4, <1>8 DEF WithHdr
<1>11. Fetch(h, id, p, fr)
  BY <1>1, <1>10, Zenon DEF ReusePage
<1>12. QED
  BY <1>0, <1>3, <1>9, <1>11, FetchLemma DEF ReusePage

\* allocate_page that extends the file preserves the invariant.
LEMMA ExtendFileInv ==
  ASSUME IInv, ~WriteErrors, NEW h \in Handle, NEW id \in FileId, ExtendFile(h, id)
  PROVE  IInv'
<1> USE DEF IInv
<1>0. /\ TypeOK /\ IsOpen(id) /\ HeaderOk(id) /\ openFile[id] \in FileHandle
      /\ DescOpen(fdFile, openFile[id].fd) /\ fdFile[openFile[id].fd] = openFile[id].name
      /\ ~BlockLeaks(fdFile)
  BY OpenDesc, NoLeak DEF ExtendFile, HeaderIntact, HeadersMatch, DescriptorsMatch
<1>1. PICK a : a = AllocId
  OBVIOUS
<1>2. PICK p : p = Hdr(id).count
  OBVIOUS
<1>3. PICK g : g = openFile[id].hdr
  OBVIOUS
<1>4. PICK n : n = openFile[id].name
  OBVIOUS
<1>5. /\ BlockReady(fdFile) /\ HasFrame /\ ~ph[h].open /\ p < MaxPageCount
      /\ frames' = ExtendedFrames(id, p)
      /\ freeList' = FreeAfterAlloc
      /\ lru' = LruAfterAlloc
      /\ pageTable' = [TableAfterAlloc EXCEPT ![<<openFile[id].fd, p>>] = a]
      /\ disk' = [DiskAfterBlock(fdFile, frames) EXCEPT ![n][p] = Zero]
      /\ ph' = [ph EXCEPT ![h] = [open |-> TRUE, frame |-> a, fd |-> openFile[id].fd, pn |-> p]]
      /\ UNCHANGED <<openFile, freeIds, files, fdFile>>
  BY <1>0, <1>1, <1>2, <1>4 DEF ExtendFile, BlockReady
<1>6. a \in FrameId /\ Holders(a) = {} /\ ~IsHeader(a)
  BY <1>1, <1>5, AllocLemma
<1>7. /\ g \in FrameId /\ g # a /\ n \in FileName
      /\ \A i \in FileId : IsOpen(i) => openFile[i].hdr \in FrameId \ {a}
  BY <1>0, <1>3, <1>4, <1>6 DEF TypeOK, IsOpen, FileHandle, IsHeader
<1>8. PICK y \in Header : y = Hdr(id)
  BY <1>0 DEF HeaderOk, Hdr
<1>9. /\ p = y.count /\ p \in PageNum \ {0} /\ p \notin y.bits
      /\ 0 \in y.bits /\ y.alloc = Cardinality(y.bits)
      /\ \A q \in y.bits : q < p
  <2>1. /\ 0 \in y.bits /\ y.alloc = Cardinality(y.bits) /\ p = y.count
        /\ \A q \in y.bits : q < y.count
    BY <1>0, <1>2, <1>8 DEF HeaderOk, Hdr
  <2>2. p < MaxPageCount
    BY <1>5
  <2>3. QED
    BY <2>1, <2>2, <1>8, SizeAssumption DEF Header, PageNum
<1>10. PICK x : x = [count |-> p + 1, alloc |-> y.alloc + 1, bits |-> y.bits \cup {p}]
  OBVIOUS
<1>11. /\ x \in Header /\ x \in Content /\ 0 \in x.bits
       /\ \A q \in x.bits : q < x.count
       /\ x.alloc = Cardinality(x.bits)
  <2>1. x \in Header
    BY <1>9, <1>10 DEF Header, PageNum
  <2>2. x.alloc = Cardinality(x.bits)
    <3>1. IsFiniteSet(y.bits)
      BY BitsFinite
    <3>2. Cardinality(y.bits \cup {p}) = Cardinality(y.bits) + 1
      BY <3>1, <1>9, FS_AddElement
    <3>3. QED
      BY <3>2, <1>9, <1>10
  <2>3. \A q \in x.bits : q < x.count
    BY <1>9, <1>10 DEF PageNum, Header
  <2>4. QED
    BY <1>9, <1>10, <2>1, <2>2, <2>3 DEF Content
<1>12. /\ frames' \in [FrameId -> Frame]
       /\ ~frames'[a].dirty /\ frames'[a].pin = 1
       /\ frames'[a].fd = openFile[id].fd /\ frames'[a].pn = p
       /\ frames'[g].pin = frames[g].pin /\ frames'[g].fd = frames[g].fd
       /\ frames'[g].pn = frames[g].pn /\ frames'[g].data = x
       /\ \A f \in FrameId \ {a, g} : frames'[f] = frames[f]
  <2>1. PICK f1 : f1 = [frames EXCEPT ![g].data = x]
    OBVIOUS
  <2>2. PICK f2 : f2 = [f1 EXCEPT ![g].dirty = TRUE]
    OBVIOUS
  <2>3. frames' = [f2 EXCEPT ![a] = [dirty |-> FALSE, pin |-> 1, fd |-> openFile[id].fd,
                                     pn |-> p, data |-> Zero]]
    BY <1>1, <1>3, <1>5, <1>8, <1>10, <2>1, <2>2, Zenon DEF ExtendedFrames, WithHdr
  <2>4. frames \in [FrameId -> Frame] /\ Zero \in Content
    BY <1>0 DEF TypeOK, Content
  <2>5. /\ f1 \in [FrameId -> Frame] /\ f1[g].dirty = frames[g].dirty
        /\ f1[g].pin = frames[g].pin /\ f1[g].fd = frames[g].fd
        /\ f1[g].pn = frames[g].pn /\ f1[g].data = x
        /\ \A f \in FrameId \ {g} : f1[f] = frames[f]
    BY <1>7, <1>11, <2>1, <2>4 DEF Frame
  <2>6. /\ f2 \in [FrameId -> Frame] /\ f2[g].dirty
        /\ f2[g].pin = frames[g].pin /\ f2[g].fd = frames[g].fd
        /\ f2[g].pn = frames[g].pn /\ f2[g].data = x
        /\ \A f \in FrameId \ {g} : f2[f] = frames[f]
    BY <1>7, <2>2, <2>5 DEF Frame
  <2>7. [dirty |-> FALSE, pin |-> 1, fd |-> openFile[id].fd, pn |-> p, data |-> Zero] \in Frame
    BY <1>0, <1>9, <2>4 DEF Frame, FileHandle
  <2>8. QED
    BY <1>6, <1>7, <2>3, <2>6, <2>7
<1>13. /\ disk' \in [FileName -> [PageNum -> Content \cup {Hole}]]
       /\ \A m \in FileName : disk'[m][0] = disk[m][0]
       /\ \A m \in FileName, q \in PageNum : disk[m][q] # Hole => disk'[m][q] # Hole
       /\ disk'[n][p] # Hole
  <2>1. PICK d : d = DiskAfterBlock(fdFile, frames)
    OBVIOUS
  <2>2. /\ d \in [FileName -> [PageNum -> Content \cup {Hole}]]
        /\ \A m \in FileName : d[m][0] = disk[m][0]
        /\ \A m \in FileName, q \in PageNum : disk[m][q] # Hole => d[m][q] # Hole
    BY <1>0, <1>5, <2>1, BlockDiskLemma DEF TypeOK
  <2>3. Zero \in Content /\ Zero # Hole
    BY NameAssumption DEF Content
  <2>4. disk' = [d EXCEPT ![n][p] = Zero]
    BY <1>5, <2>1
  <2>5. QED
    BY <1>7, <1>9, <2>2, <2>3, <2>4
<1>14. \A f \in FrameId \ {a} : frames'[f].pin = frames[f].pin
         /\ frames'[f].fd = frames[f].fd /\ frames'[f].pn = frames[f].pn
  BY <1>12
<1>15. /\ freeList' \in Seq(FrameId) /\ lru' \in Seq(FrameId)
       /\ pageTable' \in [FD \X PageNum -> FrameId \cup {NoFrame}]
       /\ ReusableFrames' /\ TableMatches'
  <2>1. openFile[id].fd \in FD /\ p \in PageNum
    BY <1>0, <1>9 DEF FileHandle
  <2>2. /\ pageTable' = [TableAfterAlloc EXCEPT ![<<openFile[id].fd, p>>] = AllocId]
        /\ frames'[AllocId].fd = openFile[id].fd /\ frames'[AllocId].pn = p
        /\ \A f \in FrameId \ {AllocId} : frames'[f].pin = frames[f].pin
             /\ frames'[f].fd = frames[f].fd /\ frames'[f].pn = frames[f].pn
    BY <1>1, <1>5, <1>12, <1>14
  <2>3. QED
    BY <1>5, <2>1, <2>2, InstallLemma
<1>16. TypeOK'
  <2>1. [open |-> TRUE, frame |-> a, fd |-> openFile[id].fd, pn |-> p] \in PageHandle
    BY <1>0, <1>6, <1>9 DEF PageHandle, FileHandle
  <2>2. QED
    BY <1>0, <1>5, <1>12, <1>13, <1>15, <2>1 DEF TypeOK
<1>17. PinsHeld'
  <2>1. /\ Cardinality(Holders(a)') = Cardinality(Holders(a)) + 1
        /\ \A f \in FrameId \ {a} : Holders(f)' = Holders(f)
    BY <1>5, <1>6, AddHolder
  <2>2. Cardinality(Holders(a)') = 1 /\ frames'[a].pin = 1
    BY <2>1, <1>6, <1>12, FS_EmptySet
  <2>3. QED
    BY <1>14, <2>1, <2>2 DEF PinsHeld
<1>18. HandlesMatch'
  <2> SUFFICES ASSUME NEW k \in Handle, ph'[k].open
               PROVE  /\ frames'[ph'[k].frame].fd = ph'[k].fd
                      /\ frames'[ph'[k].frame].pn = ph'[k].pn
                      /\ ph'[k].pn # 0
                      /\ DescOpen(fdFile, ph'[k].fd)
    BY <1>5 DEF HandlesMatch, DescOpen
  <2>1. CASE k = h
    <3>1. ph'[k] = [open |-> TRUE, frame |-> a, fd |-> openFile[id].fd, pn |-> p]
      BY <2>1, <1>0, <1>5 DEF TypeOK
    <3>2. QED
      BY <3>1, <1>0, <1>9, <1>12
  <2>2. CASE k # h
    <3>1. ph'[k] = ph[k] /\ ph[k].open /\ ph[k].frame \in FrameId
      BY <2>2, <1>0, <1>5 DEF TypeOK, PageHandle, Closed
    <3>2. ph[k].frame # a
      BY <3>1, <1>6 DEF Holders
    <3>3. QED
      BY <3>1, <3>2, <1>14 DEF HandlesMatch
  <2>3. QED
    BY <2>1, <2>2
<1>19. HeadersMatch'
  <2> SUFFICES ASSUME NEW i \in FileId, IsOpen(i)
               PROVE  HeaderOk(i)'
    BY <1>5 DEF HeadersMatch, IsOpen
  <2>1. /\ HeaderOk(i) /\ openFile[i].hdr \in FrameId \ {a} /\ openFile[i].name \in FileName
        /\ fdFile[openFile[i].fd] = openFile[i].name
    BY <1>0, <1>7 DEF HeadersMatch, DescriptorsMatch, TypeOK, FileHandle, IsOpen
  <2>2. CASE openFile[i].hdr # g
    <3>1. frames'[openFile[i].hdr] = frames[openFile[i].hdr]
      BY <1>12, <2>1, <2>2
    <3>2. \A q \in PageNum : disk[openFile[i].name][q] # Hole => disk'[openFile[i].name][q] # Hole
      BY <1>13, <2>1
    <3>3. openFile' = openFile
      BY <1>5
    <3>4. QED
      BY <2>1, <3>1, <3>2, <3>3 DEF HeaderOk
  <2>3. CASE openFile[i].hdr = g
    <3>1. openFile[i].fd = openFile[id].fd
      BY <1>0, <1>3, <2>1, <2>3 DEF HeaderOk
    <3>2. openFile[i].name = n
      BY <3>1, <1>0, <1>4, <2>1
    <3>3. ASSUME NEW q \in PageNum, q < p + 1 PROVE disk'[n][q] # Hole
      <4>1. CASE q = p
        BY <4>1, <1>13
      <4>2. CASE q < p
        BY <4>2, <1>0, <1>2, <1>4, <1>7, <1>13 DEF HeaderOk, Hdr
      <4>3. QED
        BY <3>3, <4>1, <4>2, <1>9 DEF PageNum
    <3>4. frames'[openFile'[i].hdr].data = x /\ openFile'[i].name = n
      BY <3>2, <1>5, <1>12, <2>3
    <3>5. /\ frames'[openFile'[i].hdr].pin > 0 /\ frames'[openFile'[i].hdr].pn = 0
          /\ frames'[openFile'[i].hdr].fd = openFile'[i].fd
      BY <1>5, <1>12, <2>1, <2>3 DEF HeaderOk
    <3>6. \A q \in PageNum : q < x.count => disk'[n][q] # Hole
      BY <3>3, <1>10
    <3>7. QED
      BY <3>4, <3>5, <3>6, <1>11 DEF HeaderOk
  <2>4. QED
    BY <2>2, <2>3
<1>20. DescriptorsMatch'
  BY <1>5 DEF DescriptorsMatch, IsOpen
<1>21. DirtyFrames'
  <2>1. IsHeader(g) /\ frames[g].fd = openFile[id].fd
    BY <1>0, <1>3 DEF IsHeader, HeaderOk
  <2>2. QED
    BY <1>0, <1>5, <1>7, <1>12, <1>14, <2>1 DEF DirtyFrames, DescOpen, IsHeader, IsOpen
<1>22. DiskHeaders'
  BY <1>5, <1>13 DEF DiskHeaders
<1>23. HeaderEntries'
  <2> SUFFICES ASSUME NEW k \in FD \X PageNum, pageTable'[k] # NoFrame, k[2] = 0
               PROVE  IsHeader(pageTable'[k])
    BY <1>5 DEF HeaderEntries, IsHeader, IsOpen
  <2>1. k # <<openFile[id].fd, p>>
    BY <1>9
  <2>2. pageTable'[k] = pageTable[k]
    BY <2>1, <1>0, <1>5, AllocLemma DEF FileHandle
  <2>3. QED
    BY <2>2 DEF HeaderEntries
<1> QED
  BY <1>15, <1>16, <1>17, <1>18, <1>19, <1>20, <1>21, <1>22, <1>23

\* A held frame is pinned and is not a header.
LEMMA HeldFrame ==
  ASSUME IInv, NEW h \in Handle, ph[h].open
  PROVE  /\ ph[h].frame \in FrameId
         /\ frames[ph[h].frame].pin > 0
         /\ \A i \in FileId : IsOpen(i) => openFile[i].hdr \in FrameId \ {ph[h].frame}
<1>1. PICK f : f = ph[h].frame
  OBVIOUS
<1>2. f \in FrameId
  BY <1>1 DEF IInv, TypeOK, PageHandle, Closed
<1>3. h \in Holders(f) /\ IsFiniteSet(Holders(f))
  BY <1>1, SetAssumption, FS_Subset DEF Holders
<1>4. Cardinality(Holders(f)) # 0 /\ Cardinality(Holders(f)) \in Nat
  BY <1>3, FS_EmptySet, FS_CardinalityType
<1>5. frames[f].pin >= Cardinality(Holders(f)) /\ frames[f].pin \in Nat
  BY <1>2 DEF IInv, PinsHeld, TypeOK, Frame
<1>6. \A i \in FileId : IsOpen(i) => openFile[i].hdr \in FrameId \ {f}
  BY <1>1 DEF IInv, HeadersMatch, HeaderOk, HandlesMatch, TypeOK, IsOpen, FileHandle
<1>7. QED
  BY <1>1, <1>2, <1>4, <1>5, <1>6

\* A caller that fills its page preserves the invariant: it holds no header.
LEMMA WritePageInv ==
  ASSUME IInv, NEW h \in Handle, NEW v \in Value, WritePage(h, v)
  PROVE  IInv'
<1> USE DEF IInv
<1>1. PICK f : f = ph[h].frame
  OBVIOUS
<1>2. /\ TypeOK /\ f \in FrameId /\ ph[h].open
      /\ \A i \in FileId : IsOpen(i) => openFile[i].hdr \in FrameId \ {f}
      /\ UNCHANGED <<freeList, lru, pageTable, openFile, freeIds, ph, files, disk, fdFile>>
  BY <1>1, HeldFrame DEF WritePage, os
<1>3. /\ frames' \in [FrameId -> Frame]
      /\ \A g \in FrameId : /\ frames'[g].pin = frames[g].pin /\ frames'[g].fd = frames[g].fd
                            /\ frames'[g].pn = frames[g].pn
                            /\ g # f => frames'[g] = frames[g]
  <2>1. PICK f1 : f1 = [frames EXCEPT ![f].data = v]
    OBVIOUS
  <2>2. frames' = [f1 EXCEPT ![f].dirty = TRUE]
    BY <1>1, <2>1, Zenon DEF WritePage
  <2>3. frames \in [FrameId -> Frame] /\ v \in Content
    BY <1>2 DEF TypeOK, Content
  <2>4. /\ f1 \in [FrameId -> Frame]
        /\ \A g \in FrameId : /\ f1[g].pin = frames[g].pin /\ f1[g].fd = frames[g].fd
                              /\ f1[g].pn = frames[g].pn
                              /\ g # f => f1[g] = frames[g]
    BY <1>2, <2>1, <2>3 DEF Frame
  <2>5. QED
    BY <1>2, <2>2, <2>4 DEF Frame
<1>4. TypeOK'
  BY <1>2, <1>3 DEF TypeOK
<1>5. ReusableFrames'
  <2>1. \A g \in Elems(freeList) \cup Elems(lru) : g \in FrameId
    BY <1>2 DEF TypeOK, Elems
  <2>2. QED
    BY <1>2, <1>3, <2>1 DEF ReusableFrames
<1>6. TableMatches' /\ HeaderEntries'
  BY <1>2, <1>3 DEF TableMatches, HeaderEntries, IsHeader, IsOpen, TypeOK
<1>7. PinsHeld'
  BY <1>2, <1>3 DEF PinsHeld, Holders
<1>8. HandlesMatch'
  <2>1. \A g \in Handle : ph[g].open => ph[g].frame \in FrameId
    BY <1>2 DEF TypeOK, PageHandle, Closed
  <2>2. QED
    BY <1>2, <1>3, <2>1 DEF HandlesMatch, DescOpen
<1>9. HeadersMatch'
  BY <1>2, <1>3 DEF HeadersMatch, HeaderOk, IsOpen
<1>10. DescriptorsMatch' /\ DiskHeaders'
  BY <1>2 DEF DescriptorsMatch, DiskHeaders, IsOpen
<1>11. DirtyFrames'
  BY <1>1, <1>2, <1>3 DEF DirtyFrames, HandlesMatch, DescOpen, IsHeader, IsOpen
<1> QED
  BY <1>4, <1>5, <1>6, <1>7, <1>8, <1>9, <1>10, <1>11

\* unpin_page preserves the invariant: the last unpin gives the frame to the
\* replacer.
LEMMA UnpinPageInv ==
  ASSUME IInv, NEW h \in Handle, UnpinPage(h)
  PROVE  IInv'
<1> USE DEF IInv
<1>1. PICK f : f = ph[h].frame
  OBVIOUS
<1>2. /\ TypeOK /\ f \in FrameId /\ ph[h].open /\ frames[f].pin > 0 /\ frames[f].pin \in Nat
      /\ \A i \in FileId : IsOpen(i) => openFile[i].hdr \in FrameId \ {f}
      /\ UNCHANGED <<freeList, pageTable, openFile, freeIds, files, disk, fdFile>>
      /\ ph' = [ph EXCEPT ![h] = Closed]
  BY <1>1, HeldFrame DEF UnpinPage, os, TypeOK, Frame
<1>3. /\ frames' \in [FrameId -> Frame]
      /\ frames'[f].pin = frames[f].pin - 1
      /\ \A g \in FrameId : /\ frames'[g].fd = frames[g].fd /\ frames'[g].pn = frames[g].pn
                            /\ frames'[g].dirty = frames[g].dirty
                            /\ g # f => frames'[g] = frames[g]
  <2>1. frames' = [frames EXCEPT ![f].pin = Dec(frames[f].pin)]
    BY <1>1 DEF UnpinPage
  <2>2. Dec(frames[f].pin) = frames[f].pin - 1 /\ Dec(frames[f].pin) \in Nat
    BY <1>2 DEF Dec
  <2>3. frames \in [FrameId -> Frame] /\ f \in FrameId
    BY <1>2 DEF TypeOK
  <2>4. frames' \in [FrameId -> Frame] /\ frames'[f].pin = frames[f].pin - 1
    BY <2>1, <2>2, <2>3 DEF Frame
  <2>5. ASSUME NEW g \in FrameId
        PROVE  /\ frames'[g].fd = frames[g].fd /\ frames'[g].pn = frames[g].pn
               /\ frames'[g].dirty = frames[g].dirty
               /\ g # f => frames'[g] = frames[g]
    BY <2>1, <2>3 DEF Frame
  <2>6. QED
    BY <2>4, <2>5
<1>4. f \notin Elems(freeList) /\ f \notin Elems(lru)
  BY <1>2 DEF ReusableFrames
<1>5. /\ lru' \in Seq(FrameId) /\ Distinct(lru')
      /\ \A g \in Elems(lru') : g \in Elems(lru) \/ (g = f /\ frames'[f].pin = 0)
  <2>1. CASE Dec(frames[f].pin) = 0
    <3>1. lru' = LruUnpin(lru, f)
      BY <2>1, <1>1 DEF UnpinPage
    <3>2. frames'[f].pin = 0
      BY <2>1, <1>2, <1>3 DEF Dec
    <3>3. QED
      BY <3>1, <3>2, <1>2, LruUnpinLemma DEF TypeOK, ReusableFrames
  <2>2. CASE Dec(frames[f].pin) # 0
    <3>1. lru' = lru
      BY <2>2, <1>1 DEF UnpinPage
    <3>2. QED
      BY <3>1, <1>2 DEF TypeOK, ReusableFrames
  <2>3. QED
    BY <2>1, <2>2
<1>6. TypeOK'
  BY <1>2, <1>3, <1>5 DEF TypeOK
<1>7. ReusableFrames'
  <2>1. \A g \in Elems(freeList) \cup Elems(lru) : g \in FrameId
    BY <1>2 DEF TypeOK, Elems
  <2>2. QED
    BY <1>2, <1>3, <1>4, <1>5, <2>1 DEF ReusableFrames
<1>8. TableMatches' /\ HeaderEntries'
  BY <1>2, <1>3 DEF TableMatches, HeaderEntries, IsHeader, IsOpen, TypeOK
<1>9. PinsHeld'
  <2>1. /\ Holders(f)' = Holders(f) \ {h} /\ h \in Holders(f)
        /\ \A g \in FrameId \ {f} : Holders(g)' = Holders(g)
    BY <1>1, <1>2 DEF Holders, TypeOK, Closed
  <2>2. IsFiniteSet(Holders(f))
    BY SetAssumption, FS_Subset DEF Holders
  <2>3. Cardinality(Holders(f)') = Cardinality(Holders(f)) - 1
    BY <2>1, <2>2, FS_RemoveElement
  <2>4. frames[f].pin >= Cardinality(Holders(f)) /\ Cardinality(Holders(f)) \in Nat
    BY <1>2, <2>2, FS_CardinalityType DEF PinsHeld
  <2>5. frames'[f].pin >= Cardinality(Holders(f)')
    BY <1>2, <1>3, <2>3, <2>4
  <2>6. QED
    BY <1>3, <2>1, <2>5 DEF PinsHeld
<1>10. HandlesMatch'
  <2>1. \A g \in Handle : ph'[g].open => ph'[g] = ph[g] /\ ph[g].frame \in FrameId
    BY <1>2 DEF TypeOK, PageHandle, Closed
  <2>2. QED
    BY <1>2, <1>3, <2>1 DEF HandlesMatch, DescOpen
<1>11. HeadersMatch'
  BY <1>2, <1>3 DEF HeadersMatch, HeaderOk, IsOpen
<1>12. DescriptorsMatch' /\ DiskHeaders' /\ DirtyFrames'
  BY <1>2, <1>3 DEF DescriptorsMatch, DiskHeaders, DirtyFrames, DescOpen, IsHeader, IsOpen
<1> QED
  BY <1>6, <1>7, <1>8, <1>9, <1>10, <1>11, <1>12

\* deleteFrame: an unpinned mapped frame goes from the page table and the
\* replacer to the free list.
LEMMA DeleteFrameLemma ==
  ASSUME IInv, NEW fd \in FD, NEW p \in PageNum, NEW f, f = pageTable[<<fd, p>>],
         f # NoFrame, frames[f].pin = 0,
         lru' = Without(lru, f),
         pageTable' = Erase(pageTable, fd, p),
         freeList' = Append(freeList, f),
         \A g \in FrameId : frames'[g].pin = frames[g].pin /\ frames'[g].fd = frames[g].fd
                            /\ frames'[g].pn = frames[g].pn
  PROVE  /\ f \in FrameId /\ ~IsHeader(f)
         /\ frames[f].fd = fd /\ frames[f].pn = p /\ p # 0
         /\ freeList' \in Seq(FrameId)
         /\ lru' \in Seq(FrameId)
         /\ pageTable' \in [FD \X PageNum -> FrameId \cup {NoFrame}]
         /\ \A k \in FD \X PageNum : pageTable'[k] \in {pageTable[k], NoFrame}
         /\ ReusableFrames'
         /\ TableMatches'
<1> USE DEF IInv
<1>1. /\ TypeOK /\ f \in FrameId /\ frames[f].fd = fd /\ frames[f].pn = p
      /\ f \notin Elems(freeList)
  BY DEF TypeOK, TableMatches, ReusableFrames
<1>2. ~IsHeader(f)
  BY DEF HeadersMatch, HeaderOk, IsHeader
<1>3. p # 0
  BY <1>2 DEF HeaderEntries
<1>4. /\ freeList' \in Seq(FrameId) /\ Distinct(freeList')
      /\ Elems(freeList') = Elems(freeList) \cup {f}
  <2>1. freeList \in Seq(FrameId) /\ Distinct(freeList)
    BY <1>1 DEF TypeOK, ReusableFrames
  <2>2. QED
    BY <1>1, <2>1, AppendLemma
<1>5. /\ lru' \in Seq(FrameId) /\ Distinct(lru')
      /\ Elems(lru') = Elems(lru) \ {f}
  BY <1>1, WithoutLemma DEF TypeOK, ReusableFrames
<1>6. /\ pageTable' \in [FD \X PageNum -> FrameId \cup {NoFrame}]
      /\ \A k \in FD \X PageNum : pageTable'[k] \in {pageTable[k], NoFrame}
      /\ pageTable'[<<fd, p>>] = NoFrame
  BY <1>1 DEF TypeOK, Erase
<1>7. ReusableFrames'
  <2>1. \A g \in Elems(freeList) \cup Elems(lru) : g \in FrameId
    BY <1>1 DEF TypeOK, Elems
  <2>2. ASSUME NEW k \in FD \X PageNum PROVE pageTable'[k] \notin Elems(freeList')
    <3>1. NoFrame \notin FrameId
      BY DEF NoFrame, FrameId
    <3>2. CASE pageTable[k] = f
      <4>1. k = <<fd, p>>
        BY <3>2, <1>1 DEF TableMatches
      <4>2. QED
        BY <4>1, <3>1, <1>1, <1>4, <1>6, <2>1
    <3>3. CASE pageTable[k] # f
      BY <3>1, <3>3, <1>1, <1>4, <1>6, <2>1 DEF ReusableFrames
    <3>4. QED
      BY <3>2, <3>3
  <2>3. Elems(freeList') \cap Elems(lru') = {}
    BY <1>4, <1>5 DEF ReusableFrames
  <2>4. ASSUME NEW g \in Elems(freeList') \cup Elems(lru') PROVE frames'[g].pin = 0
    <3>1. g = f \/ g \in Elems(freeList) \cup Elems(lru)
      BY <1>4, <1>5
    <3>2. g \in FrameId /\ frames[g].pin = 0
      BY <1>1, <3>1, <2>1 DEF ReusableFrames
    <3>3. QED
      BY <3>2
  <2>5. QED
    BY <1>4, <1>5, <2>2, <2>3, <2>4 DEF ReusableFrames
<1>8. TableMatches'
  <2> SUFFICES ASSUME NEW k \in FD \X PageNum, pageTable'[k] # NoFrame
               PROVE  frames'[pageTable'[k]].fd = k[1] /\ frames'[pageTable'[k]].pn = k[2]
    BY DEF TableMatches
  <2>1. pageTable'[k] = pageTable[k] /\ pageTable[k] \in FrameId
    BY <1>6
  <2>2. QED
    BY <2>1 DEF TableMatches
<1> QED
  BY <1>1, <1>2, <1>3, <1>4, <1>5, <1>6, <1>7, <1>8

\* dispose_page preserves the invariant: an unpinned page has no handle.
LEMMA DisposePageInv ==
  ASSUME IInv, NEW id \in FileId, NEW p \in PageNum, DisposePage(id, p)
  PROVE  IInv'
<1> USE DEF IInv
<1>0. /\ TypeOK /\ IsOpen(id) /\ HeaderOk(id) /\ openFile[id] \in FileHandle
      /\ DescOpen(fdFile, openFile[id].fd) /\ fdFile[openFile[id].fd] = openFile[id].name
      /\ UNCHANGED <<openFile, freeIds, ph, files, disk, fdFile>>
  BY OpenDesc DEF DisposePage, HeaderIntact, HeadersMatch, DescriptorsMatch, os
<1>1. PICK f : f = pageTable[<<openFile[id].fd, p>>]
  OBVIOUS
<1>2. PICK g : g = openFile[id].hdr
  OBVIOUS
<1>3. g \in FrameId /\ IsHeader(g)
  BY <1>0, <1>2 DEF FileHandle, IsHeader
<1>4. PICK y \in Header : y = Hdr(id)
  BY <1>0 DEF HeaderOk, Hdr
<1>5. /\ 0 \in y.bits /\ p \in y.bits /\ y.alloc = Cardinality(y.bits)
      /\ \A q \in y.bits : q < y.count
  BY <1>0, <1>4 DEF HeaderOk, Hdr, DisposePage, PageOk
<1>6. PICK x : x = [count |-> y.count, alloc |-> y.alloc - 1, bits |-> y.bits \ {p}]
  OBVIOUS
<1>7. /\ x \in Header /\ x \in Content /\ x.count = y.count
      /\ \A q \in x.bits : q < x.count
      /\ x.alloc = Cardinality(x.bits)
  <2>1. IsFiniteSet(y.bits)
    BY BitsFinite
  <2>2. Cardinality(y.bits \ {p}) = Cardinality(y.bits) - 1
    BY <2>1, <1>5, FS_RemoveElement
  <2>3. x \in Header
    BY <1>6 DEF Header
  <2>4. QED
    BY <1>5, <1>6, <2>2, <2>3 DEF Content
<1>8. /\ frames' \in [FrameId -> Frame]
      /\ frames'[g].data = x
      /\ \A e \in FrameId : /\ frames'[e].pin = frames[e].pin /\ frames'[e].fd = frames[e].fd
                            /\ frames'[e].pn = frames[e].pn
                            /\ e # g => frames'[e] = frames[e]
  <2>1. PICK f1 : f1 = [frames EXCEPT ![g].data = x]
    OBVIOUS
  <2>2. frames' = [f1 EXCEPT ![g].dirty = TRUE]
    BY <1>2, <1>4, <1>6, <2>1, Zenon DEF DisposePage, WithHdr
  <2>3. /\ f1 \in [FrameId -> Frame] /\ f1[g].data = x
        /\ \A e \in FrameId : /\ f1[e].pin = frames[e].pin /\ f1[e].fd = frames[e].fd
                              /\ f1[e].pn = frames[e].pn
                              /\ e # g => f1[e] = frames[e]
    BY <1>0, <1>3, <1>7, <2>1 DEF Frame, TypeOK
  <2>4. QED
    BY <1>3, <2>2, <2>3 DEF Frame
<1>9. /\ openFile[id].fd \in FD
      /\ f # NoFrame /\ frames[f].pin = 0
      /\ lru' = Without(lru, f)
      /\ pageTable' = Erase(pageTable, openFile[id].fd, p)
      /\ freeList' = Append(freeList, f)
  BY <1>0, <1>1 DEF DisposePage, FileHandle
<1>10. /\ p # 0
       /\ freeList' \in Seq(FrameId) /\ lru' \in Seq(FrameId)
       /\ pageTable' \in [FD \X PageNum -> FrameId \cup {NoFrame}]
       /\ \A k \in FD \X PageNum : pageTable'[k] \in {pageTable[k], NoFrame}
       /\ ReusableFrames' /\ TableMatches'
  BY <1>1, <1>8, <1>9, DeleteFrameLemma
<1>11. TypeOK'
  BY <1>0, <1>8, <1>10 DEF TypeOK
<1>12. PinsHeld'
  BY <1>0, <1>8 DEF PinsHeld, Holders
<1>13. HandlesMatch'
  <2>1. \A h \in Handle : ph[h].open => ph[h].frame \in FrameId
    BY <1>0 DEF TypeOK, PageHandle, Closed
  <2>2. QED
    BY <1>0, <1>8, <2>1 DEF HandlesMatch, DescOpen
<1>14. HeadersMatch'
  <2> SUFFICES ASSUME NEW i \in FileId, IsOpen(i)
               PROVE  HeaderOk(i)'
    BY <1>0 DEF HeadersMatch, IsOpen
  <2>1. HeaderOk(i) /\ openFile[i].hdr \in FrameId
    BY <1>0 DEF HeadersMatch, TypeOK, FileHandle, IsOpen
  <2>2. CASE openFile[i].hdr # g
    BY <1>0, <1>8, <2>1, <2>2 DEF HeaderOk
  <2>3. CASE openFile[i].hdr = g
    <3>1. 0 \in x.bits
      BY <1>5, <1>6, <1>10
    <3>2. Hdr(i) = y
      BY <2>3, <1>2, <1>4 DEF Hdr
    <3>3. QED
      BY <3>1, <3>2, <1>0, <1>7, <1>8, <2>1, <2>3 DEF HeaderOk, Hdr
  <2>4. QED
    BY <2>2, <2>3
<1>15. DescriptorsMatch' /\ DiskHeaders'
  BY <1>0 DEF DescriptorsMatch, DiskHeaders, IsOpen
<1>16. DirtyFrames'
  <2>1. frames[g].fd = openFile[id].fd
    BY <1>0, <1>2 DEF HeaderOk
  <2>2. QED
    BY <1>0, <1>3, <1>8, <2>1 DEF DirtyFrames, DescOpen, IsHeader, IsOpen
<1>17. HeaderEntries'
  BY <1>0, <1>10 DEF HeaderEntries, IsHeader, IsOpen
<1> QED
  BY <1>10, <1>11, <1>12, <1>13, <1>14, <1>15, <1>16, <1>17

\* force_page preserves the invariant.
LEMMA ForcePageInv ==
  ASSUME IInv, NEW id \in FileId, NEW p \in PageNum, ForcePage(id, p)
  PROVE  IInv'
<1> USE DEF IInv
<1>0. /\ TypeOK /\ openFile[id] \in FileHandle
      /\ UNCHANGED <<openFile, freeIds, ph, files, fdFile>>
  BY OpenDesc DEF ForcePage
<1>1. PICK f : f = pageTable[<<openFile[id].fd, p>>]
  OBVIOUS
<1>2. /\ openFile[id].fd \in FD
      /\ f # NoFrame /\ frames[f].pin = 0
      /\ lru' = Without(lru, f)
      /\ pageTable' = Erase(pageTable, openFile[id].fd, p)
      /\ freeList' = Append(freeList, f)
  BY <1>0, <1>1 DEF ForcePage, FileHandle
<1>3. f \in FrameId
  BY <1>0, <1>1, <1>2 DEF TypeOK
<1>4. /\ frames' \in [FrameId -> Frame] /\ ~frames'[f].dirty
      /\ \A e \in FrameId : /\ frames'[e].pin = frames[e].pin /\ frames'[e].fd = frames[e].fd
                            /\ frames'[e].pn = frames[e].pn
                            /\ e # f => frames'[e] = frames[e]
  <2>1. frames' = [frames EXCEPT ![f].dirty = FALSE]
    BY <1>1 DEF ForcePage
  <2>2. QED
    BY <1>0, <1>3, <2>1 DEF TypeOK, Frame
<1>5. /\ ~IsHeader(f) /\ frames[f].pn = p /\ p # 0
      /\ freeList' \in Seq(FrameId) /\ lru' \in Seq(FrameId)
      /\ pageTable' \in [FD \X PageNum -> FrameId \cup {NoFrame}]
      /\ \A k \in FD \X PageNum : pageTable'[k] \in {pageTable[k], NoFrame}
      /\ ReusableFrames' /\ TableMatches'
  <2>1. \A g \in FrameId : frames'[g].pin = frames[g].pin /\ frames'[g].fd = frames[g].fd
                           /\ frames'[g].pn = frames[g].pn
    BY <1>4
  <2>2. ~IsHeader(f) /\ frames[f].pn = p
    BY <1>0, <1>1, <1>2 DEF HeadersMatch, HeaderOk, IsHeader, TableMatches
  <2>3. /\ p # 0
        /\ freeList' \in Seq(FrameId) /\ lru' \in Seq(FrameId)
        /\ pageTable' \in [FD \X PageNum -> FrameId \cup {NoFrame}]
        /\ \A k \in FD \X PageNum : pageTable'[k] \in {pageTable[k], NoFrame}
        /\ ReusableFrames' /\ TableMatches'
    BY <1>1, <1>2, <2>1, DeleteFrameLemma
  <2>4. QED
    BY <2>2, <2>3
<1>6. /\ disk' \in [FileName -> [PageNum -> Content \cup {Hole}]]
      /\ \A n \in FileName : disk'[n][0] = disk[n][0]
      /\ \A n \in FileName, q \in PageNum : disk[n][q] # Hole => disk'[n][q] # Hole
  <2>0. disk \in [FileName -> [PageNum -> Content \cup {Hole}]]
    BY <1>0 DEF TypeOK
  <2>1. CASE ~frames[f].dirty
    BY <2>0, <2>1, <1>1 DEF ForcePage
  <2>2. CASE frames[f].dirty
    <3>1. disk' = [disk EXCEPT ![fdFile[frames[f].fd]][frames[f].pn] = frames[f].data]
      BY <2>2, <1>1 DEF ForcePage, Flushed
    <3>2. fdFile[frames[f].fd] \in FileName
      BY <2>2, <1>0, <1>3 DEF DirtyFrames, DescOpen, TypeOK
    <3>3. frames[f].data \in Content /\ frames[f].data # Hole
      BY <1>0, <1>3, NameAssumption DEF TypeOK, Frame
    <3>4. QED
      BY <2>0, <3>1, <3>2, <3>3, <1>5
  <2>3. QED
    BY <2>1, <2>2
<1>7. TypeOK'
  BY <1>0, <1>4, <1>5, <1>6 DEF TypeOK
<1>8. PinsHeld'
  BY <1>0, <1>4 DEF PinsHeld, Holders
<1>9. HandlesMatch'
  <2>1. \A h \in Handle : ph[h].open => ph[h].frame \in FrameId
    BY <1>0 DEF TypeOK, PageHandle, Closed
  <2>2. QED
    BY <1>0, <1>4, <2>1 DEF HandlesMatch, DescOpen
<1>10. HeadersMatch'
  <2>1. \A i \in FileId : IsOpen(i) => /\ openFile[i].hdr \in FrameId \ {f}
                                       /\ openFile[i].name \in FileName
    BY <1>0, <1>5 DEF TypeOK, IsOpen, FileHandle, IsHeader
  <2>2. ASSUME NEW i \in FileId, IsOpen(i) PROVE HeaderOk(i)'
    <3>1. HeaderOk(i) /\ frames'[openFile[i].hdr] = frames[openFile[i].hdr]
      BY <1>4, <2>1, <2>2 DEF HeadersMatch
    <3>2. openFile'[i] = openFile[i] /\ openFile[i].name \in FileName
      BY <1>0, <2>1, <2>2
    <3>3. \A q \in PageNum : disk[openFile[i].name][q] # Hole => disk'[openFile[i].name][q] # Hole
      BY <1>6, <3>2
    <3>4. QED
      BY <3>1, <3>2, <3>3 DEF HeaderOk
  <2>3. QED
    BY <1>0, <2>2 DEF HeadersMatch, IsOpen
<1>11. DescriptorsMatch' /\ DirtyFrames'
  BY <1>0, <1>4 DEF DescriptorsMatch, DirtyFrames, DescOpen, IsHeader, IsOpen
<1>12. DiskHeaders'
  BY <1>0, <1>6 DEF DiskHeaders
<1>13. HeaderEntries'
  BY <1>0, <1>5 DEF HeaderEntries, IsHeader, IsOpen
<1> QED
  BY <1>5, <1>7, <1>8, <1>9, <1>10, <1>11, <1>12, <1>13

\* create_file preserves the invariant.
LEMMA CreateFileInv ==
  ASSUME IInv, ~WriteErrors, NEW n \in FileName, CreateFile(n)
  PROVE  IInv'
<1> USE DEF IInv
<1>0. /\ TypeOK /\ n \notin files /\ files' = files \cup {n}
      /\ disk' = [disk EXCEPT ![n] = [Empty EXCEPT ![0] = NewHeader]]
      /\ UNCHANGED <<frames, freeList, lru, pageTable, openFile, freeIds, ph, fdFile>>
  BY DEF CreateFile, bpm
<1>1. /\ disk' \in [FileName -> [PageNum -> Content \cup {Hole}]]
      /\ disk'[n][0] = NewHeader
      /\ \A m \in FileName \ {n} : disk'[m] = disk[m]
  <2>1. 0 \in PageNum /\ NewHeader \in Content
    BY SizeAssumption DEF PageNum, NewHeader, Content, Header
  <2>2. [Empty EXCEPT ![0] = NewHeader] \in [PageNum -> Content \cup {Hole}]
    BY <2>1 DEF Empty
  <2>3. [Empty EXCEPT ![0] = NewHeader][0] = NewHeader
    BY <2>1 DEF Empty
  <2>4. QED
    BY <1>0, <2>2, <2>3 DEF TypeOK
<1>2. TypeOK' /\ ReusableFrames' /\ TableMatches'
  BY <1>0, <1>1 DEF TypeOK, ReusableFrames, TableMatches
<1>3. PinsHeld' /\ HandlesMatch' /\ DirtyFrames' /\ HeaderEntries'
  BY <1>0 DEF PinsHeld, Holders, HandlesMatch, DescOpen, DirtyFrames, HeaderEntries, IsHeader, IsOpen
<1>4. HeadersMatch'
  <2>1. \A i \in FileId : IsOpen(i) => openFile[i].name \in FileName \ {n}
    BY <1>0, OpenDesc DEF DescriptorsMatch, DescOpen, FileHandle
  <2>2. ASSUME NEW i \in FileId, IsOpen(i) PROVE HeaderOk(i)'
    <3>1. HeaderOk(i) /\ disk'[openFile[i].name] = disk[openFile[i].name]
      BY <1>1, <2>1, <2>2 DEF HeadersMatch
    <3>2. frames' = frames /\ openFile' = openFile
      BY <1>0
    <3>3. QED
      BY <3>1, <3>2 DEF HeaderOk
  <2>3. QED
    BY <1>0, <2>2 DEF HeadersMatch, IsOpen
<1>5. DescriptorsMatch'
  BY <1>0 DEF DescriptorsMatch, IsOpen
<1>6. DiskHeaders'
  BY <1>0, <1>1 DEF DiskHeaders
<1> QED
  BY <1>2, <1>3, <1>4, <1>5, <1>6

\* drop_file of a closed file preserves the invariant.
LEMMA DropFileInv ==
  ASSUME IInv, NEW n \in FileName, DropFile(n)
  PROVE  IInv'
<1> USE DEF IInv
<1>0. /\ TypeOK /\ \A fd \in FD : fdFile[fd] # n
      /\ files' = files \ {n} /\ disk' = [disk EXCEPT ![n] = Empty]
      /\ UNCHANGED <<frames, freeList, lru, pageTable, openFile, freeIds, ph, fdFile>>
  BY DEF DropFile, bpm
<1>1. /\ disk' \in [FileName -> [PageNum -> Content \cup {Hole}]]
      /\ disk'[n][0] = Hole
      /\ \A m \in FileName \ {n} : disk'[m] = disk[m]
  BY <1>0, SizeAssumption DEF TypeOK, Empty, PageNum
<1>2. TypeOK' /\ ReusableFrames' /\ TableMatches'
  BY <1>0, <1>1 DEF TypeOK, ReusableFrames, TableMatches
<1>3. PinsHeld' /\ HandlesMatch' /\ DirtyFrames' /\ HeaderEntries'
  BY <1>0 DEF PinsHeld, Holders, HandlesMatch, DescOpen, DirtyFrames, HeaderEntries, IsHeader, IsOpen
<1>4. HeadersMatch'
  <2>1. \A i \in FileId : IsOpen(i) => openFile[i].name \in FileName \ {n}
    BY <1>0, OpenDesc DEF DescriptorsMatch, DescOpen, FileHandle
  <2>2. ASSUME NEW i \in FileId, IsOpen(i) PROVE HeaderOk(i)'
    <3>1. HeaderOk(i) /\ disk'[openFile[i].name] = disk[openFile[i].name]
      BY <1>1, <2>1, <2>2 DEF HeadersMatch
    <3>2. frames' = frames /\ openFile' = openFile
      BY <1>0
    <3>3. QED
      BY <3>1, <3>2 DEF HeaderOk
  <2>3. QED
    BY <1>0, <2>2 DEF HeadersMatch, IsOpen
<1>5. DescriptorsMatch'
  BY <1>0 DEF DescriptorsMatch, IsOpen
<1>6. DiskHeaders'
  BY <1>0, <1>1 DEF DiskHeaders
<1> QED
  BY <1>2, <1>3, <1>4, <1>5, <1>6

\* open_file preserves the invariant: the header is loaded into a new frame.
LEMMA OpenFileInv ==
  ASSUME IInv, ~WriteErrors, NEW n \in FileName, NEW fd \in FD, OpenFile(n, fd)
  PROVE  IInv'
<1> USE DEF IInv
<1>0. TypeOK /\ n \in files /\ fdFile[fd] = NoFile /\ freeIds # <<>> /\ UNCHANGED <<ph, files>>
  BY DEF OpenFile
<1>1. PICK ft : ft = [fdFile EXCEPT ![fd] = n]
  OBVIOUS
<1>2. /\ ft \in [FD -> FileName \cup {NoFile}] /\ ft[fd] = n /\ n # NoFile
      /\ \A e \in FD : e # fd => ft[e] = fdFile[e]
  BY <1>0, <1>1, NameAssumption DEF TypeOK
<1>3. ~BlockLeaks(ft)
  BY <1>2, NoLeak
<1>4. GoodAll(frames)
  BY <1>0 DEF GoodAll, TypeOK, HeadersMatch, HeaderOk, Hdr
<1>5. CASE /\ BlockReady(ft)
           /\ LoadFails(frames, DiskAfterBlock(ft, frames), n, fd, 0)
           /\ UNCHANGED <<openFile, freeIds, fdFile>>
  BY <1>0, <1>2, <1>4, <1>5, LoadFailsLemma
<1>6. CASE /\ BlockReady(ft)
           /\ frames' = LoadPage(frames, DiskAfterBlock(ft, frames), n, fd, 0)
           /\ freeList' = FreeAfterAlloc
           /\ lru' = LruAfterAlloc
           /\ pageTable' = [TableAfterAlloc EXCEPT ![<<fd, 0>>] = AllocId]
           /\ disk' = DiskAfterBlock(ft, frames)
           /\ openFile' = [openFile EXCEPT ![Head(freeIds)] = [name |-> n, fd |-> fd, hdr |-> AllocId]]
           /\ freeIds' = Tail(freeIds)
           /\ fdFile' = ft
  <2>1. PICK a : a = AllocId
    OBVIOUS
  <2>2. PICK id : id = Head(freeIds)
    OBVIOUS
  <2>3. HasFrame /\ a \in FrameId /\ Holders(a) = {} /\ ~IsHeader(a)
    BY <1>6, <2>1, AllocLemma DEF BlockReady
  <2>4. /\ id \in FileId /\ ~IsOpen(id)
        /\ freeIds' \in Seq(FileId) /\ Distinct(freeIds')
        /\ Elems(freeIds') = Elems(freeIds) \ {id}
    <3>1. freeIds \in Seq(FileId) /\ Distinct(freeIds)
      BY <1>0 DEF TypeOK, DescriptorsMatch
    <3>2. QED
      BY <1>0, <1>6, <2>2, <3>1, TailLemma DEF DescriptorsMatch
  <2>5. /\ disk' \in [FileName -> [PageNum -> Content \cup {Hole}]]
        /\ \A m \in FileName : disk'[m][0] = disk[m][0]
        /\ \A m \in FileName, q \in PageNum : disk[m][q] # Hole => disk'[m][q] # Hole
    BY <1>2, <1>6, BlockDiskLemma
  <2>6. disk'[n][0] = NewHeader /\ NewHeader # Hole /\ NewHeader \in Header
        /\ NewHeader \in Content /\ 0 \in PageNum
    BY <1>0, <2>5, SizeAssumption, NameAssumption
       DEF DiskHeaders, NewHeader, Content, Header, PageNum
  <2>7. frames' = [frames EXCEPT ![a] = [dirty |-> FALSE, pin |-> 1, fd |-> fd,
                                         pn |-> 0, data |-> NewHeader]]
    BY <1>6, <2>1, <2>6 DEF LoadPage, LoadedPn, LoadedData
  <2>8. /\ frames' \in [FrameId -> Frame]
        /\ frames'[a].pin = 1 /\ frames'[a].fd = fd /\ frames'[a].pn = 0
        /\ ~frames'[a].dirty /\ frames'[a].data = NewHeader
        /\ \A f \in FrameId \ {a} : frames'[f] = frames[f]
    BY <1>0, <2>3, <2>6, <2>7 DEF TypeOK, Frame
  <2>9. /\ freeList' \in Seq(FrameId) /\ lru' \in Seq(FrameId)
        /\ pageTable' \in [FD \X PageNum -> FrameId \cup {NoFrame}]
        /\ ReusableFrames' /\ TableMatches'
    <3>1. /\ frames'[AllocId].fd = fd /\ frames'[AllocId].pn = 0
          /\ \A f \in FrameId \ {AllocId} : frames'[f].pin = frames[f].pin
               /\ frames'[f].fd = frames[f].fd /\ frames'[f].pn = frames[f].pn
      BY <2>1, <2>8
    <3>2. QED
      BY <1>6, <2>3, <2>6, <3>1, InstallLemma
  <2>10. [name |-> n, fd |-> fd, hdr |-> a] \in FileHandle
    BY <2>3 DEF FileHandle
  <2>11. /\ openFile' \in [FileId -> FileHandle \cup {NoHandle}]
         /\ openFile'[id].name = n /\ openFile'[id].fd = fd /\ openFile'[id].hdr = a
         /\ openFile'[id] # NoHandle
         /\ \A i \in FileId \ {id} : openFile'[i] = openFile[i]
    <3>1. openFile' = [openFile EXCEPT ![id] = [name |-> n, fd |-> fd, hdr |-> a]]
      BY <1>6, <2>1, <2>2
    <3>2. NoHandle # [name |-> n, fd |-> fd, hdr |-> a]
      BY <1>2 DEF NoHandle
    <3>3. QED
      BY <1>0, <2>4, <2>10, <3>1, <3>2 DEF TypeOK
  <2>12. TypeOK'
    BY <1>0, <1>2, <1>6, <2>4, <2>5, <2>8, <2>9, <2>11 DEF TypeOK
  <2>13. \A f \in FrameId : IsHeader(f) => IsHeader(f)'
    BY <2>4, <2>11 DEF IsHeader, IsOpen
  <2>14. IsHeader(a)'
    BY <2>4, <2>11 DEF IsHeader, IsOpen
  <2>15. PinsHeld'
    <3>1. \A f \in FrameId : Holders(f)' = Holders(f)
      BY <1>0 DEF Holders
    <3>2. Cardinality(Holders(a)) = 0
      BY <2>3, FS_EmptySet
    <3>3. QED
      BY <2>8, <3>1, <3>2 DEF PinsHeld
  <2>16. HandlesMatch'
    <3>1. \A h \in Handle : ph[h].open => ph[h].frame \in FrameId \ {a}
      BY <1>0, <2>3 DEF TypeOK, PageHandle, Closed, Holders
    <3>2. \A e \in FD : fdFile[e] # NoFile => ft[e] # NoFile
      BY <1>2
    <3>3. QED
      BY <1>0, <1>6, <2>8, <3>1, <3>2 DEF HandlesMatch, DescOpen
  <2>17. HeadersMatch'
    <3> SUFFICES ASSUME NEW i \in FileId, IsOpen(i)'
                 PROVE  HeaderOk(i)'
      BY DEF HeadersMatch
    <3>1. CASE i = id
      <4>1. \A p \in PageNum : p < NewHeader.count => disk'[n][p] # Hole
        BY <2>6 DEF NewHeader, PageNum
      <4>2. /\ 0 \in NewHeader.bits /\ \A p \in NewHeader.bits : p < NewHeader.count
            /\ NewHeader.alloc = Cardinality(NewHeader.bits)
        BY FS_Singleton DEF NewHeader
      <4>3. QED
        BY <3>1, <4>1, <4>2, <2>6, <2>8, <2>11 DEF HeaderOk
    <3>2. CASE i # id
      <4>1. openFile'[i] = openFile[i] /\ IsOpen(i)
        BY <3>2, <2>11 DEF IsOpen
      <4>2. HeaderOk(i) /\ openFile[i].hdr \in FrameId \ {a} /\ openFile[i].name \in FileName
        BY <4>1, <1>0, <2>3 DEF HeadersMatch, TypeOK, FileHandle, IsOpen, IsHeader
      <4>3. QED
        BY <4>1, <4>2, <2>5, <2>8 DEF HeaderOk
    <3>3. QED
      BY <3>1, <3>2
  <2>18. HeaderEntries'
    <3> SUFFICES ASSUME NEW k \in FD \X PageNum, pageTable'[k] # NoFrame, k[2] = 0
                 PROVE  IsHeader(pageTable[k])' \/ pageTable'[k] = a
      BY <2>14 DEF HeaderEntries, IsHeader
    <3>1. CASE k = <<fd, 0>>
      BY <3>1, <1>6, <2>1, <2>3, <2>6, AllocLemma
    <3>2. CASE k # <<fd, 0>>
      <4>1. pageTable'[k] = pageTable[k] /\ pageTable[k] \in FrameId
        BY <3>2, <1>6, <2>3, <2>9, AllocLemma
      <4>2. QED
        BY <4>1, <2>13 DEF HeaderEntries, IsHeader
    <3>3. QED
      BY <3>1, <3>2
  <2>19. DescriptorsMatch'
    <3>1. \A i \in FileId : openFile'[i] # NoHandle => ft[openFile'[i].fd] = openFile'[i].name
      <4> SUFFICES ASSUME NEW i \in FileId, openFile'[i] # NoHandle
                   PROVE  ft[openFile'[i].fd] = openFile'[i].name
        OBVIOUS
      <4>1. CASE i = id
        BY <4>1, <1>2, <2>11
      <4>2. CASE i # id
        <5>1. openFile'[i] = openFile[i] /\ IsOpen(i)
          BY <4>2, <2>11 DEF IsOpen
        <5>2. DescOpen(fdFile, openFile[i].fd) /\ fdFile[openFile[i].fd] = openFile[i].name
          BY <5>1, OpenDesc DEF DescriptorsMatch
        <5>3. QED
          BY <5>1, <5>2, <1>0, <1>2 DEF DescOpen
      <4>3. QED
        BY <4>1, <4>2
    <3>2. \A e \in FD : ft[e] # NoFile => ft[e] \in files
      BY <1>0, <1>2 DEF DescriptorsMatch
    <3>3. \A i \in Elems(freeIds') : i \in FileId \ {id} /\ openFile[i] = NoHandle
      <4>1. \A i \in Elems(freeIds) : i \in FileId
        BY <1>0 DEF TypeOK, Elems
      <4>2. QED
        BY <4>1, <2>4 DEF DescriptorsMatch, IsOpen
    <3>4. QED
      BY <1>0, <1>6, <2>4, <2>11, <3>1, <3>2, <3>3 DEF DescriptorsMatch, IsOpen
  <2>20. DirtyFrames'
    <3>1. \A e \in FD : fdFile[e] # NoFile => ft[e] # NoFile
      BY <1>2
    <3>2. QED
      BY <1>6, <2>8, <2>13, <3>1 DEF DirtyFrames, DescOpen
  <2>21. DiskHeaders'
    BY <1>0, <2>5 DEF DiskHeaders
  <2> QED
    BY <2>9, <2>12, <2>15, <2>16, <2>17, <2>18, <2>19, <2>20, <2>21
<1> QED
  BY <1>1, <1>3, <1>5, <1>6 DEF OpenFile

\* Without write errors no flush fails: every dirty frame can be written.
LEMMA FlushFailsNever ==
  ASSUME IInv, ~WriteErrors, NEW id \in FileId
  PROVE  ~FlushFails(id)
<1> SUFFICES ASSUME FlushFails(id) PROVE FALSE
  OBVIOUS
<1>1. PICK f \in Mapped(openFile[id].fd) : frames[f].dirty /\ ~DescOpen(fdFile, frames[f].fd)
  BY DEF FlushFails
<1>2. openFile[id].fd \in FD
  BY OpenDesc DEF FlushFails, FileHandle
<1>3. pageTable \in [FD \X PageNum -> FrameId \cup {NoFrame}]
  BY DEF IInv, TypeOK
<1>4. PICK p \in PageNum : f = pageTable[<<openFile[id].fd, p>>] /\ f # NoFrame
  BY <1>1 DEF Mapped
<1>5. f \in FrameId
  BY <1>2, <1>3, <1>4
<1>6. QED
  BY <1>1, <1>5 DEF IInv, DirtyFrames

-----------------------------------------------------------------------------
(* The theorems *)

\* The initial state satisfies the invariant.
LEMMA InitIInv == Init => IInv
<1> SUFFICES ASSUME Init PROVE IInv
  OBVIOUS
<1> USE DEF Init
<1>1. \A f \in FrameId : frames[f].pin = 0 /\ ~frames[f].dirty
  OBVIOUS
<1>2. /\ freeList \in Seq(FrameId) /\ Distinct(freeList)
      /\ lru \in Seq(FrameId) /\ Distinct(lru) /\ Elems(lru) = {}
  BY SizeAssumption DEF FrameId, Distinct, Elems
<1>3. freeIds \in Seq(FileId) /\ Distinct(freeIds)
  BY SizeAssumption DEF FileId, Distinct
<1>4. TypeOK
  <2>1. /\ NoHandle \in FileHandle \cup {NoHandle} /\ 0 \in PageNum /\ Zero \in Content
        /\ Unused \in FD \cup {Unused}
    BY SizeAssumption DEF PageNum, Content
  <2>2. frames \in [FrameId -> Frame]
    BY <2>1 DEF Frame
  <2>3. disk \in [FileName -> [PageNum -> Content \cup {Hole}]]
    BY DEF Empty
  <2>4. QED
    BY <1>2, <1>3, <2>1, <2>2, <2>3 DEF TypeOK
<1>5. ReusableFrames
  <2>1. Elems(freeList) \subseteq FrameId
    BY <1>2, ElemsIn
  <2>2. NoFrame \notin FrameId
    BY DEF NoFrame, FrameId
  <2>3. QED
    BY <1>1, <1>2, <2>1, <2>2 DEF ReusableFrames
<1>6. \A id \in FileId : ~IsOpen(id)
  BY DEF IsOpen
<1>7. \A h \in Handle : ~ph[h].open
  BY DEF Closed
<1>8. PinsHeld
  <2>1. \A f \in FrameId : Holders(f) = {}
    BY <1>7 DEF Holders
  <2>2. \A f \in FrameId : Cardinality(Holders(f)) = 0
    BY <2>1, FS_EmptySet
  <2> HIDE DEF Init
  <2>3. QED
    BY <1>1, <2>2 DEF PinsHeld
<1>9. TableMatches /\ HandlesMatch /\ HeadersMatch /\ HeaderEntries /\ DirtyFrames
  BY <1>1, <1>6, <1>7 DEF TableMatches, HandlesMatch, HeadersMatch, HeaderEntries, DirtyFrames
<1>10. DescriptorsMatch
  <2>1. Elems(freeIds) \subseteq FileId
    BY <1>3, ElemsIn
  <2>2. QED
    BY <1>3, <1>6, <2>1 DEF DescriptorsMatch
<1>11. DiskHeaders
  BY SizeAssumption DEF DiskHeaders, Empty, PageNum
<1> QED
  BY <1>4, <1>5, <1>8, <1>9, <1>10, <1>11 DEF IInv

\* Every step preserves the invariant.
LEMMA StepIInv == ASSUME ~WriteErrors PROVE IInv /\ [Next]_vars => IInv'
<1> SUFFICES ASSUME IInv, [Next]_vars PROVE IInv'
  OBVIOUS
<1>1. CASE FileStep
  BY <1>1, CreateFileInv, DropFileInv, OpenFileInv DEF FileStep
<1>2. CASE PageStep
  BY <1>2, GetThisPageInv, ReusePageInv, ExtendFileInv, UnpinPageInv, WritePageInv, ForcePageInv
     DEF PageStep
<1>3. CASE DisposeStep
  BY <1>3, DisposePageInv DEF DisposeStep
<1>4. CASE FlushFailStep
  BY <1>4, FlushFailsNever DEF FlushFailStep
<1>5. CASE UNCHANGED vars
  <2>1. TypeOK' /\ ReusableFrames'
    BY <1>5 DEF IInv, TypeOK, ReusableFrames, vars
  <2>2. TableMatches' /\ PinsHeld' /\ HandlesMatch'
    BY <1>5 DEF IInv, TableMatches, PinsHeld, Holders, HandlesMatch, DescOpen, vars
  <2>3. HeadersMatch' /\ HeaderEntries'
    BY <1>5 DEF IInv, HeadersMatch, HeaderOk, IsOpen, HeaderEntries, IsHeader, vars
  <2>4. DescriptorsMatch' /\ DirtyFrames' /\ DiskHeaders'
    BY <1>5 DEF IInv, DescriptorsMatch, DirtyFrames, DiskHeaders, DescOpen, IsOpen, IsHeader, vars
  <2>5. QED
    BY <2>1, <2>2, <2>3, <2>4 DEF IInv
<1>6. QED
  BY <1>1, <1>2, <1>3, <1>4, <1>5 DEF Next

\* The inductive invariant holds in every reachable state when writes succeed.
THEOREM Inductive == ASSUME ~WriteErrors PROVE Spec => []IInv
  BY InitIInv, StepIInv, PTL DEF Spec

\* Type correctness of the page cache.
THEOREM Typing == ASSUME ~WriteErrors PROVE Spec => []TypeOK
<1>1. IInv => TypeOK
  BY DEF IInv
<1>2. QED
  BY <1>1, Inductive, PTL

\* The free list, the replacer and the page table never disagree about who
\* may reuse a frame, whatever the order of allocations, unpins, disposals
\* and failed loads.
THEOREM FramesReusable == ASSUME ~WriteErrors PROVE Spec => []ReusableFrames
<1>1. IInv => ReusableFrames
  BY DEF IInv
<1>2. QED
  BY <1>1, Inductive, PTL

\* As long as no flush_all_pages or close_file succeeds, a caller's page
\* stays in its frame until the caller unpins it.
THEOREM PagesStay == ASSUME ~WriteErrors PROVE Spec => []PinnedPageStays
<1>1. IInv => PinnedPageStays
  <2> SUFFICES ASSUME IInv, NEW h \in Handle, ph[h].open
               PROVE  /\ frames[ph[h].frame].pin > 0
                      /\ frames[ph[h].frame].fd = ph[h].fd
                      /\ frames[ph[h].frame].pn = ph[h].pn
    BY DEF PinnedPageStays
  <2>1. QED
    BY HeldFrame DEF IInv, HandlesMatch
<1>2. QED
  BY <1>1, Inductive, PTL

\* The header page in memory always counts the bits of its bitmap.
THEOREM HeadersCount == ASSUME ~WriteErrors PROVE Spec => []HeaderCounts
<1>1. IInv => HeaderCounts
  BY DEF IInv, HeadersMatch, HeaderOk, HeaderCounts, Hdr
<1>2. QED
  BY <1>1, Inductive, PTL

-----------------------------------------------------------------------------
(* No frame is lost *)

\* Each frame is free, evictable or pinned.
Owned == \A f \in FrameId : f \in Elems(freeList) \cup Elems(lru) \/ frames[f].pin > 0

\* A step keeps every frame owned if the frames it takes off the lists and the
\* frames it unpins end up on a list or pinned.
LEMMA StaysOwned ==
  ASSUME Owned,
         \A f \in FrameId : f \in Elems(freeList) \cup Elems(lru) \/ frames[f].pin > 0
            => f \in Elems(freeList') \cup Elems(lru') \/ frames'[f].pin > 0
  PROVE  Owned'
BY DEF Owned, Elems

\* A list of frames without duplicates is not longer than the frame table.
LEMMA ListFits ==
  ASSUME NEW s \in Seq(FrameId), Distinct(s)
  PROVE  Len(s) <= NumFrames
<1>1. Len(s) \in Nat /\ DOMAIN s = 1 .. Len(s) /\ s \in [1 .. Len(s) -> FrameId]
  OBVIOUS
<1>2. s \in Injection(1 .. Len(s), FrameId)
  BY <1>1 DEF Injection, IsInjective, Distinct
<1>3. IsFiniteSet(FrameId) /\ Cardinality(FrameId) = NumFrames
  BY SizeAssumption, FS_Interval DEF FrameId
<1>4. Cardinality(1 .. Len(s)) <= Cardinality(FrameId)
  BY <1>2, <1>3, FS_Injection
<1>5. Cardinality(1 .. Len(s)) = Len(s)
  BY <1>1, FS_Interval
<1>6. QED
  BY <1>3, <1>4, <1>5

\* LRUReplacer::Unpin keeps every frame it has and the one it is given: its
\* capacity is the number of frames.
LEMMA LruUnpinKeeps ==
  ASSUME NEW s \in Seq(FrameId), NEW f \in FrameId, Distinct(s)
  PROVE  Elems(s) \cup {f} \subseteq Elems(LruUnpin(s, f))
<1> DEFINE t == IF f \in Elems(s) THEN s ELSE <<f>> \o s
<1>1. t \in Seq(FrameId) /\ Distinct(t) /\ Elems(s) \cup {f} \subseteq Elems(t)
  <2>1. CASE f \in Elems(s)
    BY <2>1
  <2>2. CASE f \notin Elems(s)
    <3>1. /\ Len(s) \in Nat /\ DOMAIN s = 1 .. Len(s)
          /\ t \in Seq(FrameId) /\ Len(t) = Len(s) + 1 /\ DOMAIN t = 1 .. Len(s) + 1
          /\ t[1] = f /\ \A i \in 2 .. Len(s) + 1 : t[i] = s[i - 1]
      BY <2>2
    <3> HIDE DEF t
    <3>2. \A i \in 2 .. Len(s) + 1 : i - 1 \in DOMAIN s /\ t[i] \in Elems(s) /\ t[i] # f
      BY <3>1, <2>2 DEF Elems
    <3>3. ASSUME NEW i \in DOMAIN t, NEW j \in DOMAIN t, t[i] = t[j] PROVE i = j
      <4>1. CASE i = 1 \/ j = 1
        BY <3>3, <4>1, <3>1, <3>2
      <4>2. CASE i # 1 /\ j # 1
        <5>1. i \in 2 .. Len(s) + 1 /\ j \in 2 .. Len(s) + 1
          BY <4>2, <3>1
        <5>2. s[i - 1] = s[j - 1] /\ i - 1 \in DOMAIN s /\ j - 1 \in DOMAIN s
          BY <3>3, <5>1, <3>1, <3>2
        <5>3. i - 1 = j - 1
          BY <5>2 DEF Distinct
        <5>4. QED
          BY <5>1, <5>3
      <4>3. QED
        BY <4>1, <4>2
    <3>4. ASSUME NEW j \in DOMAIN s PROVE s[j] \in Elems(t)
      <4>1. j + 1 \in 2 .. Len(s) + 1 /\ j + 1 \in DOMAIN t /\ (j + 1) - 1 = j
        BY <3>1
      <4>2. t[j + 1] = s[j]
        BY <3>1, <4>1
      <4>3. QED
        BY <4>1, <4>2 DEF Elems
    <3>5. f \in Elems(t)
      BY <3>1 DEF Elems
    <3>6. QED
      BY <3>1, <3>3, <3>4, <3>5 DEF Elems, Distinct
  <2>3. QED
    BY <2>1, <2>2
<1> HIDE DEF t
<1>2. Len(t) <= NumFrames /\ Len(t) \in Nat
  BY <1>1, ListFits
<1>3. LruUnpin(s, f) = IF Len(t) > NumFrames THEN SubSeq(t, 1, Len(t) - 1) ELSE t
  BY DEF LruUnpin, t
<1>4. LruUnpin(s, f) = t
  BY <1>2, <1>3, SizeAssumption
<1>5. QED
  BY <1>1, <1>4

\* alloc() takes one frame off the lists, the one it returns.
LEMMA AllocTakesOne ==
  ASSUME IInv, HasFrame
  PROVE  /\ AllocId \in FrameId
         /\ (Elems(freeList) \cup Elems(lru)) \ {AllocId}
              \subseteq Elems(FreeAfterAlloc) \cup Elems(LruAfterAlloc)
<1>0. /\ freeList \in Seq(FrameId) /\ lru \in Seq(FrameId)
      /\ Distinct(freeList) /\ Distinct(lru)
  BY DEF IInv, TypeOK, ReusableFrames
<1>1. Elems(freeList) \ {AllocId} \subseteq Elems(FreeAfterAlloc)
  <2>1. CASE freeList # <<>>
    BY <2>1, <1>0, TailLemma DEF FreeAfterAlloc, AllocId
  <2>2. CASE freeList = <<>>
    BY <2>2 DEF FreeAfterAlloc
  <2>3. QED
    BY <2>1, <2>2
<1>2. Elems(lru) \ {AllocId} \subseteq Elems(LruAfterAlloc)
  BY <1>0, WithoutLemma DEF LruAfterAlloc
<1>3. AllocId \in FrameId
  BY AllocLemma
<1>4. QED
  BY <1>1, <1>2, <1>3

\* A block that is allocated and pinned keeps every frame owned.
LEMMA TakenOwned ==
  ASSUME IInv, Owned, HasFrame,
         freeList' = FreeAfterAlloc, lru' = LruAfterAlloc,
         frames'[AllocId].pin > 0,
         \A f \in FrameId \ {AllocId} : frames'[f].pin = frames[f].pin
  PROVE  Owned'
<1>1. PICK a : a = AllocId
  OBVIOUS
<1>2. /\ a \in FrameId
      /\ (Elems(freeList) \cup Elems(lru)) \ {a} \subseteq Elems(freeList') \cup Elems(lru')
  BY <1>1, AllocTakesOne
<1>3. frames'[a].pin > 0 /\ \A f \in FrameId \ {a} : frames'[f].pin = frames[f].pin
  BY <1>1
<1>4. QED
  BY <1>2, <1>3, StaysOwned

\* A failed load gives its block back to the free list.
LEMMA GivenBackOwned ==
  ASSUME IInv, Owned, HasFrame, NEW fr \in [FrameId -> Frame],
         \A f \in FrameId : fr[f].pin = frames[f].pin,
         NEW d, NEW n, NEW fd, NEW p, LoadFails(fr, d, n, fd, p)
  PROVE  Owned'
<1>1. PICK a : a = AllocId
  OBVIOUS
<1>2. /\ a \in FrameId
      /\ (Elems(freeList) \cup Elems(lru)) \ {a}
           \subseteq Elems(FreeAfterAlloc) \cup Elems(LruAfterAlloc)
  BY <1>1, AllocTakesOne
<1>3. /\ FreeAfterAlloc \in Seq(FrameId) /\ Distinct(FreeAfterAlloc)
      /\ a \notin Elems(FreeAfterAlloc)
  BY <1>1, AllocLemma
<1>4. Elems(freeList') = Elems(FreeAfterAlloc) \cup {a}
  BY <1>1, <1>2, <1>3, AppendLemma DEF LoadFails
<1>5. lru' = LruAfterAlloc
  BY DEF LoadFails
<1>6. PICK r : frames' = [fr EXCEPT ![a] = r]
  BY <1>1 DEF LoadFails
<1>7. \A f \in FrameId \ {a} : frames'[f].pin = frames[f].pin
  BY <1>6
<1>8. QED
  BY <1>2, <1>4, <1>5, <1>7, StaysOwned

\* get_this_page keeps every frame owned.
LEMMA FetchOwned ==
  ASSUME IInv, Owned, ~WriteErrors, NEW h \in Handle, NEW id \in FileId, IsOpen(id),
         NEW p \in PageNum, NEW fr \in [FrameId -> Frame],
         \A f \in FrameId : fr[f].pin = frames[f].pin,
         Fetch(h, id, p, fr)
  PROVE  Owned'
<1>0. openFile[id].fd \in FD /\ pageTable \in [FD \X PageNum -> FrameId \cup {NoFrame}]
  BY DEF IInv, TypeOK, IsOpen, FileHandle
<1>1. ~BlockLeaks(fdFile)
  BY NoLeak
<1>2. PICK f : f = pageTable[<<openFile[id].fd, p>>]
  OBVIOUS
<1>3. CASE /\ f # NoFrame
           /\ frames' = [fr EXCEPT ![f].pin = @ + 1]
           /\ lru' = Without(lru, f)
           /\ UNCHANGED freeList
  <2>1. f \in FrameId
    BY <1>0, <1>2, <1>3
  <2>2. Elems(lru') = Elems(lru) \ {f}
    BY <1>3, WithoutLemma DEF IInv, TypeOK, ReusableFrames
  <2>3. frames'[f].pin > 0 /\ \A g \in FrameId \ {f} : frames'[g].pin = frames[g].pin
    <3>1. fr[f].pin \in Nat /\ frames'[f].pin = fr[f].pin + 1
      BY <1>3, <2>1 DEF Frame
    <3>2. QED
      BY <1>3, <2>1, <3>1
  <2>4. Elems(freeList') = Elems(freeList)
    BY <1>3
  <2>5. QED
    BY <2>1, <2>2, <2>3, <2>4, StaysOwned
<1>4. CASE /\ BlockReady(fdFile)
           /\ frames' = LoadPage(fr, DiskAfterBlock(fdFile, fr), openFile[id].name, openFile[id].fd, p)
           /\ freeList' = FreeAfterAlloc
           /\ lru' = LruAfterAlloc
  <2>1. HasFrame /\ AllocId \in FrameId
    BY <1>4, AllocLemma DEF BlockReady
  <2>2. frames'[AllocId].pin = 1 /\ \A g \in FrameId \ {AllocId} : frames'[g] = fr[g]
    BY <1>4, <2>1 DEF LoadPage
  <2>3. QED
    BY <1>4, <2>1, <2>2, TakenOwned
<1>5. CASE /\ BlockReady(fdFile)
           /\ LoadFails(fr, DiskAfterBlock(fdFile, fr), openFile[id].name, openFile[id].fd, p)
  BY <1>5, GivenBackOwned DEF BlockReady
<1>6. CASE frames' = fr /\ UNCHANGED <<freeList, lru>>
  BY <1>6, StaysOwned
<1>7. QED
  BY <1>1, <1>2, <1>3, <1>4, <1>5, <1>6 DEF Fetch

\* allocate_page keeps every frame owned, whether it reuses a page or extends
\* the file.
LEMMA AllocatePageOwned ==
  ASSUME IInv, Owned, ~WriteErrors, NEW h \in Handle, NEW id \in FileId,
         ReusePage(h, id) \/ ExtendFile(h, id)
  PROVE  Owned'
<1>0. /\ IsOpen(id) /\ openFile[id].hdr \in FrameId /\ frames \in [FrameId -> Frame]
      /\ Hdr(id) \in Header
  BY DEF IInv, ReusePage, ExtendFile, HeaderIntact, TypeOK, IsOpen, FileHandle
<1>1. CASE ReusePage(h, id)
  <2>1. PICK p : p = FirstFree(id)
    OBVIOUS
  <2>2. p \in PageNum /\ p \in FreePages(id)
    <3>1. FreePages(id) \in SUBSET PageNum /\ FreePages(id) # {}
      BY <1>1 DEF ReusePage, HasFreePage, FreePages
    <3>2. \E q \in FreePages(id) : \A r \in FreePages(id) : q <= r
      BY <3>1, FirstPage
    <3>3. QED
      BY <2>1, <3>1, <3>2 DEF FirstFree
  <2>3. PICK x : x = [count |-> Hdr(id).count, alloc |-> Hdr(id).alloc + 1,
                      bits |-> Hdr(id).bits \cup {p}]
    OBVIOUS
  <2>4. x \in Content
    BY <1>0, <2>2, <2>3 DEF Header, Content
  <2>5. PICK fr : fr = [frames EXCEPT ![openFile[id].hdr].data = x]
    OBVIOUS
  <2>6. fr \in [FrameId -> Frame] /\ \A f \in FrameId : fr[f].pin = frames[f].pin
    BY <1>0, <2>4, <2>5 DEF Frame
  <2>7. fr = WithHdr(id, Hdr(id).count, Hdr(id).alloc + 1, Hdr(id).bits \cup {p})
    BY <2>3, <2>5 DEF WithHdr
  <2>8. Fetch(h, id, p, fr)
    BY <1>1, <2>1, <2>7, Zenon DEF ReusePage
  <2>9. QED
    BY <1>0, <2>2, <2>6, <2>8, FetchOwned
<1>2. CASE ExtendFile(h, id)
  <2>1. ~BlockLeaks(fdFile)
    BY NoLeak
  <2>2. /\ HasFrame /\ freeList' = FreeAfterAlloc /\ lru' = LruAfterAlloc
        /\ frames' = ExtendedFrames(id, Hdr(id).count)
    BY <1>2, <2>1 DEF ExtendFile, BlockReady
  <2>3. AllocId \in FrameId /\ AllocId # openFile[id].hdr
    BY <1>0, <2>2, AllocLemma DEF IsHeader
  <2>4. frames'[AllocId].pin = 1
    BY <1>0, <2>2, <2>3 DEF ExtendedFrames, WithHdr
  <2>5. ASSUME NEW g \in FrameId \ {AllocId} PROVE frames'[g].pin = frames[g].pin
    <3>1. PICK hd : hd = openFile[id].hdr
      OBVIOUS
    <3>2. PICK x, r : frames' = [[frames EXCEPT ![hd].data = x] EXCEPT ![hd].dirty = TRUE, ![AllocId] = r]
      BY <2>2, <3>1 DEF ExtendedFrames, WithHdr
    <3>3. QED
      BY <1>0, <3>1, <3>2 DEF Frame
  <2>6. QED
    BY <2>2, <2>4, <2>5, TakenOwned
<1>3. QED
  BY <1>1, <1>2

\* A frame taken out of the page table and the replacer goes to the free list
\* (dispose_page, force_page).
LEMMA DeletedOwned ==
  ASSUME IInv, Owned, NEW f \in FrameId, frames[f].pin = 0, f \notin Elems(freeList),
         lru' = Without(lru, f), freeList' = Append(freeList, f),
         \A g \in FrameId : frames'[g].pin = frames[g].pin
  PROVE  Owned'
<1>0. /\ freeList \in Seq(FrameId) /\ lru \in Seq(FrameId)
      /\ Distinct(freeList) /\ Distinct(lru)
  BY DEF IInv, TypeOK, ReusableFrames
<1>1. Elems(freeList') = Elems(freeList) \cup {f}
  BY <1>0, AppendLemma
<1>2. Elems(lru') = Elems(lru) \ {f}
  BY <1>0, WithoutLemma
<1>3. QED
  BY <1>1, <1>2, StaysOwned

\* unpin_page gives a frame that nobody pins any more to the replacer.
LEMMA UnpinOwned ==
  ASSUME IInv, Owned, NEW h \in Handle, UnpinPage(h)
  PROVE  Owned'
<1>1. PICK f : f = ph[h].frame
  OBVIOUS
<1>2. /\ f \in FrameId /\ frames[f].pin > 0 /\ frames[f].pin \in Nat
      /\ frames \in [FrameId -> Frame] /\ lru \in Seq(FrameId) /\ Distinct(lru)
  BY <1>1, HeldFrame DEF UnpinPage, IInv, TypeOK, Frame, ReusableFrames
<1>3. Dec(frames[f].pin) = frames[f].pin - 1 /\ Dec(frames[f].pin) \in Nat
  BY <1>2 DEF Dec
<1>4. frames' = [frames EXCEPT ![f].pin = Dec(frames[f].pin)] /\ freeList' = freeList
  BY <1>1 DEF UnpinPage
<1>5. frames'[f].pin = Dec(frames[f].pin) /\ \A g \in FrameId \ {f} : frames'[g] = frames[g]
  BY <1>2, <1>4 DEF Frame
<1>6. lru' = IF Dec(frames[f].pin) = 0 THEN LruUnpin(lru, f) ELSE lru
  BY <1>1 DEF UnpinPage
<1>7. Elems(lru) \cup {f} \subseteq Elems(LruUnpin(lru, f))
  BY <1>2, LruUnpinKeeps
<1>8. CASE Dec(frames[f].pin) = 0
  <2>1. lru' = LruUnpin(lru, f)
    BY <1>6, <1>8
  <2>2. Elems(lru) \cup {f} \subseteq Elems(lru') /\ Elems(freeList') = Elems(freeList)
    BY <1>4, <1>7, <2>1
  <2>3. QED
    BY <1>2, <1>5, <2>2, StaysOwned
<1>9. CASE Dec(frames[f].pin) # 0
  <2>1. frames'[f].pin > 0
    <3>1. \A k \in Nat : k # 0 => k > 0
      OBVIOUS
    <3>2. Dec(frames[f].pin) > 0
      BY <1>3, <1>9, <3>1
    <3>3. QED
      BY <1>5, <3>2
  <2>2. lru' = lru
    BY <1>6, <1>9
  <2>3. QED
    BY <1>2, <1>4, <1>5, <2>1, <2>2, StaysOwned
<1>10. QED
  BY <1>8, <1>9

\* open_file pins the header's frame, or frees it when the header is not read.
LEMMA OpenFileOwned ==
  ASSUME IInv, Owned, ~WriteErrors, NEW n \in FileName, NEW fd \in FD, OpenFile(n, fd)
  PROVE  Owned'
<1>1. PICK ft : ft = [fdFile EXCEPT ![fd] = n]
  OBVIOUS
<1>2. \A e \in FD : fdFile[e] # NoFile => ft[e] # NoFile
  BY <1>1, NameAssumption DEF IInv, TypeOK
<1>3. ~BlockLeaks(ft)
  BY <1>2, NoLeak
<1>4. frames \in [FrameId -> Frame]
  BY DEF IInv, TypeOK
<1>5. CASE /\ BlockReady(ft)
           /\ frames' = LoadPage(frames, DiskAfterBlock(ft, frames), n, fd, 0)
           /\ freeList' = FreeAfterAlloc
           /\ lru' = LruAfterAlloc
  <2>1. HasFrame /\ AllocId \in FrameId
    BY <1>5, AllocLemma DEF BlockReady
  <2>2. frames'[AllocId].pin = 1 /\ \A g \in FrameId \ {AllocId} : frames'[g] = frames[g]
    BY <1>4, <1>5, <2>1 DEF LoadPage
  <2>3. QED
    BY <1>5, <2>1, <2>2, TakenOwned
<1>6. CASE BlockReady(ft) /\ LoadFails(frames, DiskAfterBlock(ft, frames), n, fd, 0)
  <2>1. HasFrame
    BY <1>6 DEF BlockReady
  <2>2. QED
    BY <1>4, <1>6, <2>1, GivenBackOwned
<1>7. QED
  BY <1>1, <1>3, <1>5, <1>6 DEF OpenFile

\* Every step keeps every frame owned.
LEMMA StepOwned ==
  ASSUME ~WriteErrors PROVE IInv /\ Owned /\ [Next]_vars => Owned'
<1> SUFFICES ASSUME IInv, Owned, [Next]_vars PROVE Owned'
  OBVIOUS
<1>0. /\ frames \in [FrameId -> Frame]
      /\ pageTable \in [FD \X PageNum -> FrameId \cup {NoFrame}]
      /\ \A id \in FileId : IsOpen(id) => openFile[id] \in FileHandle
  BY DEF IInv, TypeOK, IsOpen
<1>1. ASSUME NEW n \in FileName, CreateFile(n) \/ DropFile(n) PROVE Owned'
  BY <1>1 DEF CreateFile, DropFile, bpm, Owned
<1>2. ASSUME NEW h \in Handle, NEW id \in FileId, NEW p \in PageNum, GetThisPage(h, id, p)
      PROVE  Owned'
  BY <1>0, <1>2, FetchOwned DEF GetThisPage, HeaderIntact
<1>3. ASSUME NEW h \in Handle, NEW v \in Value, WritePage(h, v) PROVE Owned'
  <2>1. \A f \in FrameId : frames'[f].pin = frames[f].pin
    BY <1>0, <1>3 DEF WritePage, Frame
  <2>2. freeList' = freeList /\ lru' = lru
    BY <1>3 DEF WritePage
  <2>3. QED
    BY <2>1, <2>2, StaysOwned
<1>4. ASSUME NEW id \in FileId, NEW p \in PageNum, ForcePage(id, p) \/ DisposePage(id, p)
      PROVE  Owned'
  <2>1. PICK f : f = pageTable[<<openFile[id].fd, p>>]
    OBVIOUS
  <2>2. IsOpen(id) /\ f # NoFrame /\ frames[f].pin = 0
    BY <1>4, <2>1 DEF ForcePage, DisposePage, HeaderIntact
  <2>3. f \in FrameId /\ f \notin Elems(freeList)
    BY <1>0, <2>1, <2>2 DEF FileHandle, IInv, ReusableFrames
  <2>4. lru' = Without(lru, f) /\ freeList' = Append(freeList, f)
    BY <1>4, <2>1 DEF ForcePage, DisposePage
  <2>5. CASE ForcePage(id, p)
    <3>1. \A g \in FrameId : frames'[g].pin = frames[g].pin
      BY <1>0, <2>5 DEF ForcePage, Frame
    <3>2. QED
      BY <2>2, <2>3, <2>4, <3>1, DeletedOwned
  <2>6. CASE DisposePage(id, p)
    <3>1. PICK hd : hd = openFile[id].hdr
      OBVIOUS
    <3>2. PICK x : frames' = [[frames EXCEPT ![hd].data = x] EXCEPT ![hd].dirty = TRUE]
      BY <2>6, <3>1 DEF DisposePage, WithHdr
    <3>3. \A g \in FrameId : frames'[g].pin = frames[g].pin
      BY <1>0, <3>2 DEF Frame
    <3>4. QED
      BY <2>2, <2>3, <2>4, <3>3, DeletedOwned
  <2>7. QED
    BY <1>4, <2>5, <2>6
<1>5. CASE FileStep
  BY <1>1, <1>5, OpenFileOwned DEF FileStep
<1>6. CASE PageStep
  BY <1>2, <1>3, <1>4, <1>6, AllocatePageOwned, UnpinOwned DEF PageStep
<1>7. CASE DisposeStep
  BY <1>4, <1>7 DEF DisposeStep
<1>8. CASE FlushFailStep
  BY <1>8, FlushFailsNever DEF FlushFailStep
<1>9. CASE UNCHANGED vars
  BY <1>9 DEF vars, Owned
<1>10. QED
  BY <1>5, <1>6, <1>7, <1>8, <1>9 DEF Next

\* No frame is ever lost while writes succeed: whatever the order of loads,
\* failed loads, evictions, unpins and disposals, alloc() can still reach
\* every frame that nobody pins.
THEOREM FramesKept == ASSUME ~WriteErrors PROVE Spec => []FramesAccounted
<1>1. Init => Owned
  <2> SUFFICES ASSUME Init, NEW f \in FrameId PROVE f \in Elems(freeList)
    BY DEF Owned
  <2>1. f + 1 \in DOMAIN freeList /\ freeList[f + 1] = f
    BY SizeAssumption DEF Init, FrameId
  <2>2. QED
    BY <2>1 DEF Elems
<1>2. Owned => FramesAccounted
  BY DEF Owned, FramesAccounted
<1>3. Spec => []Owned
  BY <1>1, Inductive, StepOwned, PTL DEF Spec
<1>4. QED
  BY <1>2, <1>3, PTL

-----------------------------------------------------------------------------
(***************************************************************************)
(* The page cache implements PageStore while pages are asked for, written, *)
(* unpinned, evicted and forced, and files are created, opened and         *)
(* dropped, for any number of frames, files, pages and handles.  Neither   *)
(* reads nor writes fail, no page is disposed of, and no file is closed.   *)
(***************************************************************************)

WorkNext == FileStep \/ PageStep
WorkSpec == Init /\ [][WorkNext]_vars

\* A dirty frame is the one the page table has for its page.
DirtyMapped == \A f \in FrameId : frames[f].dirty => pageTable[<<frames[f].fd, frames[f].pn>>] = f

\* So is a frame that may be evicted, and a frame behind a handle.
LruMapped ==
  \A f \in Elems(lru) : frames[f].fd \in FD /\ pageTable[<<frames[f].fd, frames[f].pn>>] = f
HandlesMapped == \A h \in Handle : ph[h].open => pageTable[<<ph[h].fd, ph[h].pn>>] = ph[h].frame

\* A mapped page belongs to an open descriptor; in a clean frame it is what
\* is on disk.
EntriesOpen == \A k \in FD \X PageNum : pageTable[k] # NoFrame => fdFile[k[1]] # NoFile
CleanAgrees ==
  \A k \in FD \X PageNum : pageTable[k] # NoFrame /\ ~frames[pageTable[k]].dirty =>
    frames[pageTable[k]].data = disk[fdFile[k[1]]][k[2]]

\* A file is open once, and an open descriptor is that of an open file.
OpenOnce ==
  /\ \A i, j \in FileId : IsOpen(i) /\ IsOpen(j) /\ openFile[i].name = openFile[j].name => i = j
  /\ \A fd \in FD : fdFile[fd] # NoFile => \E id \in FileId : IsOpen(id) /\ openFile[id].fd = fd

\* The header of an open file is mapped, every page of the file is allocated,
\* and only pages of the file are mapped.
HeaderMapped(id) ==
  /\ pageTable[<<openFile[id].fd, 0>>] = openFile[id].hdr
  /\ \A p \in PageNum : p < Hdr(id).count => p \in Hdr(id).bits
  /\ \A p \in PageNum : pageTable[<<openFile[id].fd, p>>] # NoFrame => p < Hdr(id).count

HeadersMapped == \A id \in FileId : IsOpen(id) => HeaderMapped(id)

\* A file that does not exist has no pages.
GoneIsEmpty == \A n \in FileName : n \notin files => disk[n] = Empty

RInv ==
  /\ DirtyMapped
  /\ LruMapped
  /\ HandlesMapped
  /\ EntriesOpen
  /\ CleanAgrees
  /\ OpenOnce
  /\ HeadersMapped
  /\ GoneIsEmpty

-----------------------------------------------------------------------------
(* What the store holds *)

\* Frame f has something to write to page p of file n.
DirtyAt(f, n, p) == frames[f].dirty /\ fdFile[frames[f].fd] = n /\ frames[f].pn = p

\* A page is what a dirty frame has for it, and else what is on disk.
StoreView ==
  /\ Logical = [n \in FileName |-> [p \in PageNum |-> Logical[n][p]]]
  /\ \A n \in FileName, p \in PageNum : \A f \in FrameId :
       DirtyAt(f, n, p) => Logical[n][p] = frames[f].data
  /\ \A n \in FileName, p \in PageNum :
       (\A f \in FrameId : ~DirtyAt(f, n, p)) => Logical[n][p] = disk[n][p]

\* Two descriptors are never open on the same file.
LEMMA OneDesc ==
  ASSUME IInv, RInv, NEW c \in FD, NEW e \in FD, fdFile[c] # NoFile, fdFile[c] = fdFile[e]
  PROVE  c = e
<1>1. PICK i \in FileId : IsOpen(i) /\ openFile[i].fd = c
  BY DEF RInv, OpenOnce
<1>2. PICK j \in FileId : IsOpen(j) /\ openFile[j].fd = e
  BY DEF RInv, OpenOnce
<1>3. openFile[i].name = openFile[j].name
  BY <1>1, <1>2 DEF IInv, DescriptorsMatch
<1>4. i = j
  BY <1>1, <1>2, <1>3 DEF RInv, OpenOnce
<1>5. QED
  BY <1>1, <1>2, <1>4

\* Where a dirty frame is to be written
LEMMA DirtyPlace ==
  ASSUME IInv, RInv, NEW f \in FrameId, frames[f].dirty
  PROVE  /\ frames[f].fd \in FD /\ frames[f].pn \in PageNum
         /\ fdFile[frames[f].fd] # NoFile /\ fdFile[frames[f].fd] \in FileName
         /\ pageTable[<<frames[f].fd, frames[f].pn>>] = f
<1>1. frames[f].fd \in FD /\ fdFile[frames[f].fd] # NoFile
  BY DEF IInv, DirtyFrames, DescOpen
<1>2. frames[f].pn \in PageNum
  BY DEF IInv, TypeOK, Frame
<1>3. fdFile[frames[f].fd] \in FileName
  BY <1>1 DEF IInv, TypeOK
<1>4. QED
  BY <1>1, <1>2, <1>3 DEF RInv, DirtyMapped

\* No frame has something to write to a file that does not exist.
LEMMA NoneToGone ==
  ASSUME IInv, RInv, NEW f \in FrameId, NEW n \in FileName, n \notin files
  PROVE  \A p : ~DirtyAt(f, n, p)
<1>1. \A fd \in FD : fdFile[fd] # NoFile => fdFile[fd] \in files
  BY DEF IInv, DescriptorsMatch
<1>2. ASSUME NEW p, DirtyAt(f, n, p) PROVE FALSE
  <2>1. frames[f].dirty /\ fdFile[frames[f].fd] = n
    BY <1>2 DEF DirtyAt
  <2>2. frames[f].fd \in FD /\ fdFile[frames[f].fd] # NoFile
    BY <2>1, DirtyPlace
  <2>3. QED
    BY <1>1, <2>1, <2>2
<1>3. QED
  BY <1>2

\* Two frames never have something to write to the same page.
LEMMA OneDirty ==
  ASSUME IInv, RInv, NEW n \in FileName, NEW p \in PageNum,
         NEW f \in FrameId, NEW g \in FrameId, DirtyAt(f, n, p), DirtyAt(g, n, p)
  PROVE  f = g
<1>1. /\ frames[f].fd \in FD /\ fdFile[frames[f].fd] # NoFile
      /\ pageTable[<<frames[f].fd, p>>] = f
  BY DirtyPlace DEF DirtyAt
<1>2. frames[g].fd \in FD /\ pageTable[<<frames[g].fd, p>>] = g
  BY DirtyPlace DEF DirtyAt
<1>3. frames[f].fd = frames[g].fd
  BY <1>1, <1>2, OneDesc DEF DirtyAt
<1>4. QED
  BY <1>1, <1>2, <1>3

\* A page of an open file that is in the page table is what its frame holds.
LEMMA EntryRead ==
  ASSUME IInv, RInv, NEW id \in FileId, IsOpen(id), NEW p \in PageNum,
         pageTable[<<openFile[id].fd, p>>] # NoFrame
  PROVE  Logical[openFile[id].name][p] = frames[pageTable[<<openFile[id].fd, p>>]].data
<1>1. PICK n \in FileName : n = openFile[id].name
  BY OpenDesc DEF FileHandle
<1>2. \A i \in FileId : openFile[i].name = n => i = id
  <2>1. NoHandle.name # n
    BY NameAssumption DEF NoHandle
  <2>2. \A i \in FileId : openFile[i].name = n => IsOpen(i)
    BY <2>1 DEF IsOpen
  <2>3. QED
    BY <1>1, <2>2 DEF RInv, OpenOnce
<1>3. Cached(n, p) = {id}
  BY <1>1, <1>2 DEF Cached
<1>4. (CHOOSE i \in Cached(n, p) : TRUE) = id
  BY <1>3
<1>5. QED
  BY <1>1, <1>3, <1>4 DEF Logical

\* The store, in terms of the dirty frames and the disk
LEMMA Views == IInv /\ RInv => StoreView
<1> SUFFICES ASSUME IInv, RInv PROVE StoreView
  OBVIOUS
<1>1. Logical = [n \in FileName |-> [p \in PageNum |-> Logical[n][p]]]
  BY DEF Logical
<1>2. ASSUME NEW n \in FileName, NEW p \in PageNum, NEW f \in FrameId, DirtyAt(f, n, p)
      PROVE  Logical[n][p] = frames[f].data
  <2>1. /\ frames[f].fd \in FD /\ fdFile[frames[f].fd] # NoFile
        /\ pageTable[<<frames[f].fd, p>>] = f
    BY <1>2, DirtyPlace DEF DirtyAt
  <2>2. PICK id \in FileId : IsOpen(id) /\ openFile[id].fd = frames[f].fd
    BY <2>1 DEF RInv, OpenOnce
  <2>3. openFile[id].name = n
    BY <1>2, <2>2 DEF IInv, DescriptorsMatch, DirtyAt
  <2>4. f # NoFrame
    BY DEF FrameId, NoFrame
  <2>5. QED
    BY <2>1, <2>2, <2>3, <2>4, EntryRead
<1>3. ASSUME NEW n \in FileName, NEW p \in PageNum, \A f \in FrameId : ~DirtyAt(f, n, p)
      PROVE  Logical[n][p] = disk[n][p]
  <2>1. CASE Cached(n, p) = {}
    BY <2>1 DEF Logical
  <2>2. CASE Cached(n, p) # {}
    <3>1. PICK id \in FileId : openFile[id].name = n /\ pageTable[<<openFile[id].fd, p>>] # NoFrame
      BY <2>2 DEF Cached
    <3>2. NoHandle.name # n
      BY NameAssumption DEF NoHandle
    <3>3. IsOpen(id)
      BY <3>1, <3>2 DEF IsOpen
    <3>4. PICK c \in FD : c = openFile[id].fd
      BY <3>3, OpenDesc DEF FileHandle
    <3>5. PICK f : f = pageTable[<<c, p>>]
      OBVIOUS
    <3>6. f \in FrameId /\ f # NoFrame
      BY <3>1, <3>4, <3>5 DEF IInv, TypeOK
    <3>7. frames[f].fd = c /\ frames[f].pn = p /\ fdFile[c] = n
      BY <3>1, <3>3, <3>4, <3>5, <3>6 DEF IInv, TableMatches, DescriptorsMatch
    <3>8. ~frames[f].dirty
      BY <1>3, <3>6, <3>7 DEF DirtyAt
    <3>9. frames[f].data = disk[n][p]
      BY <3>4, <3>5, <3>6, <3>7, <3>8 DEF RInv, CleanAgrees
    <3>10. QED
      BY <3>1, <3>3, <3>4, <3>5, <3>9, EntryRead
  <2>3. QED
    BY <2>1, <2>2
<1>4. QED
  BY <1>1, <1>2, <1>3 DEF StoreView

LEMMA ViewsNext == IInv' /\ RInv' => StoreView'
BY Views, PTL

\* A page keeps its content when the frame that is to write it keeps it, when
\* that frame is written, or when there is none and the disk keeps it.
LEMMA SamePage ==
  ASSUME IInv, RInv, IInv', RInv', NEW n \in FileName, NEW p \in PageNum,
         \/ \E f \in FrameId : /\ DirtyAt(f, n, p) /\ DirtyAt(f, n, p)'
                               /\ frames'[f].data = frames[f].data
         \/ /\ \A f \in FrameId : ~DirtyAt(f, n, p)'
            /\ \/ \E f \in FrameId : DirtyAt(f, n, p) /\ disk'[n][p] = frames[f].data
               \/ (\A f \in FrameId : ~DirtyAt(f, n, p)) /\ disk'[n][p] = disk[n][p]
  PROVE  Logical'[n][p] = Logical[n][p]
<1>1. StoreView /\ StoreView'
  BY Views, ViewsNext
<1>2. QED
  BY <1>1 DEF StoreView

\* When every page keeps its content, so does the store.
LEMMA SameStore ==
  ASSUME IInv, RInv, IInv', RInv',
         \A n \in FileName, p \in PageNum : Logical'[n][p] = Logical[n][p]
  PROVE  Logical' = Logical
<1>1. StoreView /\ StoreView'
  BY Views, ViewsNext
<1>2. /\ Logical = [n \in FileName |-> [p \in PageNum |-> Logical[n][p]]]
      /\ Logical' = [n \in FileName |-> [p \in PageNum |-> Logical'[n][p]]]
  BY <1>1 DEF StoreView
<1>3. QED
  BY <1>2
-----------------------------------------------------------------------------
(* Steps that only pin and unpin *)

\* The frames hold the same pages with the same contents.
Stands ==
  /\ \A f \in FrameId : /\ frames'[f].dirty = frames[f].dirty /\ frames'[f].fd = frames[f].fd
                        /\ frames'[f].pn = frames[f].pn /\ frames'[f].data = frames[f].data
  /\ UNCHANGED <<disk, pageTable, openFile, fdFile, files>>

\* The header frame of an open file
LEMMA HeaderFrame ==
  ASSUME IInv, NEW id \in FileId, IsOpen(id)
  PROVE  /\ openFile[id].hdr \in FrameId /\ openFile[id].fd \in FD /\ openFile[id].name \in FileName
         /\ fdFile[openFile[id].fd] = openFile[id].name
         /\ frames[openFile[id].hdr].pin > 0
         /\ frames[openFile[id].hdr].fd = openFile[id].fd
         /\ frames[openFile[id].hdr].pn = 0
         /\ Hdr(id) \in Header
<1>1. openFile[id] \in FileHandle
  BY OpenDesc
<1>2. HeaderOk(id)
  BY DEF IInv, HeadersMatch
<1>3. QED
  BY <1>1, <1>2 DEF FileHandle, HeaderOk, Hdr, IInv, DescriptorsMatch

\* What pinning and unpinning leave alone
LEMMA StandsKeeps ==
  ASSUME IInv, RInv, Stands
  PROVE  DirtyMapped' /\ EntriesOpen' /\ CleanAgrees' /\ OpenOnce' /\ HeadersMapped' /\ GoneIsEmpty'
<1>1. DirtyMapped'
  BY DEF RInv, DirtyMapped, Stands
<1>2. EntriesOpen' /\ GoneIsEmpty'
  BY DEF RInv, EntriesOpen, GoneIsEmpty, Stands
<1>3. CleanAgrees'
  <2>1. \A k \in FD \X PageNum : pageTable[k] # NoFrame => pageTable[k] \in FrameId
    BY DEF IInv, TypeOK
  <2>2. QED
    BY <2>1 DEF RInv, CleanAgrees, Stands
<1>4. OpenOnce'
  BY DEF RInv, OpenOnce, IsOpen, Stands
<1>5. HeadersMapped'
  <2>1. ASSUME NEW id \in FileId, IsOpen(id) PROVE HeaderMapped(id)'
    <3>1. openFile[id].hdr \in FrameId
      BY <2>1, HeaderFrame
    <3>2. Hdr(id)' = Hdr(id)
      BY <3>1 DEF Hdr, Stands
    <3>3. HeaderMapped(id)
      BY <2>1 DEF RInv, HeadersMapped
    <3>4. QED
      BY <3>2, <3>3 DEF HeaderMapped, Stands
  <2>2. \A id \in FileId : IsOpen(id)' <=> IsOpen(id)
    BY DEF IsOpen, Stands
  <2>3. QED
    BY <2>1, <2>2 DEF HeadersMapped
<1>6. QED
  BY <1>1, <1>2, <1>3, <1>4, <1>5

\* Pinning and unpinning leave the store alone.
LEMMA StandsStore ==
  ASSUME IInv, RInv, IInv', RInv', Stands
  PROVE  Logical' = Logical
<1>1. \A n, p : \A f \in FrameId : DirtyAt(f, n, p)' <=> DirtyAt(f, n, p)
  BY DEF Stands, DirtyAt
<1>2. ASSUME NEW n \in FileName, NEW p \in PageNum
      PROVE  Logical'[n][p] = Logical[n][p]
  <2>1. CASE \E f \in FrameId : DirtyAt(f, n, p)
    <3>1. PICK f \in FrameId : DirtyAt(f, n, p)
      BY <2>1
    <3>2. QED
      BY <1>1, <3>1, SamePage DEF Stands
  <2>2. CASE \A f \in FrameId : ~DirtyAt(f, n, p)
    BY <1>1, <2>2, SamePage DEF Stands
  <2>3. QED
    BY <2>1, <2>2
<1>3. QED
  BY <1>2, SameStore

\* The same frames may be evicted, or one more that the page table has.
LEMMA LruKeeps ==
  ASSUME IInv, RInv, Stands, NEW f \in FrameId, f \in Elems(lru') => f \in Elems(lru) \/
           (frames[f].fd \in FD /\ pageTable[<<frames[f].fd, frames[f].pn>>] = f),
         Elems(lru') \subseteq Elems(lru) \cup {f}
  PROVE  LruMapped'
<1>1. \A g \in Elems(lru) : g \in FrameId
  BY ElemsIn DEF IInv, TypeOK
<1>2. QED
  BY <1>1 DEF RInv, LruMapped, Stands

\* unpin_page
LEMMA UnpinPageR ==
  ASSUME IInv, RInv, IInv', NEW h \in Handle, UnpinPage(h)
  PROVE  RInv' /\ Stands
<1>1. PICK f : f = ph[h].frame
  OBVIOUS
<1>2. /\ ph[h].open /\ ph' = [ph EXCEPT ![h] = Closed]
      /\ frames' = [frames EXCEPT ![f].pin = Dec(@)]
      /\ lru' = IF Dec(frames[f].pin) = 0 THEN LruUnpin(lru, f) ELSE lru
      /\ UNCHANGED <<disk, pageTable, openFile, fdFile, files>>
  BY <1>1 DEF UnpinPage, os
<1>3. f \in FrameId /\ frames[f].pin > 0
  BY <1>1, <1>2, HeldFrame
<1>4. Stands
  <2>1. frames \in [FrameId -> Frame]
    BY DEF IInv, TypeOK
  <2>2. \A g \in FrameId : frames[g] \in Frame
    BY <2>1
  <2>3. \A g \in FrameId : g # f => frames'[g] = frames[g]
    BY <1>2, <2>1
  <2>4. frames'[f] = [frames[f] EXCEPT !.pin = Dec(@)]
    BY <1>2, <1>3, <2>1
  <2>5. /\ frames'[f].dirty = frames[f].dirty /\ frames'[f].fd = frames[f].fd
        /\ frames'[f].pn = frames[f].pn /\ frames'[f].data = frames[f].data
    BY <1>3, <2>2, <2>4 DEF Frame
  <2>6. QED
    BY <1>2, <2>3, <2>5 DEF Stands
<1>5. frames[f].fd \in FD /\ pageTable[<<frames[f].fd, frames[f].pn>>] = f
  <2>1. pageTable[<<ph[h].fd, ph[h].pn>>] = f
    BY <1>1, <1>2 DEF RInv, HandlesMapped
  <2>2. frames[f].fd = ph[h].fd /\ frames[f].pn = ph[h].pn /\ ph[h].fd \in FD
    BY <1>1, <1>2 DEF IInv, HandlesMatch, DescOpen
  <2>3. QED
    BY <2>1, <2>2
<1>6. LruMapped'
  <2>1. Elems(lru') \subseteq Elems(lru) \cup {f}
    BY <1>2, <1>3, LruUnpinLemma DEF IInv, TypeOK, ReusableFrames
  <2>2. QED
    BY <1>3, <1>4, <1>5, <2>1, LruKeeps
<1>7. HandlesMapped'
  <2>1. ph \in [Handle -> PageHandle \cup {Closed}]
    BY DEF IInv, TypeOK
  <2>2. ASSUME NEW g \in Handle, ph'[g].open PROVE g # h /\ ph'[g] = ph[g]
    BY <1>2, <2>1, <2>2 DEF Closed
  <2>3. QED
    BY <1>2, <2>2 DEF RInv, HandlesMapped
<1>8. QED
  BY <1>4, <1>6, <1>7, StandsKeeps DEF RInv

\* get_this_page of a page that is in the page table
LEMMA HitR ==
  ASSUME IInv, RInv, IInv', NEW h \in Handle, NEW id \in FileId, NEW p \in PageNum, IsOpen(id),
         NEW f, f = pageTable[<<openFile[id].fd, p>>], f # NoFrame, Pins(h, id, p, frames, f),
         UNCHANGED <<pageTable, disk, openFile, files, fdFile>>
  PROVE  RInv' /\ Stands
<1>1. f \in FrameId
  BY HeaderFrame DEF IInv, TypeOK
<1>2. Stands
  <2>1. frames \in [FrameId -> Frame]
    BY DEF IInv, TypeOK
  <2>2. \A g \in FrameId : frames[g] \in Frame
    BY <2>1
  <2>3. \A g \in FrameId : g # f => frames'[g] = frames[g]
    BY <2>1 DEF Pins
  <2>4. frames'[f] = [frames[f] EXCEPT !.pin = @ + 1]
    BY <1>1, <2>1 DEF Pins
  <2>5. /\ frames'[f].dirty = frames[f].dirty /\ frames'[f].fd = frames[f].fd
        /\ frames'[f].pn = frames[f].pn /\ frames'[f].data = frames[f].data
    BY <1>1, <2>2, <2>4 DEF Frame
  <2>6. QED
    BY <2>3, <2>5 DEF Stands
<1>3. LruMapped'
  <2>1. Elems(lru') \subseteq Elems(lru)
    BY WithoutLemma DEF IInv, TypeOK, ReusableFrames, Pins
  <2>2. QED
    BY <1>1, <1>2, <2>1, LruKeeps
<1>4. HandlesMapped'
  <2>1. ph \in [Handle -> PageHandle \cup {Closed}]
    BY DEF IInv, TypeOK
  <2>2. /\ ph'[h].fd = openFile[id].fd /\ ph'[h].pn = p /\ ph'[h].frame = f
        /\ \A g \in Handle : g # h => ph'[g] = ph[g]
    BY <2>1 DEF Pins
  <2>3. QED
    BY <2>2 DEF RInv, HandlesMapped
<1>5. QED
  BY <1>2, <1>3, <1>4, StandsKeeps DEF RInv
-----------------------------------------------------------------------------
(* Steps that change the store *)

\* The pages of a file that does not exist
LEMMA NoPagesIsEmpty == Store!NoPages = Empty
BY DEF Store!NoPages, Store!PageNum, Empty, PageNum

\* The store of the file behind a handle of the cache is not empty: page 0 is its header.
LEMMA StoreHeader ==
  ASSUME IInv, RInv, NEW id \in FileId, IsOpen(id)
  PROVE  Logical[openFile[id].name][0] = Hdr(id) /\ Logical[openFile[id].name] # Empty
<1>1. 0 \in PageNum
  BY SizeAssumption DEF PageNum
<1>2. pageTable[<<openFile[id].fd, 0>>] = openFile[id].hdr /\ openFile[id].hdr # NoFrame
  BY HeaderFrame DEF RInv, HeadersMapped, HeaderMapped, FrameId, NoFrame
<1>3. Logical[openFile[id].name][0] = Hdr(id)
  BY <1>1, <1>2, EntryRead DEF Hdr
<1>4. Hdr(id) # Hole
  BY HeaderFrame, NameAssumption DEF Content
<1>5. Empty[0] = Hole
  BY <1>1 DEF Empty
<1>6. QED
  BY <1>3, <1>4, <1>5

\* A step that changes one page of the store
LEMMA OnePage ==
  ASSUME IInv, RInv, IInv', RInv', NEW n \in FileName, NEW p \in PageNum, NEW v,
         Logical'[n][p] = v,
         \A m \in FileName, q \in PageNum : m # n \/ q # p => Logical'[m][q] = Logical[m][q]
  PROVE  Logical' = [Logical EXCEPT ![n][p] = v]
<1>1. StoreView /\ StoreView'
  BY Views, ViewsNext
<1>2. /\ Logical = [m \in FileName |-> [q \in PageNum |-> Logical[m][q]]]
      /\ Logical' = [m \in FileName |-> [q \in PageNum |-> Logical'[m][q]]]
  BY <1>1 DEF StoreView
<1>3. PICK L : L = Logical
  OBVIOUS
<1>4. PICK M : M = Logical'
  OBVIOUS
<1>5. /\ L = [m \in FileName |-> [q \in PageNum |-> L[m][q]]]
      /\ M = [m \in FileName |-> [q \in PageNum |-> M[m][q]]]
      /\ M[n][p] = v
      /\ \A m \in FileName, q \in PageNum : m # n \/ q # p => M[m][q] = L[m][q]
  BY <1>2, <1>3, <1>4
<1>6. PICK K : K = [L EXCEPT ![n][p] = v]
  OBVIOUS
<1>7. DOMAIN L = FileName /\ \A m \in FileName : DOMAIN L[m] = PageNum
  BY <1>5
<1>8. PICK r : r = [L[n] EXCEPT ![p] = v]
  OBVIOUS
<1>9. /\ K = [L EXCEPT ![n] = r]
      /\ L[n] = [q \in PageNum |-> L[n][q]]
      /\ M[n] = [q \in PageNum |-> M[n][q]]
  BY <1>5, <1>6, <1>8
<1>10. r = M[n]
  <2>1. r = [q \in PageNum |-> IF q = p THEN v ELSE L[n][q]]
    BY <1>7, <1>8, <1>9
  <2>2. \A q \in PageNum : M[n][q] = IF q = p THEN v ELSE L[n][q]
    BY <1>5
  <2>3. QED
    BY <1>9, <2>1, <2>2
<1>11. K = M
  <2>1. K = [m \in FileName |-> IF m = n THEN r ELSE L[m]]
    BY <1>7, <1>9
  <2>2. M = [m \in FileName |-> M[m]]
    BY <1>5
  <2>3. ASSUME NEW m \in FileName, m # n PROVE M[m] = L[m]
    <3>1. M[m] = [q \in PageNum |-> M[m][q]] /\ L[m] = [q \in PageNum |-> L[m][q]]
      BY <1>5
    <3>2. \A q \in PageNum : M[m][q] = L[m][q]
      BY <1>5, <2>3
    <3>3. QED
      BY <3>1, <3>2
  <2>4. QED
    BY <1>10, <2>1, <2>2, <2>3
<1>12. QED
  BY <1>3, <1>4, <1>6, <1>11

\* A caller's write
LEMMA WritePageR ==
  ASSUME IInv, RInv, IInv', NEW h \in Handle, NEW v \in Value, WritePage(h, v)
  PROVE  RInv'
<1>0. UNCHANGED <<lru, pageTable, openFile, ph, files, disk, fdFile>>
  BY DEF WritePage, os
<1>1. PICK f : f = ph[h].frame
  OBVIOUS
<1>2. ph[h].open /\ frames' = [frames EXCEPT ![f].data = v, ![f].dirty = TRUE]
  BY <1>1 DEF WritePage
<1>3. f \in FrameId /\ \A i \in FileId : IsOpen(i) => openFile[i].hdr \in FrameId \ {f}
  BY <1>1, <1>2, HeldFrame
<1>4. frames \in [FrameId -> Frame] /\ frames[f] \in Frame
  BY <1>3 DEF IInv, TypeOK
<1>5. \A g \in FrameId : g # f => frames'[g] = frames[g]
  BY <1>2, <1>4
<1>6. frames'[f].fd = frames[f].fd /\ frames'[f].pn = frames[f].pn /\ frames'[f].dirty
  BY <1>2, <1>3, <1>4 DEF Frame
<1>7. pageTable[<<frames[f].fd, frames[f].pn>>] = f
  BY <1>1, <1>2 DEF IInv, HandlesMatch, RInv, HandlesMapped
<1>8. DirtyMapped'
  BY <1>0, <1>5, <1>6, <1>7 DEF RInv, DirtyMapped
<1>9. LruMapped'
  <2>1. \A g \in Elems(lru) : g \in FrameId
    BY ElemsIn DEF IInv, TypeOK
  <2>2. QED
    BY <1>0, <1>5, <1>6, <2>1 DEF RInv, LruMapped
<1>10. HandlesMapped' /\ EntriesOpen' /\ GoneIsEmpty' /\ OpenOnce'
  BY <1>0 DEF RInv, HandlesMapped, EntriesOpen, GoneIsEmpty, OpenOnce, IsOpen
<1>11. CleanAgrees'
  <2>1. \A k \in FD \X PageNum : pageTable[k] # NoFrame => pageTable[k] \in FrameId
    BY DEF IInv, TypeOK
  <2>2. QED
    BY <1>0, <1>5, <1>6, <2>1 DEF RInv, CleanAgrees
<1>12. HeadersMapped'
  <2>1. ASSUME NEW id \in FileId, IsOpen(id) PROVE HeaderMapped(id)'
    <3>1. Hdr(id)' = Hdr(id)
      BY <1>0, <1>3, <1>5, <2>1 DEF Hdr
    <3>2. HeaderMapped(id)
      BY <2>1 DEF RInv, HeadersMapped
    <3>3. QED
      BY <1>0, <3>1, <3>2 DEF HeaderMapped
  <2>2. QED
    BY <1>0, <2>1 DEF HeadersMapped, IsOpen
<1>13. QED
  BY <1>8, <1>9, <1>10, <1>11, <1>12 DEF RInv

LEMMA WritePageStore ==
  ASSUME IInv, RInv, IInv', RInv', NEW h \in Handle, NEW v \in Value, WritePage(h, v)
  PROVE  \E n \in FileName, p \in PageNum : Store!Write(n, p, v)
<1>1. PICK f : f = ph[h].frame
  OBVIOUS
<1>2. /\ ph[h].open
      /\ frames' = [frames EXCEPT ![f].data = v, ![f].dirty = TRUE]
      /\ UNCHANGED <<pageTable, disk, fdFile>>
  BY <1>1 DEF WritePage, os
<1>3. f \in FrameId
  BY <1>1, <1>2, HeldFrame
<1>4. frames \in [FrameId -> Frame] /\ frames[f] \in Frame
  BY <1>3 DEF IInv, TypeOK
<1>5. \A g \in FrameId : g # f => frames'[g] = frames[g]
  BY <1>2, <1>4
<1>6. /\ frames'[f].fd = frames[f].fd /\ frames'[f].pn = frames[f].pn
      /\ frames'[f].dirty /\ frames'[f].data = v
  BY <1>2, <1>3, <1>4 DEF Frame
<1>7. /\ frames[f].fd \in FD /\ fdFile[frames[f].fd] # NoFile /\ frames[f].pn # 0
      /\ pageTable[<<frames[f].fd, frames[f].pn>>] = f
  BY <1>1, <1>2 DEF IInv, HandlesMatch, RInv, HandlesMapped, DescOpen
<1>8. PICK p \in PageNum : p = frames[f].pn
  BY <1>4 DEF Frame
<1>9. PICK n \in FileName : n = fdFile[frames[f].fd]
  BY <1>7 DEF IInv, TypeOK
<1>10. PICK id \in FileId : IsOpen(id) /\ openFile[id].fd = frames[f].fd
  BY <1>7 DEF RInv, OpenOnce
<1>11. openFile[id].name = n
  BY <1>9, <1>10, HeaderFrame
<1>12. Logical[n] # Empty /\ p \in Logical[n][0].bits \ {0}
  <2>1. f # NoFrame
    BY <1>3 DEF FrameId, NoFrame
  <2>2. p \in Hdr(id).bits
    BY <1>7, <1>8, <1>10, <2>1 DEF RInv, HeadersMapped, HeaderMapped
  <2>3. QED
    BY <1>7, <1>8, <1>10, <1>11, <2>2, StoreHeader
<1>13. Logical'[n][p] = v
  <2>1. DirtyAt(f, n, p)'
    BY <1>2, <1>6, <1>8, <1>9 DEF DirtyAt
  <2>2. StoreView'
    BY ViewsNext
  <2>3. QED
    BY <1>3, <1>6, <2>1, <2>2 DEF StoreView
<1>14. ASSUME NEW m \in FileName, NEW q \in PageNum, m # n \/ q # p
       PROVE  Logical'[m][q] = Logical[m][q]
  <2>1. \A g \in FrameId : DirtyAt(g, m, q)' <=> DirtyAt(g, m, q)
    BY <1>2, <1>5, <1>6, <1>8, <1>9, <1>14 DEF DirtyAt
  <2>2. \A g \in FrameId : DirtyAt(g, m, q) => frames'[g].data = frames[g].data
    BY <1>5, <1>8, <1>9, <1>14 DEF DirtyAt
  <2>3. disk'[m][q] = disk[m][q]
    BY <1>2
  <2>4. QED
    BY <2>1, <2>2, <2>3, SamePage
<1>15. Logical' = [Logical EXCEPT ![n][p] = v]
  BY <1>13, <1>14, OnePage
<1>16. Store!Write(n, p, v)
  BY <1>12, <1>15, NoPagesIsEmpty DEF Store!Write
<1>17. QED
  BY <1>16

\* The files that are created or dropped are not open.
LEMMA FilesR ==
  ASSUME IInv, RInv, NEW n \in FileName, \A fd \in FD : fdFile[fd] # n,
         files' \in {files \cup {n}, files \ {n}}, NEW x, x = Empty \/ n \in files',
         disk' = [disk EXCEPT ![n] = x],
         UNCHANGED <<bpm, openFile, freeIds, ph, fdFile>>
  PROVE  RInv'
<1>1. UNCHANGED <<frames, lru, pageTable>>
  BY DEF bpm
<1>2. disk \in [FileName -> [PageNum -> Content \cup {Hole}]]
  BY DEF IInv, TypeOK
<1>3. disk'[n] = x /\ \A m \in FileName : m # n => disk'[m] = disk[m]
  BY <1>2
<1>4. DirtyMapped' /\ LruMapped' /\ HandlesMapped' /\ EntriesOpen'
  BY <1>1 DEF RInv, DirtyMapped, LruMapped, HandlesMapped, EntriesOpen
<1>5. CleanAgrees'
  <2>1. ASSUME NEW k \in FD \X PageNum, pageTable[k] # NoFrame
        PROVE  disk'[fdFile[k[1]]] = disk[fdFile[k[1]]]
    <3>1. fdFile[k[1]] # NoFile /\ k[1] \in FD
      BY <2>1 DEF RInv, EntriesOpen
    <3>2. fdFile[k[1]] \in FileName /\ fdFile[k[1]] # n
      BY <3>1 DEF IInv, TypeOK
    <3>3. QED
      BY <1>3, <3>2
  <2>2. QED
    BY <1>1, <2>1 DEF RInv, CleanAgrees
<1>6. OpenOnce'
  BY DEF RInv, OpenOnce, IsOpen
<1>7. HeadersMapped'
  BY <1>1 DEF RInv, HeadersMapped, HeaderMapped, Hdr, IsOpen
<1>8. GoneIsEmpty'
  BY <1>3 DEF RInv, GoneIsEmpty
<1>9. QED
  BY <1>4, <1>5, <1>6, <1>7, <1>8 DEF RInv

\* Only the pages of the file that is created or dropped change.
LEMMA FilesStore ==
  ASSUME IInv, RInv, IInv', RInv', NEW n \in FileName, \A fd \in FD : fdFile[fd] # n,
         NEW x, disk' = [disk EXCEPT ![n] = x],
         UNCHANGED <<bpm, openFile, freeIds, ph, fdFile>>
  PROVE  /\ \A p \in PageNum : Logical[n][p] = disk[n][p] /\ Logical'[n][p] = x[p]
         /\ \A m \in FileName, p \in PageNum : m # n => Logical'[m][p] = Logical[m][p]
<1>1. UNCHANGED <<frames, pageTable>>
  BY DEF bpm
<1>2. disk \in [FileName -> [PageNum -> Content \cup {Hole}]]
  BY DEF IInv, TypeOK
<1>3. disk'[n] = x /\ \A m \in FileName : m # n => disk'[m] = disk[m]
  BY <1>2
<1>4. \A m, p : \A f \in FrameId : DirtyAt(f, m, p)' <=> DirtyAt(f, m, p)
  BY <1>1 DEF DirtyAt
<1>5. \A p : \A f \in FrameId : ~DirtyAt(f, n, p)
  BY DirtyPlace DEF DirtyAt
<1>6. StoreView /\ StoreView'
  BY Views, ViewsNext
<1>7. \A p \in PageNum : Logical[n][p] = disk[n][p]
  BY <1>5, <1>6 DEF StoreView
<1>8. \A p \in PageNum : Logical'[n][p] = x[p]
  BY <1>3, <1>4, <1>5, <1>6 DEF StoreView
<1>9. ASSUME NEW m \in FileName, NEW p \in PageNum, m # n
      PROVE  Logical'[m][p] = Logical[m][p]
  <2>1. disk'[m][p] = disk[m][p]
    BY <1>3, <1>9
  <2>2. QED
    BY <1>1, <1>4, <2>1, SamePage
<1>10. QED
  BY <1>7, <1>8, <1>9
\* The store of a file, page by page
LEMMA FilePages ==
  ASSUME NEW n \in FileName
  PROVE  DOMAIN Logical = FileName /\ Logical[n] = [p \in PageNum |-> Logical[n][p]]
BY DEF Logical

LEMMA FilePagesNext ==
  ASSUME NEW n \in FileName
  PROVE  DOMAIN Logical' = FileName /\ Logical'[n] = [p \in PageNum |-> Logical'[n][p]]
BY DEF Logical

\* create_file
LEMMA CreateFileR ==
  ASSUME IInv, RInv, IInv', ~WriteErrors, NEW n \in FileName, CreateFile(n)
  PROVE  RInv' /\ Store!Create(n)
<1>1. PICK x : x = [Empty EXCEPT ![0] = NewHeader]
  OBVIOUS
<1>2. /\ n \notin files /\ files' = files \cup {n} /\ disk' = [disk EXCEPT ![n] = x]
      /\ UNCHANGED <<bpm, openFile, freeIds, ph, fdFile>>
  BY <1>1 DEF CreateFile
<1>3. \A fd \in FD : fdFile[fd] # n
  BY <1>2, NameAssumption DEF IInv, DescriptorsMatch
<1>4. RInv'
  BY <1>2, <1>3, FilesR
<1>5. /\ \A p \in PageNum : Logical[n][p] = disk[n][p] /\ Logical'[n][p] = x[p]
      /\ \A m \in FileName, p \in PageNum : m # n => Logical'[m][p] = Logical[m][p]
  BY <1>2, <1>3, <1>4, FilesStore
<1>6. 0 \in PageNum
  BY SizeAssumption DEF PageNum
<1>7. x[0] = NewHeader /\ \A p \in PageNum : p # 0 => x[p] = Hole
  BY <1>1, <1>6 DEF Empty
<1>8. disk[n] = Empty
  BY <1>2 DEF RInv, GoneIsEmpty
<1>9. \A p \in PageNum : Logical[n][p] = Hole
  BY <1>5, <1>8 DEF Empty
<1>10. Logical[n] = Empty
  BY <1>9, FilePages DEF Empty
<1>11. Logical' = [Logical EXCEPT ![n][0] = NewHeader]
  BY <1>4, <1>5, <1>6, <1>7, <1>9, OnePage
<1>12. QED
  BY <1>4, <1>10, <1>11, NoPagesIsEmpty DEF Store!Create, NewHeader

\* drop_file
LEMMA DropFileR ==
  ASSUME IInv, RInv, IInv', NEW n \in FileName, DropFile(n)
  PROVE  RInv' /\ Store!Remove(n)
<1>1. /\ n \in files /\ files' = files \ {n} /\ disk' = [disk EXCEPT ![n] = Empty]
      /\ \A fd \in FD : fdFile[fd] # n
      /\ UNCHANGED <<bpm, openFile, freeIds, ph, fdFile>>
  BY DEF DropFile
<1>2. RInv'
  BY <1>1, FilesR
<1>3. /\ \A p \in PageNum : Logical[n][p] = disk[n][p] /\ Logical'[n][p] = Empty[p]
      /\ \A m \in FileName, p \in PageNum : m # n => Logical'[m][p] = Logical[m][p]
  BY <1>1, <1>2, FilesStore
<1>4. 0 \in PageNum
  BY SizeAssumption DEF PageNum
<1>5. Logical[n] # Empty
  <2>1. disk[n][0] = NewHeader
    BY <1>1 DEF IInv, DiskHeaders
  <2>2. NewHeader \in Header
    BY <1>4 DEF NewHeader, Header
  <2>3. NewHeader # Hole
    BY <2>2, NameAssumption DEF Content
  <2>4. Empty[0] = Hole
    BY <1>4 DEF Empty
  <2>5. QED
    BY <1>3, <1>4, <2>1, <2>3, <2>4
<1>6. Logical'[n] = Empty
  <2>1. Logical'[n] = [p \in PageNum |-> Logical'[n][p]]
    BY FilePagesNext
  <2>2. QED
    BY <1>3, <2>1 DEF Empty
<1>7. ASSUME NEW m \in FileName, m # n PROVE Logical'[m] = Logical[m]
  <2>1. Logical'[m] = [p \in PageNum |-> Logical'[m][p]]
    BY FilePagesNext
  <2>2. Logical[m] = [p \in PageNum |-> Logical[m][p]]
    BY FilePages
  <2>3. QED
    BY <1>3, <1>7, <2>1, <2>2
<1>8. Logical' = [Logical EXCEPT ![n] = Empty]
  <2>1. PICK L : L = Logical
    OBVIOUS
  <2>2. PICK M : M = Logical'
    OBVIOUS
  <2>3. L = [m \in FileName |-> L[m]] /\ M = [m \in FileName |-> M[m]]
    BY <2>1, <2>2 DEF Logical
  <2>4. M[n] = Empty /\ \A m \in FileName : m # n => M[m] = L[m]
    BY <1>6, <1>7, <2>1, <2>2
  <2>5. M = [L EXCEPT ![n] = Empty]
    BY <2>3, <2>4
  <2>6. QED
    BY <2>1, <2>2, <2>5
<1>9. QED
  BY <1>2, <1>5, <1>8, NoPagesIsEmpty DEF Store!Remove

-----------------------------------------------------------------------------
(* Steps that write a frame back *)

\* Frame a is written to disk if it is dirty, and page q of file n is not a
\* page that the step changes otherwise: it keeps its content.
LEMMA WrittenBack ==
  ASSUME IInv, RInv, IInv', RInv', NEW a \in FrameId, ~frames'[a].dirty,
         NEW n \in FileName, NEW q \in PageNum,
         \A e \in FD : fdFile[e] # NoFile => fdFile'[e] = fdFile[e],
         \A f \in FrameId \ {a} : DirtyAt(f, n, q) =>
           /\ frames'[f].dirty /\ frames'[f].fd = frames[f].fd
           /\ frames'[f].pn = frames[f].pn /\ frames'[f].data = frames[f].data,
         \A f \in FrameId \ {a} : DirtyAt(f, n, q)' => DirtyAt(f, n, q),
         disk'[n][q] = IF DirtyAt(a, n, q) THEN frames[a].data ELSE disk[n][q]
  PROVE  Logical'[n][q] = Logical[n][q]
<1>1. CASE DirtyAt(a, n, q)
  <2>1. \A f \in FrameId : ~DirtyAt(f, n, q)'
    <3>1. \A f \in FrameId \ {a} : ~DirtyAt(f, n, q)
      BY <1>1, OneDirty
    <3>2. ~DirtyAt(a, n, q)'
      BY DEF DirtyAt
    <3>3. QED
      BY <3>1, <3>2
  <2>2. disk'[n][q] = frames[a].data
    BY <1>1
  <2>3. QED
    BY <1>1, <2>1, <2>2, SamePage
<1>2. CASE ~DirtyAt(a, n, q)
  <2>1. ~DirtyAt(a, n, q)'
    BY DEF DirtyAt
  <2>2. CASE \E f \in FrameId \ {a} : DirtyAt(f, n, q)
    <3>1. PICK f \in FrameId \ {a} : DirtyAt(f, n, q)
      BY <2>2
    <3>2. frames[f].fd \in FD /\ fdFile[frames[f].fd] # NoFile
      BY <3>1, DirtyPlace DEF DirtyAt
    <3>3. /\ frames'[f].dirty /\ frames'[f].fd = frames[f].fd
          /\ frames'[f].pn = frames[f].pn /\ frames'[f].data = frames[f].data
      BY <3>1
    <3>4. DirtyAt(f, n, q)'
      BY <3>1, <3>2, <3>3 DEF DirtyAt
    <3>5. QED
      BY <3>1, <3>3, <3>4, SamePage
  <2>3. CASE \A f \in FrameId \ {a} : ~DirtyAt(f, n, q)
    <3>1. \A f \in FrameId : ~DirtyAt(f, n, q) /\ ~DirtyAt(f, n, q)'
      BY <1>2, <2>1, <2>3
    <3>2. disk'[n][q] = disk[n][q]
      BY <1>2
    <3>3. QED
      BY <3>1, <3>2, SamePage
  <2>4. QED
    BY <2>2, <2>3
<1>3. QED
  BY <1>1, <1>2
\* The disk after a frame was written back if it was dirty
LEMMA FlushedDisk ==
  ASSUME IInv, RInv, NEW a \in FrameId, NEW ft,
         \A e \in FD : fdFile[e] # NoFile => ft[e] = fdFile[e],
         NEW d, d = IF frames[a].dirty THEN Flushed(disk, ft, frames, a) ELSE disk
  PROVE  \A n \in FileName, q \in PageNum :
           d[n][q] = IF DirtyAt(a, n, q) THEN frames[a].data ELSE disk[n][q]
<1>1. CASE ~frames[a].dirty
  BY <1>1 DEF DirtyAt
<1>2. CASE frames[a].dirty
  <2>1. PICK c \in FD : c = frames[a].fd /\ fdFile[c] # NoFile /\ fdFile[c] \in FileName
    BY <1>2, DirtyPlace
  <2>2. PICK p \in PageNum : p = frames[a].pn
    BY <1>2, DirtyPlace
  <2>3. PICK m \in FileName : m = fdFile[c]
    BY <2>1
  <2>4. d = [disk EXCEPT ![m][p] = frames[a].data]
    BY <1>2, <2>1, <2>2, <2>3 DEF Flushed
  <2>5. disk \in [FileName -> [PageNum -> Content \cup {Hole}]]
    BY DEF IInv, TypeOK
  <2>6. \A n, q : DirtyAt(a, n, q) <=> n = m /\ q = p
    BY <1>2, <2>1, <2>2, <2>3 DEF DirtyAt
  <2>7. \A n \in FileName, q \in PageNum :
          d[n][q] = IF n = m /\ q = p THEN frames[a].data ELSE disk[n][q]
    <3>1. PICK x : x = frames[a].data
      OBVIOUS
    <3>2. PICK w : w = [disk EXCEPT ![m][p] = x]
      OBVIOUS
    <3>3. \A n \in FileName, q \in PageNum : w[n][q] = IF n = m /\ q = p THEN x ELSE disk[n][q]
      BY <2>5, <3>2
    <3>4. d = w
      BY <2>4, <3>1, <3>2
    <3>5. QED
      BY <3>1, <3>3, <3>4
  <2>8. QED
    BY <2>6, <2>7
<1>3. QED
  BY <1>1, <1>2

\* force_page of one page
LEMMA ForcePageR ==
  ASSUME IInv, RInv, IInv', NEW id \in FileId, NEW p \in PageNum, ForcePage(id, p)
  PROVE  RInv' /\ Logical' = Logical
<1>0. IsOpen(id) /\ UNCHANGED <<openFile, ph, files, fdFile>>
  BY DEF ForcePage
<1>1. PICK c \in FD : c = openFile[id].fd
  BY <1>0, HeaderFrame
<1>2. PICK f : f = pageTable[<<c, p>>]
  OBVIOUS
<1>3. /\ f # NoFrame /\ frames[f].pin = 0
      /\ disk' = IF frames[f].dirty THEN Flushed(disk, fdFile, frames, f) ELSE disk
      /\ frames' = [frames EXCEPT ![f].dirty = FALSE]
      /\ lru' = Without(lru, f)
      /\ pageTable' = Erase(pageTable, c, p)
  BY <1>1, <1>2 DEF ForcePage
<1>4. f \in FrameId
  BY <1>2, <1>3 DEF IInv, TypeOK
<1>5. \A n \in FileName, q \in PageNum :
        disk'[n][q] = IF DirtyAt(f, n, q) THEN frames[f].data ELSE disk[n][q]
  BY <1>3, <1>4, FlushedDisk
<1>6. frames \in [FrameId -> Frame] /\ frames[f] \in Frame
  BY <1>4 DEF IInv, TypeOK
<1>7. (\A g \in FrameId : g # f => frames'[g] = frames[g]) /\ ~frames'[f].dirty
  BY <1>3, <1>4, <1>6 DEF Frame
<1>8. frames[f].fd = c /\ frames[f].pn = p
  BY <1>2, <1>3 DEF IInv, TableMatches
<1>9. \A k \in FD \X PageNum : pageTable'[k] = IF k = <<c, p>> THEN NoFrame ELSE pageTable[k]
  BY <1>3 DEF Erase
<1>10. ASSUME NEW k \in FD \X PageNum, pageTable'[k] # NoFrame
       PROVE  k # <<c, p>> /\ pageTable'[k] = pageTable[k] /\ pageTable[k] \in FrameId \ {f}
  <2>1. k # <<c, p>> /\ pageTable'[k] = pageTable[k] /\ pageTable[k] \in FrameId
    BY <1>9, <1>10 DEF IInv, TypeOK
  <2>2. frames[pageTable[k]].fd = k[1] /\ frames[pageTable[k]].pn = k[2]
    BY <1>10, <2>1 DEF IInv, TableMatches
  <2>3. pageTable[k] # f
    BY <1>8, <2>1, <2>2
  <2>4. QED
    BY <2>1, <2>3
<1>11. \A k \in FD \X PageNum : \A g \in FrameId \ {f} : pageTable[k] = g => pageTable'[k] = g
  BY <1>2, <1>9
<1>12. DirtyMapped'
  <2>1. ASSUME NEW g \in FrameId, frames'[g].dirty
        PROVE  pageTable'[<<frames'[g].fd, frames'[g].pn>>] = g
    <3>1. g # f /\ frames'[g] = frames[g]
      BY <1>7, <2>1
    <3>2. <<frames[g].fd, frames[g].pn>> \in FD \X PageNum
      BY <2>1, <3>1, DirtyPlace
    <3>3. pageTable[<<frames[g].fd, frames[g].pn>>] = g
      BY <2>1, <3>1, DirtyPlace
    <3>4. QED
      BY <1>11, <3>1, <3>2, <3>3
  <2>2. QED
    BY <2>1 DEF DirtyMapped
<1>13. LruMapped'
  <2>1. \A g \in Elems(lru') : g \in Elems(lru) /\ g \in FrameId /\ g # f
    BY <1>3, WithoutLemma, ElemsIn DEF IInv, TypeOK, ReusableFrames
  <2>2. ASSUME NEW g \in Elems(lru')
        PROVE  frames'[g].fd \in FD /\ pageTable'[<<frames'[g].fd, frames'[g].pn>>] = g
    <3>1. frames'[g] = frames[g] /\ g \in FrameId \ {f}
      BY <1>7, <2>1
    <3>2. frames[g].fd \in FD /\ pageTable[<<frames[g].fd, frames[g].pn>>] = g
      BY <2>1 DEF RInv, LruMapped
    <3>3. frames[g].pn \in PageNum
      BY <3>1 DEF IInv, TypeOK, Frame
    <3>4. QED
      BY <1>11, <3>1, <3>2, <3>3
  <2>3. QED
    BY <2>2 DEF LruMapped
<1>14. HandlesMapped'
  <2>1. ASSUME NEW h \in Handle, ph[h].open
        PROVE  pageTable'[<<ph[h].fd, ph[h].pn>>] = ph[h].frame
    <3>1. ph[h].frame \in FrameId \ {f}
      BY <1>3, <2>1, HeldFrame
    <3>2. ph[h].fd \in FD /\ ph[h].pn \in PageNum
      BY <2>1 DEF IInv, TypeOK, PageHandle, Closed
    <3>3. pageTable[<<ph[h].fd, ph[h].pn>>] = ph[h].frame
      BY <2>1 DEF RInv, HandlesMapped
    <3>4. QED
      BY <1>11, <3>1, <3>2, <3>3
  <2>2. QED
    BY <1>0, <2>1 DEF HandlesMapped
<1>15. EntriesOpen' /\ OpenOnce'
  <2>1. EntriesOpen'
    BY <1>0, <1>10 DEF RInv, EntriesOpen
  <2>2. OpenOnce'
    BY <1>0 DEF RInv, OpenOnce, IsOpen
  <2>3. QED
    BY <2>1, <2>2
<1>16. CleanAgrees'
  <2>1. ASSUME NEW k \in FD \X PageNum, pageTable'[k] # NoFrame, ~frames'[pageTable'[k]].dirty
        PROVE  frames'[pageTable'[k]].data = disk'[fdFile[k[1]]][k[2]]
    <3>1. k # <<c, p>> /\ pageTable'[k] = pageTable[k] /\ pageTable[k] \in FrameId \ {f}
      BY <1>10, <2>1
    <3>2. frames'[pageTable'[k]] = frames[pageTable[k]] /\ pageTable[k] # NoFrame
      BY <1>7, <2>1, <3>1
    <3>3. frames[pageTable[k]].data = disk[fdFile[k[1]]][k[2]]
      BY <2>1, <3>2 DEF RInv, CleanAgrees
    <3>4. fdFile[k[1]] # NoFile /\ fdFile[k[1]] \in FileName
      BY <3>2 DEF RInv, EntriesOpen, IInv, TypeOK
    <3>5. ~DirtyAt(f, fdFile[k[1]], k[2])
      <4>1. SUFFICES ASSUME fdFile[c] = fdFile[k[1]], p = k[2] PROVE FALSE
        BY <1>8 DEF DirtyAt
      <4>2. c = k[1]
        BY <3>4, <4>1, OneDesc
      <4>3. QED
        BY <3>1, <4>1, <4>2
    <3>6. disk'[fdFile[k[1]]][k[2]] = disk[fdFile[k[1]]][k[2]]
      BY <1>5, <3>4, <3>5
    <3>7. QED
      BY <3>2, <3>3, <3>6
  <2>2. QED
    BY <1>0, <2>1 DEF CleanAgrees
<1>17. HeadersMapped'
  <2>1. ASSUME NEW i \in FileId, IsOpen(i) PROVE HeaderMapped(i)'
    <3>1. openFile[i].hdr \in FrameId \ {f} /\ openFile[i].fd \in FD
      BY <1>3, <2>1, HeaderFrame
    <3>2. HeaderMapped(i)
      BY <2>1 DEF RInv, HeadersMapped
    <3>3. Hdr(i)' = Hdr(i)
      BY <1>0, <1>7, <3>1 DEF Hdr
    <3>4. <<openFile[i].fd, 0>> \in FD \X PageNum
      BY <3>1, SizeAssumption DEF PageNum
    <3>5. pageTable'[<<openFile[i].fd, 0>>] = openFile[i].hdr
      BY <1>11, <3>1, <3>2, <3>4 DEF HeaderMapped
    <3>6. \A q \in PageNum : pageTable'[<<openFile[i].fd, q>>] # NoFrame =>
            pageTable[<<openFile[i].fd, q>>] # NoFrame
      BY <1>9, <3>1
    <3>7. QED
      BY <1>0, <3>2, <3>3, <3>5, <3>6 DEF HeaderMapped
  <2>2. QED
    BY <1>0, <2>1 DEF HeadersMapped, IsOpen
<1>18. GoneIsEmpty'
  <2>1. ASSUME NEW n \in FileName, n \notin files PROVE disk'[n] = Empty
    <3>1. disk[n] = Empty
      BY <2>1 DEF RInv, GoneIsEmpty
    <3>2. \A q : ~DirtyAt(f, n, q)
      BY <1>4, <2>1, NoneToGone
    <3>3. disk' \in [FileName -> [PageNum -> Content \cup {Hole}]]
      BY DEF IInv, TypeOK
    <3>4. \A q \in PageNum : disk'[n][q] = Hole
      BY <1>5, <3>1, <3>2 DEF Empty
    <3>5. QED
      BY <3>3, <3>4 DEF Empty
  <2>2. QED
    BY <1>0, <2>1 DEF GoneIsEmpty
<1>19. RInv'
  BY <1>12, <1>13, <1>14, <1>15, <1>16, <1>17, <1>18 DEF RInv
<1>20. ASSUME NEW n \in FileName, NEW q \in PageNum
       PROVE  Logical'[n][q] = Logical[n][q]
  <2>1. \A g \in FrameId \ {f} : DirtyAt(g, n, q)' <=> DirtyAt(g, n, q)
    BY <1>0, <1>7 DEF DirtyAt
  <2>2. \A g \in FrameId \ {f} : DirtyAt(g, n, q) =>
          /\ frames'[g].dirty /\ frames'[g].fd = frames[g].fd
          /\ frames'[g].pn = frames[g].pn /\ frames'[g].data = frames[g].data
    BY <1>7 DEF DirtyAt
  <2>3. \A e \in FD : fdFile[e] # NoFile => fdFile'[e] = fdFile[e]
    BY <1>0
  <2>4. disk'[n][q] = IF DirtyAt(f, n, q) THEN frames[f].data ELSE disk[n][q]
    BY <1>5
  <2>5. QED
    BY <1>4, <1>7, <1>19, <2>1, <2>2, <2>3, <2>4, WrittenBack
<1>21. QED
  BY <1>19, <1>20, SameStore
-----------------------------------------------------------------------------
(* Steps that give a frame to a page *)

\* alloc() takes the victim's entry out of the page table, and no other.
LEMMA Evicts ==
  ASSUME IInv, RInv, HasFrame
  PROVE  /\ AllocId \in FrameId
         /\ \A k \in FD \X PageNum :
              TableAfterAlloc[k] = IF pageTable[k] = AllocId THEN NoFrame ELSE pageTable[k]
<1>1. PICK a : a = AllocId
  OBVIOUS
<1>2. a \in FrameId
  BY <1>1, AllocLemma
<1>3. CASE freeList # <<>>
  <2>1. a \in Elems(freeList)
    BY <1>1, <1>3, TailLemma DEF AllocId, IInv, TypeOK, ReusableFrames
  <2>2. \A k \in FD \X PageNum : pageTable[k] # a
    BY <2>1 DEF IInv, ReusableFrames
  <2>3. QED
    BY <1>1, <1>2, <1>3, <2>2 DEF TableAfterAlloc
<1>4. CASE freeList = <<>>
  <2>1. lru # <<>> /\ lru \in Seq(FrameId)
    BY <1>4 DEF HasFrame, IInv, TypeOK
  <2>2. a = lru[Len(lru)] /\ Len(lru) \in DOMAIN lru
    BY <1>1, <1>4, <2>1 DEF AllocId
  <2>3. a \in Elems(lru)
    BY <2>2 DEF Elems
  <2>4. frames[a].fd \in FD /\ pageTable[<<frames[a].fd, frames[a].pn>>] = a
    BY <2>3 DEF RInv, LruMapped
  <2>5. \A k \in FD \X PageNum : TableAfterAlloc[k] =
          IF k = <<frames[a].fd, frames[a].pn>> THEN NoFrame ELSE pageTable[k]
    BY <1>1, <1>4 DEF TableAfterAlloc, Erase
  <2>6. \A k \in FD \X PageNum : pageTable[k] = a => k = <<frames[a].fd, frames[a].pn>>
    <3>1. a # NoFrame
      BY <1>2 DEF FrameId, NoFrame
    <3>2. QED
      BY <3>1 DEF IInv, TableMatches
  <2>7. QED
    BY <1>1, <1>2, <2>4, <2>5, <2>6
<1>5. QED
  BY <1>3, <1>4

\* Frame a, which alloc() returned, is written back and gets page p of the
\* file n behind descriptor c.
Installs(a, c, p, n) ==
  /\ pageTable[<<c, p>>] = NoFrame
  /\ \A k \in FD \X PageNum :
       pageTable'[k] = IF k = <<c, p>> THEN a ELSE IF pageTable[k] = a THEN NoFrame ELSE pageTable[k]
  /\ Elems(lru') \subseteq Elems(lru) \ {a}
  /\ fdFile'[c] = n /\ n \in files /\ files' = files
  /\ \A e \in FD : e # c => fdFile'[e] = fdFile[e] /\ fdFile[e] # n
  /\ ~frames'[a].dirty /\ frames'[a].fd = c /\ frames'[a].pn = p /\ frames'[a].data = disk'[n][p]
  /\ \A f \in FrameId \ {a} :
       /\ frames'[f].fd = frames[f].fd /\ frames'[f].pn = frames[f].pn
       /\ frames'[f].dirty => frames[f].dirty \/ IsHeader(f)
       /\ ~frames'[f].dirty => ~frames[f].dirty /\ frames'[f].data = frames[f].data
  /\ \A m \in FileName, q \in PageNum : m # n \/ q # p =>
       disk'[m][q] = IF DirtyAt(a, m, q) THEN frames[a].data ELSE disk[m][q]
  /\ \A h \in Handle : ph'[h].open =>
       \/ ph'[h] = ph[h]
       \/ ph'[h].fd = c /\ ph'[h].pn = p /\ ph'[h].frame = a

\* The frame that alloc() returns is not a header, and is behind no handle.
LEMMA InstalledR ==
  ASSUME IInv, RInv, IInv', HasFrame, NEW a \in FrameId, a = AllocId, NEW c \in FD,
         NEW p \in PageNum, NEW n \in FileName, fdFile[c] \in {NoFile, n}, Installs(a, c, p, n)
  PROVE  DirtyMapped' /\ LruMapped' /\ HandlesMapped' /\ EntriesOpen' /\ CleanAgrees' /\ GoneIsEmpty'
<1>1. Holders(a) = {} /\ ~IsHeader(a) /\ a # NoFrame
  BY AllocLemma DEF FrameId, NoFrame
<1>2. \A k \in FD \X PageNum : \A g \in FrameId \ {a} : pageTable[k] = g => pageTable'[k] = g
  <2>1. \A g \in FrameId : g # NoFrame
    BY DEF FrameId, NoFrame
  <2>2. QED
    BY <2>1 DEF Installs
<1>3. ASSUME NEW k \in FD \X PageNum, pageTable'[k] # NoFrame, k # <<c, p>>
      PROVE  pageTable'[k] = pageTable[k] /\ pageTable[k] \in FrameId \ {a}
  BY <1>3 DEF Installs, IInv, TypeOK
<1>4. /\ pageTable'[<<c, p>>] = a
      /\ ~frames'[a].dirty /\ frames'[a].fd = c /\ frames'[a].pn = p
      /\ \A f \in FrameId \ {a} : frames'[f].fd = frames[f].fd /\ frames'[f].pn = frames[f].pn
  BY DEF Installs
<1>5. DirtyMapped'
  <2>1. ASSUME NEW g \in FrameId, frames'[g].dirty
        PROVE  pageTable'[<<frames'[g].fd, frames'[g].pn>>] = g
    <3>1. g \in FrameId \ {a} /\ (frames[g].dirty \/ IsHeader(g))
      BY <1>4, <2>1 DEF Installs
    <3>2. CASE frames[g].dirty
      <4>1. /\ <<frames[g].fd, frames[g].pn>> \in FD \X PageNum
            /\ pageTable[<<frames[g].fd, frames[g].pn>>] = g
        BY <3>2, DirtyPlace
      <4>2. QED
        BY <1>2, <1>4, <3>1, <4>1
    <3>3. CASE IsHeader(g)
      <4>1. PICK i \in FileId : IsOpen(i) /\ openFile[i].hdr = g
        BY <3>3 DEF IsHeader
      <4>2. frames[g].fd = openFile[i].fd /\ frames[g].pn = 0 /\ openFile[i].fd \in FD
        BY <4>1, HeaderFrame
      <4>3. pageTable[<<frames[g].fd, frames[g].pn>>] = g
        BY <4>1, <4>2 DEF RInv, HeadersMapped, HeaderMapped
      <4>4. 0 \in PageNum
        BY SizeAssumption DEF PageNum
      <4>5. QED
        BY <1>2, <1>4, <3>1, <4>2, <4>3, <4>4
    <3>4. QED
      BY <3>1, <3>2, <3>3
  <2>2. QED
    BY <2>1 DEF DirtyMapped
<1>6. LruMapped'
  <2>1. \A g \in Elems(lru') : g \in Elems(lru) /\ g \in FrameId \ {a}
    BY ElemsIn DEF IInv, TypeOK, Installs
  <2>2. ASSUME NEW g \in Elems(lru')
        PROVE  frames'[g].fd \in FD /\ pageTable'[<<frames'[g].fd, frames'[g].pn>>] = g
    <3>1. g \in FrameId \ {a} /\ frames'[g].fd = frames[g].fd /\ frames'[g].pn = frames[g].pn
      BY <1>4, <2>1
    <3>2. frames[g].fd \in FD /\ pageTable[<<frames[g].fd, frames[g].pn>>] = g
      BY <2>1 DEF RInv, LruMapped
    <3>3. frames[g].pn \in PageNum
      BY <3>1 DEF IInv, TypeOK, Frame
    <3>4. QED
      BY <1>2, <3>1, <3>2, <3>3
  <2>3. QED
    BY <2>2 DEF LruMapped
<1>7. HandlesMapped'
  <2>1. ASSUME NEW h \in Handle, ph'[h].open, ph'[h] = ph[h]
        PROVE  pageTable'[<<ph'[h].fd, ph'[h].pn>>] = ph'[h].frame
    <3>1. ph[h].frame \in FrameId \ {a}
      BY <1>1, <2>1, HeldFrame DEF Holders
    <3>2. ph[h].fd \in FD /\ ph[h].pn \in PageNum
      BY <2>1 DEF IInv, TypeOK, PageHandle, Closed
    <3>3. pageTable[<<ph[h].fd, ph[h].pn>>] = ph[h].frame
      BY <2>1 DEF RInv, HandlesMapped
    <3>4. QED
      BY <1>2, <2>1, <3>1, <3>2, <3>3
  <2>2. QED
    BY <1>4, <2>1 DEF HandlesMapped, Installs
<1>8. EntriesOpen'
  <2>1. ASSUME NEW k \in FD \X PageNum, pageTable'[k] # NoFrame PROVE fdFile'[k[1]] # NoFile
    <3>1. CASE k = <<c, p>>
      BY <3>1, NameAssumption DEF Installs
    <3>2. CASE k # <<c, p>>
      <4>1. fdFile[k[1]] # NoFile /\ k[1] \in FD
        BY <1>3, <2>1, <3>2 DEF RInv, EntriesOpen
      <4>2. QED
        BY <4>1, NameAssumption DEF Installs
    <3>3. QED
      BY <3>1, <3>2
  <2>2. QED
    BY <2>1 DEF EntriesOpen
<1>9. CleanAgrees'
  <2>1. ASSUME NEW k \in FD \X PageNum, pageTable'[k] # NoFrame, ~frames'[pageTable'[k]].dirty
        PROVE  frames'[pageTable'[k]].data = disk'[fdFile'[k[1]]][k[2]]
    <3>1. CASE k = <<c, p>>
      BY <1>4, <3>1 DEF Installs
    <3>2. CASE k # <<c, p>>
      <4>1. PICK g \in FrameId \ {a} : g = pageTable[k] /\ pageTable'[k] = g
        BY <1>3, <2>1, <3>2
      <4>2. ~frames[g].dirty /\ frames'[g].data = frames[g].data /\ g # NoFrame
        BY <2>1, <4>1 DEF Installs
      <4>3. frames[g].data = disk[fdFile[k[1]]][k[2]]
        BY <4>1, <4>2 DEF RInv, CleanAgrees
      <4>4. k[1] \in FD /\ k[2] \in PageNum /\ fdFile[k[1]] # NoFile /\ fdFile[k[1]] \in FileName
        BY <4>1, <4>2 DEF RInv, EntriesOpen, IInv, TypeOK
      <4>5. fdFile'[k[1]] = fdFile[k[1]]
        BY <4>4 DEF Installs
      <4>6. fdFile[k[1]] # n \/ k[2] # p
        <5>1. SUFFICES ASSUME fdFile[k[1]] = n, k[2] = p PROVE FALSE
          OBVIOUS
        <5>2. k[1] = c
          BY <4>4, <5>1 DEF Installs
        <5>3. QED
          BY <3>2, <5>1, <5>2
      <4>7. ~DirtyAt(a, fdFile[k[1]], k[2])
        <5>1. SUFFICES ASSUME DirtyAt(a, fdFile[k[1]], k[2]) PROVE FALSE
          OBVIOUS
        <5>2. /\ frames[a].fd \in FD /\ fdFile[frames[a].fd] = fdFile[k[1]] /\ frames[a].pn = k[2]
              /\ pageTable[<<frames[a].fd, frames[a].pn>>] = a
          BY <5>1, DirtyPlace DEF DirtyAt
        <5>3. frames[a].fd = k[1]
          BY <4>4, <5>2, OneDesc
        <5>4. QED
          BY <4>1, <5>2, <5>3
      <4>8. disk'[fdFile[k[1]]][k[2]] = disk[fdFile[k[1]]][k[2]]
        BY <4>4, <4>6, <4>7 DEF Installs
      <4>9. QED
        BY <4>1, <4>2, <4>3, <4>5, <4>8
    <3>3. QED
      BY <3>1, <3>2
  <2>2. QED
    BY <2>1 DEF CleanAgrees
<1>10. GoneIsEmpty'
  <2>1. ASSUME NEW m \in FileName, m \notin files PROVE disk'[m] = Empty
    <3>1. disk[m] = Empty /\ m # n
      BY <2>1 DEF RInv, GoneIsEmpty, Installs
    <3>2. \A q : ~DirtyAt(a, m, q)
      BY <2>1, NoneToGone
    <3>3. disk' \in [FileName -> [PageNum -> Content \cup {Hole}]]
      BY DEF IInv, TypeOK
    <3>4. \A q \in PageNum : disk'[m][q] = Hole
      BY <3>1, <3>2 DEF Empty, Installs
    <3>5. QED
      BY <3>3, <3>4 DEF Empty
  <2>2. QED
    BY <2>1 DEF GoneIsEmpty, Installs
<1>11. QED
  BY <1>5, <1>6, <1>7, <1>8, <1>9, <1>10

\* The pages that the step does not change keep their contents.
LEMMA InstalledStore ==
  ASSUME IInv, RInv, IInv', RInv', NEW a \in FrameId, NEW c \in FD, NEW p \in PageNum,
         NEW n \in FileName, fdFile[c] \in {NoFile, n}, Installs(a, c, p, n),
         NEW m \in FileName, NEW q \in PageNum,
         disk'[m][q] = IF DirtyAt(a, m, q) THEN frames[a].data ELSE disk[m][q],
         \A f \in FrameId \ {a} :
           \/ frames'[f] = frames[f]
           \/ frames[f].fd = c /\ fdFile[c] = n /\ (m # n \/ q # frames[f].pn)
  PROVE  Logical'[m][q] = Logical[m][q]
<1>1. \A e \in FD : fdFile[e] # NoFile => fdFile'[e] = fdFile[e]
  BY DEF Installs
<1>2. ~frames'[a].dirty
  BY DEF Installs
<1>3. \A f \in FrameId \ {a} : DirtyAt(f, m, q) => frames'[f] = frames[f]
  BY DEF DirtyAt
<1>4. ASSUME NEW f \in FrameId \ {a}, DirtyAt(f, m, q)' PROVE DirtyAt(f, m, q)
  <2>1. frames'[f].fd = frames[f].fd /\ frames'[f].pn = frames[f].pn
    BY DEF Installs
  <2>2. CASE frames'[f] = frames[f]
    <3>1. frames[f].dirty
      BY <1>4, <2>2 DEF DirtyAt
    <3>2. frames[f].fd \in FD /\ fdFile[frames[f].fd] # NoFile
      BY <3>1, DirtyPlace
    <3>3. QED
      BY <1>1, <1>4, <2>2, <3>1, <3>2 DEF DirtyAt
  <2>3. CASE frames[f].fd = c /\ (m # n \/ q # frames[f].pn)
    BY <1>4, <2>1, <2>3 DEF DirtyAt, Installs
  <2>4. QED
    BY <2>2, <2>3
<1>5. \A f \in FrameId \ {a} : DirtyAt(f, m, q) =>
        /\ frames'[f].dirty /\ frames'[f].fd = frames[f].fd
        /\ frames'[f].pn = frames[f].pn /\ frames'[f].data = frames[f].data
  BY <1>3 DEF DirtyAt
<1>6. QED
  BY <1>1, <1>2, <1>4, <1>5, WrittenBack
\* An open file has its own descriptor.
LEMMA OneHandle ==
  ASSUME IInv, RInv, NEW i \in FileId, NEW j \in FileId, IsOpen(i), IsOpen(j),
         openFile[i].fd = openFile[j].fd
  PROVE  i = j
BY HeaderFrame DEF RInv, OpenOnce

\* get_this_page of a page that has to be loaded
LEMMA LoadR ==
  ASSUME IInv, RInv, IInv', NEW h \in Handle, NEW id \in FileId, NEW p \in PageNum \ {0},
         IsOpen(id), p < Hdr(id).count, pageTable[<<openFile[id].fd, p>>] = NoFrame,
         BlockReady(fdFile), Loads(h, id, p, frames),
         UNCHANGED <<openFile, freeIds, files, fdFile>>
  PROVE  RInv' /\ Logical' = Logical
<1>1. PICK a : a = AllocId
  OBVIOUS
<1>2. a \in FrameId /\ HasFrame /\ ~IsHeader(a) /\ a # NoFrame
  BY <1>1, AllocLemma DEF BlockReady, FrameId, NoFrame
<1>3. PICK c \in FD : c = openFile[id].fd
  BY HeaderFrame
<1>4. PICK n \in FileName : n = openFile[id].name
  BY HeaderFrame
<1>5. fdFile[c] = n /\ n # NoFile /\ n \in files
  <2>1. fdFile[c] = n
    BY <1>3, <1>4, HeaderFrame
  <2>2. n # NoFile
    BY NameAssumption
  <2>3. QED
    BY <2>1, <2>2 DEF IInv, DescriptorsMatch
<1>6. disk' = DiskAfterBlock(fdFile, frames)
  BY DEF Loads
<1>7. \A m \in FileName, q \in PageNum :
        disk'[m][q] = IF DirtyAt(a, m, q) THEN frames[a].data ELSE disk[m][q]
  BY <1>1, <1>2, <1>6, FlushedDisk DEF DiskAfterBlock
<1>8. disk'[n][p] # Hole
  <2>1. disk[n][p] # Hole
    BY <1>4 DEF IInv, HeadersMatch, HeaderOk, Hdr
  <2>2. fdFile \in [FD -> FileName \cup {NoFile}]
    BY DEF IInv, TypeOK
  <2>3. QED
    BY <1>6, <2>1, <2>2, BlockDiskLemma
<1>9. PICK x : x = [dirty |-> FALSE, pin |-> 1, fd |-> c, pn |-> p, data |-> disk'[n][p]]
  OBVIOUS
<1>10. frames' = [frames EXCEPT ![a] = x]
  BY <1>1, <1>3, <1>4, <1>6, <1>8, <1>9 DEF Loads, LoadPage, LoadedPn, LoadedData
<1>11. frames'[a] = x /\ \A f \in FrameId \ {a} : frames'[f] = frames[f]
  BY <1>2, <1>10 DEF IInv, TypeOK
<1>12. Installs(a, c, p, n)
  <2>1. pageTable[<<c, p>>] = NoFrame
    BY <1>3
  <2>2. ASSUME NEW k \in FD \X PageNum
        PROVE  pageTable'[k] = IF k = <<c, p>> THEN a
                               ELSE IF pageTable[k] = a THEN NoFrame ELSE pageTable[k]
    <3>1. pageTable' = [TableAfterAlloc EXCEPT ![<<c, p>>] = a]
      BY <1>1, <1>3 DEF Loads
    <3>2. TableAfterAlloc \in [FD \X PageNum -> FrameId \cup {NoFrame}]
      BY <1>2, AllocLemma
    <3>3. TableAfterAlloc[k] = IF pageTable[k] = a THEN NoFrame ELSE pageTable[k]
      BY <1>1, <1>2, Evicts
    <3>4. QED
      BY <3>1, <3>2, <3>3
  <2>3. Elems(lru') \subseteq Elems(lru) \ {a}
    BY <1>1, <1>2, AllocLemma DEF Loads
  <2>4. \A e \in FD : e # c => fdFile[e] # n
    BY <1>5, OneDesc
  <2>5. ASSUME NEW g \in Handle, g # h PROVE ph'[g] = ph[g]
    BY <2>5 DEF Loads, IInv, TypeOK
  <2>6. ph'[h].fd = c /\ ph'[h].pn = p /\ ph'[h].frame = a
    BY <1>1, <1>3 DEF Loads, IInv, TypeOK
  <2>7. x.fd = c /\ x.pn = p /\ x.data = disk'[n][p] /\ ~x.dirty
    BY <1>9
  <2>8. QED
    BY <1>5, <1>7, <1>11, <2>1, <2>2, <2>3, <2>4, <2>5, <2>6, <2>7 DEF Installs
<1>13. /\ DirtyMapped' /\ LruMapped' /\ HandlesMapped'
       /\ EntriesOpen' /\ CleanAgrees' /\ GoneIsEmpty'
  BY <1>1, <1>2, <1>5, <1>12, InstalledR
<1>14. OpenOnce'
  BY DEF RInv, OpenOnce, IsOpen
<1>15. HeadersMapped'
  <2>1. ASSUME NEW i \in FileId, IsOpen(i) PROVE HeaderMapped(i)'
    <3>1. openFile[i].hdr \in FrameId \ {a} /\ openFile[i].fd \in FD /\ openFile[i].hdr # NoFrame
      BY <1>2, <2>1, HeaderFrame DEF IsHeader, FrameId, NoFrame
    <3>2. HeaderMapped(i)
      BY <2>1 DEF RInv, HeadersMapped
    <3>3. Hdr(i)' = Hdr(i)
      BY <1>11, <3>1 DEF Hdr
    <3>4. <<openFile[i].fd, 0>> \in FD \X PageNum
      BY <3>1, SizeAssumption DEF PageNum
    <3>5. pageTable'[<<openFile[i].fd, 0>>] = openFile[i].hdr
      BY <1>12, <3>1, <3>2, <3>4 DEF HeaderMapped, Installs
    <3>6. ASSUME NEW q \in PageNum, pageTable'[<<openFile[i].fd, q>>] # NoFrame
          PROVE  q < Hdr(i).count
      <4>1. CASE openFile[i].fd = c /\ q = p
        BY <1>3, <2>1, <4>1, OneHandle
      <4>2. CASE ~(openFile[i].fd = c /\ q = p)
        <5>1. pageTable[<<openFile[i].fd, q>>] # NoFrame
          BY <1>12, <3>1, <3>6, <4>2 DEF Installs
        <5>2. QED
          BY <3>2, <5>1 DEF HeaderMapped
      <4>3. QED
        BY <4>1, <4>2
    <3>7. QED
      BY <3>2, <3>3, <3>5, <3>6 DEF HeaderMapped
  <2>2. QED
    BY <2>1 DEF HeadersMapped, IsOpen
<1>16. RInv'
  BY <1>13, <1>14, <1>15 DEF RInv
<1>17. ASSUME NEW m \in FileName, NEW q \in PageNum
       PROVE  Logical'[m][q] = Logical[m][q]
  BY <1>2, <1>5, <1>7, <1>11, <1>12, <1>16, InstalledStore
<1>18. QED
  BY <1>16, <1>17, SameStore

\* get_this_page: without read errors a page of the file is always loaded.
LEMMA GetThisPageR ==
  ASSUME IInv, RInv, IInv', ~ReadErrors, ~WriteErrors, NEW h \in Handle, NEW id \in FileId,
         NEW p \in PageNum \ {0}, GetThisPage(h, id, p)
  PROVE  RInv' /\ Logical' = Logical
<1>1. /\ IsOpen(id) /\ p < Hdr(id).count /\ Fetch(h, id, p, frames)
      /\ UNCHANGED <<openFile, freeIds, files, fdFile>>
  BY DEF GetThisPage, HeaderIntact, PageOk
<1>2. ~BlockLeaks(fdFile)
  BY NoLeak
<1>3. PICK f : f = pageTable[<<openFile[id].fd, p>>]
  OBVIOUS
<1>4. CASE f # NoFrame
  <2>1. Pins(h, id, p, frames, f) /\ UNCHANGED <<pageTable, disk>>
    BY <1>1, <1>3, <1>4 DEF Fetch, Pins
  <2>2. RInv' /\ Stands
    BY <1>1, <1>3, <1>4, <2>1, HitR
  <2>3. QED
    BY <2>2, StandsStore
<1>5. CASE f = NoFrame
  <2>1. ASSUME BlockReady(fdFile)
        PROVE  PageThere(DiskAfterBlock(fdFile, frames), openFile[id].name, p)
    <3>1. PICK d : d = DiskAfterBlock(fdFile, frames)
      OBVIOUS
    <3>2. PICK n \in FileName : n = openFile[id].name
      BY <1>1, HeaderFrame
    <3>3. disk[n][p] # Hole
      BY <1>1, <3>2 DEF IInv, HeadersMatch, HeaderOk, Hdr
    <3>4. fdFile \in [FD -> FileName \cup {NoFile}]
      BY DEF IInv, TypeOK
    <3>5. d[n][p] # Hole
      BY <2>1, <3>1, <3>3, <3>4, BlockDiskLemma
    <3>6. p >= p
      BY SizeAssumption DEF PageNum
    <3>7. QED
      BY <3>1, <3>2, <3>5, <3>6 DEF PageThere
  <2>2. BlockReady(fdFile) /\ Loads(h, id, p, frames)
    BY <1>1, <1>2, <1>3, <1>5, <2>1 DEF Fetch, Loads, LoadFails
  <2>3. QED
    BY <1>1, <1>3, <1>5, <2>2, LoadR
<1>6. QED
  BY <1>4, <1>5

\* allocate_page never finds a free page in a file whose pages are all allocated.
LEMMA ReusePageNever ==
  ASSUME RInv, NEW h \in Handle, NEW id \in FileId
  PROVE  ~ReusePage(h, id)
<1>1. SUFFICES ASSUME IsOpen(id), FreePages(id) # {} PROVE FALSE
  BY DEF ReusePage, HeaderIntact, HasFreePage
<1>2. QED
  BY <1>1 DEF RInv, HeadersMapped, HeaderMapped, FreePages

\* open_file: the header that create_file wrote is loaded.
LEMMA OpenFileR ==
  ASSUME IInv, RInv, IInv', ~ReadErrors, ~WriteErrors, NEW n \in FileName, NEW c \in FD,
         OpenFile(n, c)
  PROVE  RInv' /\ Logical' = Logical
<1>1. PICK ft : ft = [fdFile EXCEPT ![c] = n]
  OBVIOUS
<1>2. /\ ft \in [FD -> FileName \cup {NoFile}] /\ ft[c] = n /\ n # NoFile
      /\ \A e \in FD : e # c => ft[e] = fdFile[e]
  BY <1>1, NameAssumption DEF IInv, TypeOK
<1>3. /\ n \in files /\ fdFile[c] = NoFile /\ freeIds # <<>> /\ UNCHANGED <<ph, files>>
      /\ \A i \in FileId : openFile[i].name # n
  BY DEF OpenFile
<1>4. ~BlockLeaks(ft)
  BY <1>2, NoLeak
<1>5. PICK d : d = DiskAfterBlock(ft, frames)
  OBVIOUS
<1>6. 0 \in PageNum
  BY SizeAssumption DEF PageNum
<1>7. BlockReady(ft) => d[n][0] = NewHeader
  <2>1. disk[n][0] = NewHeader
    BY <1>3 DEF IInv, DiskHeaders
  <2>2. QED
    BY <1>2, <1>5, <2>1, BlockDiskLemma
<1>8. NewHeader \in Header /\ NewHeader # Hole
  <2>1. NewHeader \in Header
    BY <1>6 DEF NewHeader, Header
  <2>2. QED
    BY <2>1, NameAssumption DEF Content
<1>9. BlockReady(ft) => PageThere(d, n, 0)
  BY <1>6, <1>7, <1>8 DEF PageThere
<1>10. PICK id : id = Head(freeIds)
  OBVIOUS
<1>11. PICK a : a = AllocId
  OBVIOUS
<1>12. /\ BlockReady(ft)
       /\ frames' = LoadPage(frames, d, n, c, 0)
       /\ lru' = LruAfterAlloc
       /\ pageTable' = [TableAfterAlloc EXCEPT ![<<c, 0>>] = a]
       /\ disk' = d
       /\ openFile' = [openFile EXCEPT ![id] = [name |-> n, fd |-> c, hdr |-> a]]
       /\ fdFile' = ft
  BY <1>1, <1>4, <1>5, <1>9, <1>10, <1>11 DEF OpenFile, LoadFails
<1>13. a \in FrameId /\ HasFrame /\ ~IsHeader(a) /\ a # NoFrame
  BY <1>11, <1>12, AllocLemma DEF BlockReady, FrameId, NoFrame
<1>14. id \in FileId /\ ~IsOpen(id)
  <2>1. freeIds \in Seq(FileId) /\ Distinct(freeIds)
    BY DEF IInv, TypeOK, DescriptorsMatch
  <2>2. id \in Elems(freeIds) /\ id \in FileId
    BY <1>3, <1>10, <2>1, TailLemma
  <2>3. QED
    BY <2>2 DEF IInv, DescriptorsMatch
<1>15. \A m \in FileName, q \in PageNum :
         disk'[m][q] = IF DirtyAt(a, m, q) THEN frames[a].data ELSE disk[m][q]
  <2>1. \A e \in FD : fdFile[e] # NoFile => ft[e] = fdFile[e]
    BY <1>2, <1>3
  <2>2. disk' = IF frames[a].dirty THEN Flushed(disk, ft, frames, a) ELSE disk
    BY <1>5, <1>11, <1>12 DEF DiskAfterBlock
  <2>3. QED
    BY <1>13, <2>1, <2>2, FlushedDisk
<1>16. PICK x : x = [dirty |-> FALSE, pin |-> 1, fd |-> c, pn |-> 0, data |-> NewHeader]
  OBVIOUS
<1>17. frames' = [frames EXCEPT ![a] = x]
  BY <1>7, <1>8, <1>11, <1>12, <1>16 DEF LoadPage, LoadedPn, LoadedData
<1>18. frames'[a] = x /\ \A f \in FrameId \ {a} : frames'[f] = frames[f]
  BY <1>13, <1>17 DEF IInv, TypeOK
<1>19. /\ openFile'[id] = [name |-> n, fd |-> c, hdr |-> a]
       /\ \A i \in FileId : i # id => openFile'[i] = openFile[i]
  BY <1>12, <1>14 DEF IInv, TypeOK
<1>20. fdFile'[c] = n /\ \A e \in FD : e # c => fdFile'[e] = fdFile[e] /\ fdFile[e] # n
  <2>1. ASSUME NEW e \in FD, fdFile[e] = n PROVE FALSE
    <3>1. PICK i \in FileId : IsOpen(i) /\ openFile[i].fd = e
      BY <1>2, <2>1 DEF RInv, OpenOnce
    <3>2. openFile[i].name = n
      BY <2>1, <3>1, HeaderFrame
    <3>3. QED
      BY <1>3, <3>2
  <2>2. QED
    BY <1>2, <1>12, <2>1
<1>21. \A q \in PageNum : pageTable[<<c, q>>] = NoFrame
  BY <1>3 DEF RInv, EntriesOpen
<1>22. Installs(a, c, 0, n)
  <2>1. ASSUME NEW k \in FD \X PageNum
        PROVE  pageTable'[k] = IF k = <<c, 0>> THEN a
                               ELSE IF pageTable[k] = a THEN NoFrame ELSE pageTable[k]
    <3>1. pageTable' = [TableAfterAlloc EXCEPT ![<<c, 0>>] = a]
      BY <1>12
    <3>2. TableAfterAlloc \in [FD \X PageNum -> FrameId \cup {NoFrame}]
      BY <1>13, AllocLemma
    <3>3. TableAfterAlloc[k] = IF pageTable[k] = a THEN NoFrame ELSE pageTable[k]
      BY <1>11, <1>13, Evicts
    <3>4. QED
      BY <3>1, <3>2, <3>3
  <2>2. Elems(lru') \subseteq Elems(lru) \ {a}
    BY <1>11, <1>12, <1>13, AllocLemma
  <2>3. x.fd = c /\ x.pn = 0 /\ x.data = disk'[n][0] /\ ~x.dirty
    BY <1>7, <1>12, <1>16
  <2>4. QED
    BY <1>3, <1>6, <1>15, <1>18, <1>20, <1>21, <2>1, <2>2, <2>3 DEF Installs
<1>23. /\ DirtyMapped' /\ LruMapped' /\ HandlesMapped'
       /\ EntriesOpen' /\ CleanAgrees' /\ GoneIsEmpty'
  BY <1>3, <1>6, <1>11, <1>13, <1>22, InstalledR
<1>24. IsOpen(id)' /\ \A i \in FileId : i # id => (IsOpen(i)' <=> IsOpen(i))
  <2>1. openFile'[id] # NoHandle
    BY <1>2, <1>19 DEF NoHandle
  <2>2. QED
    BY <1>19, <2>1 DEF IsOpen
<1>25. OpenOnce'
  <2>1. ASSUME NEW i \in FileId, NEW j \in FileId, IsOpen(i)', IsOpen(j)',
               openFile'[i].name = openFile'[j].name
        PROVE  i = j
    <3>1. CASE i # id /\ j # id
      BY <1>19, <1>24, <2>1, <3>1 DEF RInv, OpenOnce
    <3>2. CASE i = id \/ j = id
      BY <1>3, <1>19, <2>1, <3>2
    <3>3. QED
      BY <3>1, <3>2
  <2>2. ASSUME NEW e \in FD, fdFile'[e] # NoFile
        PROVE  \E i \in FileId : IsOpen(i)' /\ openFile'[i].fd = e
    <3>1. CASE e = c
      BY <1>14, <1>19, <1>24, <3>1
    <3>2. CASE e # c
      <4>1. PICK i \in FileId : IsOpen(i) /\ openFile[i].fd = e
        BY <1>20, <2>2, <3>2 DEF RInv, OpenOnce
      <4>2. i # id
        BY <1>14, <4>1
      <4>3. QED
        BY <1>19, <1>24, <4>1, <4>2
    <3>3. QED
      BY <3>1, <3>2
  <2>3. QED
    BY <2>1, <2>2 DEF OpenOnce
<1>26. ASSUME NEW i \in FileId, IsOpen(i), i # id PROVE HeaderMapped(i)'
  <2>1. openFile'[i] = openFile[i]
    BY <1>19, <1>26
  <2>2. openFile[i].hdr \in FrameId \ {a} /\ openFile[i].fd \in FD /\ openFile[i].hdr # NoFrame
    BY <1>13, <1>26, HeaderFrame DEF IsHeader, FrameId, NoFrame
  <2>3. openFile[i].fd # c
    BY <1>3, <1>26, OpenDesc DEF DescOpen
  <2>4. HeaderMapped(i)
    BY <1>26 DEF RInv, HeadersMapped
  <2>5. Hdr(i)' = Hdr(i)
    BY <1>18, <2>1, <2>2 DEF Hdr
  <2>6. \A q \in PageNum : pageTable'[<<openFile[i].fd, q>>] =
          IF pageTable[<<openFile[i].fd, q>>] = a THEN NoFrame ELSE pageTable[<<openFile[i].fd, q>>]
    BY <1>22, <2>2, <2>3 DEF Installs
  <2>7. pageTable'[<<openFile[i].fd, 0>>] = openFile[i].hdr
    BY <1>6, <2>2, <2>4, <2>6 DEF HeaderMapped
  <2>8. \A q \in PageNum : pageTable'[<<openFile[i].fd, q>>] # NoFrame => q < Hdr(i).count
    BY <2>4, <2>6 DEF HeaderMapped
  <2>9. QED
    BY <2>1, <2>4, <2>5, <2>7, <2>8 DEF HeaderMapped
<1>27. HeaderMapped(id)'
  <2>1. openFile'[id].fd = c /\ openFile'[id].hdr = a
    BY <1>19
  <2>2. Hdr(id)' = NewHeader
    BY <1>16, <1>18, <2>1 DEF Hdr
  <2>3. pageTable'[<<c, 0>>] = a
    BY <1>6, <1>22 DEF Installs
  <2>4. \A q \in PageNum : pageTable'[<<c, q>>] # NoFrame => q = 0
    BY <1>6, <1>21, <1>22 DEF Installs
  <2>5. \A q \in PageNum : q < 1 <=> q = 0
    BY SizeAssumption DEF PageNum
  <2>6. NewHeader.count = 1 /\ NewHeader.bits = {0}
    BY DEF NewHeader
  <2>7. QED
    BY <2>1, <2>2, <2>3, <2>4, <2>5, <2>6 DEF HeaderMapped
<1>28. RInv'
  BY <1>23, <1>24, <1>25, <1>26, <1>27 DEF RInv, HeadersMapped
<1>29. ASSUME NEW m \in FileName, NEW q \in PageNum
       PROVE  Logical'[m][q] = Logical[m][q]
  BY <1>3, <1>6, <1>13, <1>15, <1>18, <1>22, <1>28, InstalledStore
<1>30. QED
  BY <1>28, <1>29, SameStore
\* A step that changes pages of one file of the store
LEMMA OneFile ==
  ASSUME NEW n \in FileName, NEW r, r = [q \in PageNum |-> Logical'[n][q]],
         \A m \in FileName, q \in PageNum : m # n => Logical'[m][q] = Logical[m][q]
  PROVE  Logical' = [Logical EXCEPT ![n] = r]
<1>1. PICK L : L = Logical
  OBVIOUS
<1>2. PICK M : M = Logical'
  OBVIOUS
<1>3. L = [m \in FileName |-> L[m]] /\ M = [m \in FileName |-> M[m]]
  BY <1>1, <1>2 DEF Logical
<1>4. ASSUME NEW m \in FileName, m # n PROVE M[m] = L[m]
  <2>1. M[m] = [q \in PageNum |-> M[m][q]]
    BY <1>2, FilePagesNext
  <2>2. L[m] = [q \in PageNum |-> L[m][q]]
    BY <1>1, FilePages
  <2>3. \A q \in PageNum : M[m][q] = L[m][q]
    BY <1>1, <1>2, <1>4
  <2>4. QED
    BY <2>1, <2>2, <2>3
<1>5. M[n] = r
  BY <1>2, FilePagesNext
<1>6. M = [L EXCEPT ![n] = r]
  BY <1>3, <1>4, <1>5
<1>7. QED
  BY <1>1, <1>2, <1>6

\* allocate_page extends the file.
LEMMA ExtendFileR ==
  ASSUME IInv, RInv, IInv', ~WriteErrors, NEW h \in Handle, NEW id \in FileId, ExtendFile(h, id)
  PROVE  RInv' /\ \E n \in FileName : Store!Extend(n)
<1>1. IsOpen(id) /\ ~BlockLeaks(fdFile) /\ UNCHANGED <<openFile, files, fdFile>>
  BY NoLeak DEF ExtendFile, HeaderIntact
<1>2. PICK a : a = AllocId
  OBVIOUS
<1>3. PICK g : g = openFile[id].hdr
  OBVIOUS
<1>4. PICK c \in FD : c = openFile[id].fd
  BY <1>1, HeaderFrame
<1>5. PICK n \in FileName : n = openFile[id].name
  BY <1>1, HeaderFrame
<1>6. PICK y \in Header : y = Hdr(id)
  BY <1>1, HeaderFrame
<1>7. PICK p : p = y.count
  OBVIOUS
<1>8. /\ g \in FrameId /\ fdFile[c] = n /\ n # NoFile /\ n \in files
      /\ frames[g].fd = c /\ frames[g].pn = 0 /\ frames[g].data = y
  <2>1. g \in FrameId /\ fdFile[c] = n /\ frames[g].fd = c /\ frames[g].pn = 0
    BY <1>1, <1>3, <1>4, <1>5, HeaderFrame
  <2>2. n # NoFile
    BY NameAssumption
  <2>3. frames[g].data = y
    BY <1>3, <1>6 DEF Hdr
  <2>4. QED
    BY <2>1, <2>2, <2>3 DEF IInv, DescriptorsMatch
<1>9. /\ BlockReady(fdFile) /\ ~ph[h].open /\ p < MaxPageCount
      /\ frames' = ExtendedFrames(id, p)
      /\ lru' = LruAfterAlloc
      /\ pageTable' = [TableAfterAlloc EXCEPT ![<<c, p>>] = a]
      /\ disk' = [DiskAfterBlock(fdFile, frames) EXCEPT ![n][p] = Zero]
      /\ ph' = [ph EXCEPT ![h] = [open |-> TRUE, frame |-> a, fd |-> c, pn |-> p]]
  BY <1>1, <1>2, <1>4, <1>6, <1>7, <1>8 DEF ExtendFile
<1>10. a \in FrameId /\ HasFrame /\ ~IsHeader(a) /\ a # NoFrame
  BY <1>2, <1>9, AllocLemma DEF BlockReady, FrameId, NoFrame
<1>11. g # a /\ IsHeader(g)
  BY <1>1, <1>3, <1>10 DEF IsHeader
<1>12. p \in PageNum /\ p # 0 /\ 0 \in PageNum
  <2>1. 0 \in y.bits /\ \A q \in y.bits : q < y.count
    BY <1>1, <1>3, <1>8 DEF IInv, HeadersMatch, HeaderOk
  <2>2. y.count \in Nat
    BY DEF Header
  <2>3. QED
    BY <1>7, <1>9, <2>1, <2>2, SizeAssumption DEF PageNum
<1>13. PICK x : x = [count |-> p + 1, alloc |-> y.alloc + 1, bits |-> y.bits \cup {p}]
  OBVIOUS
<1>14. PICK z : z = [dirty |-> FALSE, pin |-> 1, fd |-> c, pn |-> p, data |-> Zero]
  OBVIOUS
<1>15. frames \in [FrameId -> Frame] /\ frames[g] \in Frame
  BY <1>8 DEF IInv, TypeOK
<1>16. frames' = [[[frames EXCEPT ![g].data = x] EXCEPT ![g].dirty = TRUE] EXCEPT ![a] = z]
  BY <1>2, <1>3, <1>4, <1>6, <1>9, <1>13, <1>14 DEF ExtendedFrames, WithHdr
<1>17. /\ frames'[a] = z
       /\ \A f \in FrameId \ {a, g} : frames'[f] = frames[f]
       /\ frames'[g] = [[frames[g] EXCEPT !.data = x] EXCEPT !.dirty = TRUE]
  BY <1>8, <1>10, <1>11, <1>15, <1>16
<1>18. frames'[g].fd = c /\ frames'[g].pn = 0 /\ frames'[g].data = x /\ frames'[g].dirty
  BY <1>8, <1>15, <1>17 DEF Frame
<1>19. PICK d : d = DiskAfterBlock(fdFile, frames)
  OBVIOUS
<1>20. \A m \in FileName, q \in PageNum :
         d[m][q] = IF DirtyAt(a, m, q) THEN frames[a].data ELSE disk[m][q]
  BY <1>2, <1>10, <1>19, FlushedDisk DEF DiskAfterBlock
<1>21. /\ disk'[n][p] = Zero
       /\ \A m \in FileName, q \in PageNum : m # n \/ q # p => disk'[m][q] = d[m][q]
  <2>1. fdFile \in [FD -> FileName \cup {NoFile}]
    BY DEF IInv, TypeOK
  <2>2. d \in [FileName -> [PageNum -> Content \cup {Hole}]]
    BY <1>9, <1>19, <2>1, BlockDiskLemma
  <2>3. disk' = [d EXCEPT ![n][p] = Zero]
    BY <1>9, <1>19
  <2>4. QED
    BY <1>12, <2>2, <2>3
<1>22. HeaderMapped(id) /\ \A q \in PageNum : pageTable[<<c, q>>] # NoFrame => q < p
  BY <1>1, <1>4, <1>6, <1>7 DEF RInv, HeadersMapped, HeaderMapped
<1>23. pageTable[<<c, p>>] = NoFrame
  BY <1>12, <1>22, SizeAssumption DEF PageNum
<1>24. Installs(a, c, p, n)
  <2>1. ASSUME NEW k \in FD \X PageNum
        PROVE  pageTable'[k] = IF k = <<c, p>> THEN a
                               ELSE IF pageTable[k] = a THEN NoFrame ELSE pageTable[k]
    <3>1. pageTable' = [TableAfterAlloc EXCEPT ![<<c, p>>] = a]
      BY <1>9
    <3>2. TableAfterAlloc \in [FD \X PageNum -> FrameId \cup {NoFrame}]
      BY <1>10, AllocLemma
    <3>3. TableAfterAlloc[k] = IF pageTable[k] = a THEN NoFrame ELSE pageTable[k]
      BY <1>2, <1>10, Evicts
    <3>4. QED
      BY <3>1, <3>2, <3>3
  <2>2. Elems(lru') \subseteq Elems(lru) \ {a}
    BY <1>2, <1>9, <1>10, AllocLemma
  <2>3. \A e \in FD : e # c => fdFile[e] # n
    BY <1>8, OneDesc
  <2>4. ASSUME NEW w \in Handle, w # h PROVE ph'[w] = ph[w]
    BY <1>9, <2>4 DEF IInv, TypeOK
  <2>5. ph'[h].fd = c /\ ph'[h].pn = p /\ ph'[h].frame = a
    BY <1>9 DEF IInv, TypeOK
  <2>6. z.fd = c /\ z.pn = p /\ z.data = disk'[n][p] /\ ~z.dirty
    BY <1>14, <1>21
  <2>7. ASSUME NEW f \in FrameId \ {a}
        PROVE  /\ frames'[f].fd = frames[f].fd /\ frames'[f].pn = frames[f].pn
               /\ frames'[f].dirty => frames[f].dirty \/ IsHeader(f)
               /\ ~frames'[f].dirty => ~frames[f].dirty /\ frames'[f].data = frames[f].data
    BY <1>8, <1>11, <1>17, <1>18
  <2>8. QED
    BY <1>1, <1>8, <1>17, <1>20, <1>21, <1>23, <2>1, <2>2, <2>3, <2>4, <2>5, <2>6, <2>7
    DEF Installs
<1>25. /\ DirtyMapped' /\ LruMapped' /\ HandlesMapped'
       /\ EntriesOpen' /\ CleanAgrees' /\ GoneIsEmpty'
  BY <1>2, <1>8, <1>10, <1>12, <1>24, InstalledR
<1>26. OpenOnce'
  BY <1>1 DEF RInv, OpenOnce, IsOpen
<1>27. ASSUME NEW i \in FileId, IsOpen(i) PROVE HeaderMapped(i)'
  <2>1. openFile[i].hdr \in FrameId \ {a} /\ openFile[i].fd \in FD /\ openFile[i].hdr # NoFrame
    BY <1>10, <1>27, HeaderFrame DEF IsHeader, FrameId, NoFrame
  <2>2. HeaderMapped(i)
    BY <1>27 DEF RInv, HeadersMapped
  <2>3. pageTable'[<<openFile[i].fd, 0>>] = openFile[i].hdr
    BY <1>12, <1>24, <2>1, <2>2 DEF HeaderMapped, Installs
  <2>4. CASE i = id
    <3>1. Hdr(i)' = x
      BY <1>1, <1>3, <1>18, <2>4 DEF Hdr
    <3>2. x.count = p + 1 /\ x.bits = y.bits \cup {p}
      BY <1>13
    <3>3. \A q \in PageNum : q < p + 1 <=> q < p \/ q = p
      BY <1>12, SizeAssumption DEF PageNum
    <3>4. \A q \in PageNum : q < p => q \in y.bits
      BY <1>6, <1>7, <1>22 DEF HeaderMapped
    <3>5. ASSUME NEW q \in PageNum, pageTable'[<<c, q>>] # NoFrame PROVE q < p \/ q = p
      BY <1>22, <1>24, <3>5 DEF Installs
    <3>6. QED
      BY <1>1, <1>4, <2>3, <2>4, <3>1, <3>2, <3>3, <3>4, <3>5 DEF HeaderMapped
  <2>5. CASE i # id
    <3>1. openFile[i].fd # c
      BY <1>1, <1>4, <1>27, <2>5, OneHandle
    <3>2. openFile[i].hdr # g
      BY <1>8, <1>27, <3>1, HeaderFrame
    <3>3. Hdr(i)' = Hdr(i)
      BY <1>1, <1>17, <2>1, <3>2 DEF Hdr
    <3>4. \A q \in PageNum : pageTable'[<<openFile[i].fd, q>>] # NoFrame =>
            pageTable[<<openFile[i].fd, q>>] # NoFrame
      BY <1>24, <2>1, <3>1 DEF Installs
    <3>5. QED
      BY <1>1, <2>2, <2>3, <3>3, <3>4 DEF HeaderMapped
  <2>6. QED
    BY <2>4, <2>5
<1>28. RInv'
  BY <1>1, <1>25, <1>26, <1>27 DEF RInv, HeadersMapped, IsOpen
<1>29. StoreView'
  BY <1>28, ViewsNext
<1>30. Logical'[n][0] = x
  <2>1. DirtyAt(g, n, 0)'
    BY <1>1, <1>8, <1>18 DEF DirtyAt
  <2>2. QED
    BY <1>8, <1>12, <1>18, <1>29, <2>1 DEF StoreView
<1>31. Logical'[n][p] = Zero
  <2>1. ASSUME NEW f \in FrameId, DirtyAt(f, n, p)' PROVE FALSE
    <3>1. f # a
      BY <1>14, <1>17, <2>1 DEF DirtyAt
    <3>2. f # g
      BY <1>12, <1>18, <2>1 DEF DirtyAt
    <3>3. frames'[f] = frames[f]
      BY <1>17, <3>1, <3>2
    <3>4. frames[f].dirty /\ fdFile[frames[f].fd] = n /\ frames[f].pn = p
      BY <1>1, <2>1, <3>3 DEF DirtyAt
    <3>5. frames[f].fd \in FD /\ pageTable[<<frames[f].fd, p>>] = f
      BY <3>4, DirtyPlace
    <3>6. frames[f].fd = c
      BY <1>8, <3>4, <3>5, OneDesc
    <3>7. f # NoFrame
      BY DEF FrameId, NoFrame
    <3>8. QED
      BY <1>23, <3>5, <3>6, <3>7
  <2>2. QED
    BY <1>12, <1>21, <1>29, <2>1 DEF StoreView
<1>32. ASSUME NEW m \in FileName, NEW q \in PageNum, m # n \/ (q # 0 /\ q # p)
       PROVE  Logical'[m][q] = Logical[m][q]
  <2>1. disk'[m][q] = IF DirtyAt(a, m, q) THEN frames[a].data ELSE disk[m][q]
    BY <1>20, <1>21, <1>32
  <2>2. \A f \in FrameId \ {a} :
          \/ frames'[f] = frames[f]
          \/ frames[f].fd = c /\ fdFile[c] = n /\ (m # n \/ q # frames[f].pn)
    BY <1>8, <1>17, <1>32
  <2>3. QED
    BY <1>8, <1>10, <1>12, <1>24, <1>28, <2>1, <2>2, InstalledStore
<1>33. Logical[n][0] = y /\ Logical[n] # Empty
  BY <1>1, <1>5, <1>6, StoreHeader
<1>34. PICK r : r = [q \in PageNum |-> Logical'[n][q]]
  OBVIOUS
<1>35. Logical' = [Logical EXCEPT ![n] = r]
  BY <1>32, <1>34, OneFile
<1>36. r = [[Logical[n] EXCEPT ![p] = Zero] EXCEPT ![0] = x]
  <2>1. PICK u : u = Logical[n]
    OBVIOUS
  <2>2. u = [q \in PageNum |-> u[q]]
    BY <2>1, FilePages
  <2>3. \A q \in PageNum : q # 0 /\ q # p => Logical'[n][q] = u[q]
    BY <1>32, <2>1
  <2>4. r = [q \in PageNum |-> IF q = 0 THEN x ELSE IF q = p THEN Zero ELSE u[q]]
    BY <1>30, <1>31, <1>34, <2>3
  <2>5. r = [[u EXCEPT ![p] = Zero] EXCEPT ![0] = x]
    BY <1>12, <2>2, <2>4
  <2>6. QED
    BY <2>1, <2>5
<1>37. Store!Extend(n)
  <2>1. PICK L : L = Logical
    OBVIOUS
  <2>2. DOMAIN L = FileName /\ L[n] = [q \in PageNum |-> L[n][q]] /\ L[n][0] = y
    BY <1>33, <2>1, FilePages
  <2>3. [L EXCEPT ![n][p] = Zero,
                  ![n][0] = [count |-> p + 1, alloc |-> @.alloc + 1, bits |-> @.bits \cup {p}]]
        = [L EXCEPT ![n] = r]
    <3>1. r = [[L[n] EXCEPT ![p] = Zero] EXCEPT ![0] = x]
      BY <1>36, <2>1
    <3>2. [L[n] EXCEPT ![p] = Zero][0] = y
      BY <1>12, <2>2
    <3>3. QED
      BY <1>12, <1>13, <2>2, <3>1, <3>2
  <2>4. QED
    BY <1>7, <1>9, <1>33, <1>35, <2>1, <2>3, NoPagesIsEmpty DEF Store!Extend
<1>38. QED
  BY <1>28, <1>37
-----------------------------------------------------------------------------
(* The refinement *)

LEMMA InitRInv == Init => RInv /\ Store!Init
<1> SUFFICES ASSUME Init PROVE RInv /\ Store!Init
  OBVIOUS
<1>1. DirtyMapped /\ HandlesMapped /\ EntriesOpen /\ CleanAgrees
  BY DEF Init, DirtyMapped, HandlesMapped, EntriesOpen, CleanAgrees, Closed
<1>2. LruMapped
  BY DEF Init, LruMapped, Elems
<1>3. \A id \in FileId : ~IsOpen(id)
  BY DEF Init, IsOpen
<1>4. OpenOnce /\ HeadersMapped
  BY <1>3 DEF Init, OpenOnce, HeadersMapped
<1>5. GoneIsEmpty
  BY DEF Init, GoneIsEmpty
<1>6. \A n \in FileName, p \in PageNum : Cached(n, p) = {}
  BY NameAssumption DEF Init, Cached, NoHandle
<1>7. Logical = [n \in FileName |-> [p \in PageNum |-> disk[n][p]]]
  BY <1>6 DEF Logical
<1>8. \A n \in FileName : [p \in PageNum |-> disk[n][p]] = Store!NoPages
  BY NoPagesIsEmpty DEF Init, Empty
<1>9. Logical = [n \in FileName |-> Store!NoPages]
  BY <1>7, <1>8
<1>10. QED
  BY <1>1, <1>2, <1>4, <1>5, <1>9 DEF RInv, Store!Init

\* A step that changes nothing
LEMMA StutterR ==
  ASSUME IInv, RInv, UNCHANGED vars
  PROVE  RInv' /\ Logical' = Logical
<1>1. Stands
  BY DEF Stands, vars
<1>2. LruMapped' /\ HandlesMapped'
  BY DEF RInv, LruMapped, HandlesMapped, Elems, vars
<1>3. Logical' = Logical
  BY DEF Logical, Cached, vars
<1>4. QED
  BY <1>1, <1>2, <1>3, StandsKeeps DEF RInv

\* Every step of the cache is a step of the store or leaves it alone.
LEMMA StepRInv ==
  ASSUME ~ReadErrors, ~WriteErrors
  PROVE  IInv /\ RInv /\ [WorkNext]_vars => IInv' /\ RInv' /\ [Store!Next]_Logical
<1> SUFFICES ASSUME IInv, RInv, [WorkNext]_vars PROVE IInv' /\ RInv' /\ [Store!Next]_Logical
  OBVIOUS
<1>1. IInv'
  BY StepIInv DEF WorkNext, Next
<1>2. ASSUME NEW n \in FileName, CreateFile(n) PROVE RInv' /\ Store!Next
  BY <1>1, <1>2, CreateFileR DEF Store!Next
<1>3. ASSUME NEW n \in FileName, DropFile(n) PROVE RInv' /\ Store!Next
  BY <1>1, <1>3, DropFileR DEF Store!Next
<1>4. ASSUME NEW n \in FileName, NEW c \in FD, OpenFile(n, c) PROVE RInv' /\ Logical' = Logical
  BY <1>1, <1>4, OpenFileR
<1>5. ASSUME NEW h \in Handle, NEW id \in FileId, NEW p \in PageNum \ {0}, GetThisPage(h, id, p)
      PROVE  RInv' /\ Logical' = Logical
  BY <1>1, <1>5, GetThisPageR
<1>6. ASSUME NEW h \in Handle, NEW id \in FileId, ExtendFile(h, id) PROVE RInv' /\ Store!Next
  BY <1>1, <1>6, ExtendFileR DEF Store!Next
<1>7. ASSUME NEW h \in Handle, UnpinPage(h) PROVE RInv' /\ Logical' = Logical
  <2>1. RInv' /\ Stands
    BY <1>1, <1>7, UnpinPageR
  <2>2. QED
    BY <1>1, <2>1, StandsStore
<1>8. ASSUME NEW h \in Handle, NEW v \in Value, WritePage(h, v) PROVE RInv' /\ Store!Next
  <2>1. RInv'
    BY <1>1, <1>8, WritePageR
  <2>2. PICK n \in FileName, p \in PageNum : Store!Write(n, p, v)
    BY <1>1, <1>8, <2>1, WritePageStore
  <2>3. p \in Store!PageNum
    BY DEF PageNum, Store!PageNum
  <2>4. QED
    BY <2>1, <2>2, <2>3 DEF Store!Next
<1>9. ASSUME NEW id \in FileId, NEW p \in PageNum, ForcePage(id, p) PROVE RInv' /\ Logical' = Logical
  BY <1>1, <1>9, ForcePageR
<1>10. CASE FileStep
  BY <1>1, <1>2, <1>3, <1>4, <1>10 DEF FileStep
<1>11. CASE PageStep
  BY <1>1, <1>5, <1>6, <1>7, <1>8, <1>9, <1>11, ReusePageNever DEF PageStep
<1>12. CASE UNCHANGED vars
  BY <1>1, <1>12, StutterR
<1>13. QED
  BY <1>10, <1>11, <1>12 DEF WorkNext

\* While no read or write fails, no page is disposed of and no file is closed,
\* a page that is cached is cached once, under the descriptor of an open file,
\* and agrees with the file unless its frame is dirty.
THEOREM CacheCoherent ==
  ASSUME ~ReadErrors, ~WriteErrors PROVE WorkSpec => []RInv
<1>1. Init => IInv /\ RInv
  BY InitIInv, InitRInv
<1>2. IInv /\ RInv /\ [WorkNext]_vars => (IInv /\ RInv)'
  BY StepRInv
<1>3. QED
  BY <1>1, <1>2, PTL DEF WorkSpec

\* Loading, pinning, evicting and forcing never change a page: while no read
\* or write fails, no page is disposed of and no file is closed, the page
\* cache is the page store, whatever the number of frames.
THEOREM Implements ==
  ASSUME ~ReadErrors, ~WriteErrors PROVE WorkSpec => ImplementsStore
<1>1. Init => IInv /\ RInv /\ Store!Init
  BY InitIInv, InitRInv
<1>2. IInv /\ RInv /\ [WorkNext]_vars => IInv' /\ RInv' /\ [Store!Next]_Logical
  BY StepRInv
<1>3. QED
  BY <1>1, <1>2, PTL DEF WorkSpec, ImplementsStore, Store!Spec
=============================================================================
