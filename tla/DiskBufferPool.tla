--------------------------- MODULE DiskBufferPool ---------------------------
(***************************************************************************)
(* The page cache of the storage engine: LRUReplacer, BPManager and        *)
(* DiskBufferPool (storage/default).  Frames hold pages of paged files;    *)
(* page 0 of a file is its header: the number of pages, the number of      *)
(* allocated pages and the bitmap of allocated pages.  Every operation of  *)
(* the class is one action, with the system calls it makes.                *)
(*                                                                         *)
(* A page is abstracted to a value; the header page keeps its fields.      *)
(* An early return that changes no state is a guard.  A system call fails  *)
(* on a closed descriptor or past the end of the file, and at any time if  *)
(* ReadErrors or WriteErrors says so.                                      *)
(***************************************************************************)
EXTENDS Integers, Sequences, FiniteSets

CONSTANTS
  NumFrames,     \* BPManager::size_
  MaxPageCount,  \* bound: pages per file
  FileName,      \* names of paged files
  FD,            \* descriptors the operating system hands out
  MaxOpenFile,   \* MAX_OPEN_FILE
  Handle,        \* BPPageHandle objects of the callers
  Value,         \* contents of data pages
  Zero,          \* the content of a page that was only extended
  Hole,          \* no page there (at or after the end of the file, or skipped)
  NoFile,        \* a descriptor that is not open
  ReadErrors,    \* may read() fail on a good descriptor?
  WriteErrors    \* may write() fail on a good descriptor?

ASSUME SizeAssumption ==
  /\ NumFrames \in Nat \ {0}
  /\ MaxPageCount \in Nat \ {0}
  /\ MaxOpenFile \in Nat \ {0}

ASSUME SetAssumption ==
  /\ FD \subseteq Nat \ {0}
  /\ IsFiniteSet(Handle)
  /\ ReadErrors \in BOOLEAN
  /\ WriteErrors \in BOOLEAN

FrameId == 0 .. NumFrames - 1
PageNum == 0 .. MaxPageCount - 1
FileId  == 0 .. MaxOpenFile - 1
NoFrame == -1
Unused  == 0      \* file_desc of a frame that was never used (zeroed memory)
UIntMax == 65535  \* stands for the largest unsigned int

\* BPFileSubHeader and the bitmap behind it.
Header  == [count : Nat, alloc : Int, bits : SUBSET PageNum]
Content == Header \cup Value \cup {Zero}

ASSUME NameAssumption ==
  /\ NoFile \notin FileName
  /\ Hole \notin Content

Frame   == [dirty : BOOLEAN, pin : Nat, fd : FD \cup {Unused},
            pn : PageNum, data : Content]
FileHandle == [name : FileName, fd : FD, hdr : FrameId]
NoHandle   == [name |-> NoFile, fd |-> Unused, hdr |-> NoFrame]
PageHandle == [open : BOOLEAN, frame : FrameId, fd : FD, pn : PageNum]
Closed     == [open |-> FALSE, frame |-> NoFrame, fd |-> Unused, pn |-> 0]

VARIABLES
  frames,     \* BPManager::frames_
  freeList,   \* BPManager::free_list_, front first
  lru,        \* LRUReplacer::cache_list_, most recently unpinned first
  pageTable,  \* BPManager::page_table_
  openFile,   \* open_file_ (and its inverse file_name_id_)
  freeIds,    \* free_file_ids_
  ph,         \* the callers' page handles: frame, and the page asked for
  files,      \* the names in the file system
  disk,       \* the pages of each file
  fdFile      \* the operating system's descriptor table

bpm  == <<frames, freeList, lru, pageTable>>
os   == <<files, disk, fdFile>>
vars == <<frames, freeList, lru, pageTable, openFile, freeIds, ph,
          files, disk, fdFile>>

-----------------------------------------------------------------------------
(* LRUReplacer *)

Elems(s) == {s[i] : i \in DOMAIN s}

\* Mutant: Pin leaves the frame in the list.
PinNothing(s, f) == s

\* cache_list_ without frame f: Pin, and Victim for the last element.
Without(s, f) ==
  IF f \in Elems(s)
  THEN LET k == CHOOSE i \in DOMAIN s : s[i] = f
       IN  [i \in 1 .. Len(s) - 1 |-> IF i < k THEN s[i] ELSE s[i + 1]]
  ELSE s

\* Mutant: Unpin forgets the frame.
UnpinNothing(s, f) == s

\* Unpin puts f in front unless it is there, and drops the back of a list
\* longer than the capacity, which is the number of frames.
LruUnpin(s, f) ==
  LET t == IF f \in Elems(s) THEN s ELSE <<f>> \o s
  IN  IF Len(t) > NumFrames THEN SubSeq(t, 1, Len(t) - 1) ELSE t

-----------------------------------------------------------------------------
(* BPManager *)

HasFrame == freeList # <<>> \/ lru # <<>>

\* The frame alloc() returns: front of the free list, else the LRU victim.
AllocId == IF freeList # <<>> THEN Head(freeList) ELSE lru[Len(lru)]

\* Mutant: Victim does not remove the frame it returns.
VictimStays == lru

FreeAfterAlloc == IF freeList # <<>> THEN Tail(freeList) ELSE freeList
LruAfterAlloc  == Without(lru, AllocId)

\* DeletePageTable
Erase(table, fd, pn) ==
  [k \in FD \X PageNum |-> IF k = <<fd, pn>> THEN NoFrame ELSE table[k]]

\* Only a victim is looked up in the page table and erased there.
TableAfterAlloc ==
  IF freeList # <<>>
  THEN pageTable
  ELSE Erase(pageTable, frames[AllocId].fd, frames[AllocId].pn)

-----------------------------------------------------------------------------
(* flush_block, allocate_block, load_page, the checks *)

\* ft is the descriptor table and fr the frames when the call is made.
DescOpen(ft, fd) == fd \in FD /\ ft[fd] # NoFile

\* The disk after flush_block(f): the frame's own descriptor and page number
\* say where the page goes.
Flushed(d, ft, fr, f) ==
  [d EXCEPT ![ft[fr[f].fd]][fr[f].pn] = fr[f].data]

\* allocate_block: a dirty frame is flushed before it is handed out.
BlockReady(ft) ==
  HasFrame /\ (frames[AllocId].dirty => DescOpen(ft, frames[AllocId].fd))

\* Mutant: a dirty victim is not written.
DropVictim(ft, fr) == disk

DiskAfterBlock(ft, fr) ==
  IF fr[AllocId].dirty THEN Flushed(disk, ft, fr, AllocId) ELSE disk

\* allocate_block, the flush fails: the frame has left the free list or the
\* replacer and nobody owns it.
BlockLeaks(ft) ==
  /\ HasFrame
  /\ frames[AllocId].dirty
  /\ WriteErrors \/ ~DescOpen(ft, frames[AllocId].fd)
  /\ freeList' = FreeAfterAlloc
  /\ lru' = LruAfterAlloc
  /\ pageTable' = TableAfterAlloc
  /\ disk' = disk

\* Mutant: a short read is not noticed.
AlwaysThere(d, n, p) == TRUE

\* read() returns a whole page up to the last page written.
PageThere(d, n, p) == \E q \in PageNum : q >= p /\ d[n][q] # Hole

\* A skipped page reads as zeroes: page number 0 and no data.
LoadedPn(d, n, p)   == IF d[n][p] = Hole THEN 0 ELSE p
LoadedData(d, n, p) == IF d[n][p] = Hole THEN Zero ELSE d[n][p]

\* The new frame after load_page.
LoadPage(fr, d, n, fd, p) ==
  [fr EXCEPT ![AllocId] = [dirty |-> FALSE, pin |-> 1, fd |-> fd,
                           pn |-> LoadedPn(d, n, p), data |-> LoadedData(d, n, p)]]

\* load_page fails: dispose_block frees the frame, which by now has the new
\* file's descriptor but still the old page number.
LoadFails(fr, d, n, fd, p) ==
  /\ ReadErrors \/ ~PageThere(d, n, p)
  /\ frames' = [fr EXCEPT ![AllocId] = [dirty |-> FALSE, pin |-> 0, fd |-> fd,
                                        pn |-> fr[AllocId].pn, data |-> fr[AllocId].data]]
  /\ freeList' = Append(FreeAfterAlloc, AllocId)
  /\ lru' = LruAfterAlloc
  /\ pageTable' = Erase(TableAfterAlloc, fd, frames[AllocId].pn)
  /\ disk' = d

IsOpen(id) == openFile[id] # NoHandle             \* check_file_id
Hdr(id)    == frames[openFile[id].hdr].data       \* file_sub_header, bitmap

\* Bound: a file handle whose header frame was given to another page reads
\* that page as its header; the model stops there.
HeaderIntact(id) == IsOpen(id) /\ Hdr(id) \in Header

PageOk(id, p) == p < Hdr(id).count /\ p \in Hdr(id).bits   \* check_page_num

\* The frames with another header for file id.
WithHdr(id, count, alloc, bits) ==
  [frames EXCEPT ![openFile[id].hdr].data =
     [count |-> count, alloc |-> alloc, bits |-> bits]]

-----------------------------------------------------------------------------
(* Files *)

NewHeader == [count |-> 1, alloc |-> 1, bits |-> {0}]
Empty     == [p \in PageNum |-> Hole]

\* create_file; if the header cannot be written the empty file stays.
CreateFile(n) ==
  /\ n \notin files
  /\ files' = files \cup {n}
  /\ \/ disk' = [disk EXCEPT ![n] = [Empty EXCEPT ![0] = NewHeader]]
     \/ WriteErrors /\ disk' = [disk EXCEPT ![n] = Empty]
  /\ UNCHANGED <<bpm, openFile, freeIds, ph, fdFile>>

\* drop_file.  As its comment requires, the callers close the file first.
DropFile(n) ==
  /\ n \in files
  /\ \A fd \in FD : fdFile[fd] # n
  /\ files' = files \ {n}
  /\ disk' = [disk EXCEPT ![n] = Empty]
  /\ UNCHANGED <<bpm, openFile, freeIds, ph, fdFile>>

\* open_file; the operating system picks the descriptor.  When the header
\* cannot be loaded the descriptor is closed again.
OpenFile(n, fd) ==
  LET ft == [fdFile EXCEPT ![fd] = n]
      d  == DiskAfterBlock(ft, frames)
      id == Head(freeIds)
  IN
  /\ n \in files
  /\ \A i \in FileId : openFile[i].name # n
  /\ freeIds # <<>>
  /\ fdFile[fd] = NoFile
  /\ \/ /\ BlockReady(ft)
        /\ PageThere(d, n, 0)
        /\ frames' = LoadPage(frames, d, n, fd, 0)
        /\ freeList' = FreeAfterAlloc
        /\ lru' = LruAfterAlloc
        /\ pageTable' = [TableAfterAlloc EXCEPT ![<<fd, 0>>] = AllocId]
        /\ disk' = d
        /\ openFile' = [openFile EXCEPT ![id] = [name |-> n, fd |-> fd, hdr |-> AllocId]]
        /\ freeIds' = Tail(freeIds)
        /\ fdFile' = ft
     \/ /\ BlockReady(ft)
        /\ LoadFails(frames, d, n, fd, 0)
        /\ UNCHANGED <<openFile, freeIds, fdFile>>
     \/ /\ BlockLeaks(ft)
        /\ UNCHANGED <<frames, openFile, freeIds, fdFile>>
  /\ UNCHANGED <<ph, files>>

-----------------------------------------------------------------------------
(* Pages *)

\* get_this_page, called with the frames fr (allocate_page has changed the
\* header by then): a hit pins the frame, a miss loads the page.
Fetch(h, id, p, fr) ==
  LET fd == openFile[id].fd
      n  == openFile[id].name
      f  == pageTable[<<fd, p>>]
      d  == DiskAfterBlock(fdFile, fr)
      Got(g) == ph' = [ph EXCEPT ![h] = [open |-> TRUE, frame |-> g, fd |-> fd, pn |-> p]]
  IN
  \/ /\ f # NoFrame
     /\ frames' = [fr EXCEPT ![f].pin = @ + 1]
     /\ lru' = Without(lru, f)
     /\ Got(f)
     /\ UNCHANGED <<freeList, pageTable, disk>>
  \/ /\ f = NoFrame
     /\ BlockReady(fdFile)
     /\ PageThere(d, n, p)
     /\ frames' = LoadPage(fr, d, n, fd, p)
     /\ freeList' = FreeAfterAlloc
     /\ lru' = LruAfterAlloc
     /\ pageTable' = [TableAfterAlloc EXCEPT ![<<fd, p>>] = AllocId]
     /\ disk' = d
     /\ Got(AllocId)
  \/ /\ f = NoFrame
     /\ BlockReady(fdFile)
     /\ LoadFails(fr, d, n, fd, p)
     /\ UNCHANGED ph
  \/ /\ f = NoFrame
     /\ BlockLeaks(fdFile)
     /\ frames' = fr
     /\ UNCHANGED ph
  \/ /\ f = NoFrame
     /\ ~HasFrame
     /\ fr # frames
     /\ frames' = fr
     /\ UNCHANGED <<freeList, lru, pageTable, disk, ph>>

GetThisPage(h, id, p) ==
  /\ ~ph[h].open
  /\ HeaderIntact(id)
  /\ PageOk(id, p)
  /\ Fetch(h, id, p, frames)
  /\ UNCHANGED <<openFile, freeIds, files, fdFile>>

FreePages(id) == {p \in PageNum : p < Hdr(id).count /\ p \notin Hdr(id).bits}
HasFreePage(id) == Hdr(id).alloc < Hdr(id).count /\ FreePages(id) # {}
FirstFree(id) == CHOOSE p \in FreePages(id) : \A q \in FreePages(id) : p <= q

\* allocate_page when a page of the file is free: the header changes in
\* memory but is not marked dirty.
ReusePage(h, id) ==
  /\ ~ph[h].open
  /\ HeaderIntact(id)
  /\ HasFreePage(id)
  /\ LET p == FirstFree(id)
     IN  Fetch(h, id, p, WithHdr(id, Hdr(id).count, Hdr(id).alloc + 1, Hdr(id).bits \cup {p}))
  /\ UNCHANGED <<openFile, freeIds, files, fdFile>>

\* Mutant: the new page is numbered by the page count after the increment.
ExtendedOffByOne(id, p) ==
  [WithHdr(id, p + 1, Hdr(id).alloc + 1, Hdr(id).bits \cup {p}) EXCEPT
     ![openFile[id].hdr].dirty = TRUE,
     ![AllocId] = [dirty |-> FALSE, pin |-> 1, fd |-> openFile[id].fd,
                   pn |-> p + 1, data |-> Zero]]

\* The frames after allocate_page extended the file by page p.
ExtendedFrames(id, p) ==
  [WithHdr(id, p + 1, Hdr(id).alloc + 1, Hdr(id).bits \cup {p}) EXCEPT
     ![openFile[id].hdr].dirty = TRUE,
     ![AllocId] = [dirty |-> FALSE, pin |-> 1, fd |-> openFile[id].fd,
                   pn |-> p, data |-> Zero]]

\* allocate_page when it has to extend the file.  If the new page cannot be
\* written the frame stays pinned and mapped, without a handle.
ExtendFile(h, id) ==
  LET p  == Hdr(id).count
      fd == openFile[id].fd
      d  == DiskAfterBlock(fdFile, frames)
  IN
  /\ ~ph[h].open
  /\ HeaderIntact(id)
  /\ ~HasFreePage(id)
  /\ p < MaxPageCount
  /\ \/ /\ BlockReady(fdFile)
        /\ frames' = ExtendedFrames(id, p)
        /\ freeList' = FreeAfterAlloc
        /\ lru' = LruAfterAlloc
        /\ pageTable' = [TableAfterAlloc EXCEPT ![<<fd, p>>] = AllocId]
        /\ \/ /\ DescOpen(fdFile, fd)
              /\ disk' = [d EXCEPT ![fdFile[fd]][p] = Zero]
              /\ ph' = [ph EXCEPT ![h] = [open |-> TRUE, frame |-> AllocId,
                                          fd |-> fd, pn |-> p]]
           \/ /\ WriteErrors
              /\ disk' = d
              /\ UNCHANGED ph
     \/ BlockLeaks(fdFile) /\ UNCHANGED <<frames, ph>>
  /\ UNCHANGED <<openFile, freeIds, files, fdFile>>

\* A caller fills the page behind its handle: get_data, then mark_dirty.
WritePage(h, v) ==
  /\ ph[h].open
  /\ frames' = [frames EXCEPT ![ph[h].frame].data = v, ![ph[h].frame].dirty = TRUE]
  /\ UNCHANGED <<freeList, lru, pageTable, openFile, freeIds, ph, os>>

Dec(pin) == IF pin = 0 THEN UIntMax ELSE pin - 1

UnpinPage(h) ==
  LET f == ph[h].frame
  IN
  /\ ph[h].open
  /\ ph' = [ph EXCEPT ![h] = Closed]
  /\ frames' = [frames EXCEPT ![f].pin = Dec(@)]
  /\ lru' = IF Dec(frames[f].pin) = 0 THEN LruUnpin(lru, f) ELSE lru
  /\ UNCHANGED <<freeList, pageTable, openFile, freeIds, os>>

\* dispose_page: the frame goes to the free list as it is, dirty or not.
DisposePage(id, p) ==
  LET fd == openFile[id].fd
      f  == pageTable[<<fd, p>>]
  IN
  /\ HeaderIntact(id)
  /\ PageOk(id, p)
  /\ f # NoFrame
  /\ frames[f].pin = 0
  /\ lru' = Without(lru, f)
  /\ pageTable' = Erase(pageTable, fd, p)
  /\ freeList' = Append(freeList, f)
  /\ frames' = [WithHdr(id, Hdr(id).count, Hdr(id).alloc - 1, Hdr(id).bits \ {p})
                  EXCEPT ![openFile[id].hdr].dirty = TRUE]
  /\ UNCHANGED <<openFile, freeIds, ph, os>>

-----------------------------------------------------------------------------
(* Flushing *)

\* The disk after the frames of sequence s are flushed in this order.
FlushedSeq(s, fr) ==
  LET Target(n, p) == {i \in DOMAIN s : fdFile[fr[s[i]].fd] = n /\ fr[s[i]].pn = p}
      LastOf(I) == CHOOSE i \in I : \A j \in I : j <= i
  IN  [n \in FileName |-> [p \in PageNum |->
         IF Target(n, p) = {} THEN disk[n][p] ELSE fr[s[LastOf(Target(n, p))]].data]]

Mapped(fd)   == {pageTable[<<fd, p>>] : p \in PageNum} \ {NoFrame}
Orderings(S) == {s \in [1 .. Cardinality(S) -> S] : Elems(s) = S}
Clean(fr, S) == [f \in FrameId |-> IF f \in S THEN [fr[f] EXCEPT !.dirty = FALSE] ELSE fr[f]]

\* force_page for one page: flush if dirty, then free the frame.
ForcePage(id, p) ==
  LET fd == openFile[id].fd
      f  == pageTable[<<fd, p>>]
  IN
  /\ IsOpen(id)
  /\ f # NoFrame
  /\ frames[f].pin = 0
  /\ frames[f].dirty => DescOpen(fdFile, frames[f].fd)
  /\ disk' = IF frames[f].dirty THEN Flushed(disk, fdFile, frames, f) ELSE disk
  /\ frames' = [frames EXCEPT ![f].dirty = FALSE]
  /\ lru' = Without(lru, f)
  /\ pageTable' = Erase(pageTable, fd, p)
  /\ freeList' = Append(freeList, f)
  /\ UNCHANGED <<openFile, freeIds, ph, files, fdFile>>

\* force_all_pages on the frames fr, in hash-table order s: the dirty frames
\* are flushed and freed.  deleteFrame gets the frame number where it takes a
\* page number, so the entry it erases is another one.
ForceAllPages(fd, fr, s) ==
  /\ s \in Orderings({f \in Mapped(fd) : fr[f].dirty})
  /\ \A f \in Elems(s) : DescOpen(fdFile, fr[f].fd)
  /\ disk' = FlushedSeq(s, fr)
  /\ frames' = Clean(fr, Elems(s))
  /\ lru' = SelectSeq(lru, LAMBDA f : f \notin Elems(s))
  /\ pageTable' = [k \in FD \X PageNum |->
                     IF k[1] = fd /\ k[2] \in Elems(s) THEN NoFrame ELSE pageTable[k]]
  /\ freeList' = freeList \o s

\* flush_all_pages
FlushAllPages(id) ==
  LET fd == openFile[id].fd
  IN
  /\ IsOpen(id)
  /\ \E s \in Orderings({f \in Mapped(fd) : frames[f].dirty}) : ForceAllPages(fd, frames, s)
  /\ UNCHANGED <<openFile, freeIds, ph, files, fdFile>>

\* flush_all_pages or close_file, a flush fails: the frames of s before it
\* have been flushed and nothing is freed.
FlushFails(id) ==
  LET D == {f \in Mapped(openFile[id].fd) : frames[f].dirty}
  IN
  /\ IsOpen(id)
  /\ \E S \in SUBSET D : \E f \in D \ S :
       /\ WriteErrors \/ ~DescOpen(fdFile, frames[f].fd)
       /\ \A g \in S : DescOpen(fdFile, frames[g].fd)
       /\ \E s \in Orderings(S) : disk' = FlushedSeq(s, frames)
       /\ frames' = Clean(frames, S)
  /\ UNCHANGED <<freeList, lru, pageTable, openFile, freeIds, ph, files, fdFile>>

\* close_file: the header is unpinned (but not given to the replacer), the
\* file's pages forced, the descriptor closed and the file id freed.
CloseFile(id) ==
  LET fd == openFile[id].fd
      fr == [frames EXCEPT ![openFile[id].hdr].pin = Dec(@)]
  IN
  /\ IsOpen(id)
  /\ \E s \in Orderings({f \in Mapped(fd) : frames[f].dirty}) : ForceAllPages(fd, fr, s)
  /\ fdFile' = [fdFile EXCEPT ![fd] = NoFile]
  /\ openFile' = [openFile EXCEPT ![id] = NoHandle]
  /\ freeIds' = Append(freeIds, id)
  /\ UNCHANGED <<ph, files>>

-----------------------------------------------------------------------------
Init ==
  /\ frames = [f \in FrameId |-> [dirty |-> FALSE, pin |-> 0, fd |-> Unused,
                                  pn |-> 0, data |-> Zero]]
  /\ freeList = [i \in 1 .. NumFrames |-> i - 1]
  /\ lru = <<>>
  /\ pageTable = [k \in FD \X PageNum |-> NoFrame]
  /\ openFile = [id \in FileId |-> NoHandle]
  /\ freeIds = [i \in 1 .. MaxOpenFile |-> i - 1]
  /\ ph = [h \in Handle |-> Closed]
  /\ files = {}
  /\ disk = [n \in FileName |-> Empty]
  /\ fdFile = [fd \in FD |-> NoFile]

FileStep == \E n \in FileName :
  \/ CreateFile(n)
  \/ DropFile(n)
  \/ \E fd \in FD : OpenFile(n, fd)

\* Callers ask for data pages only.
PageStep ==
  \/ \E h \in Handle, id \in FileId :
       \/ \E p \in PageNum \ {0} : GetThisPage(h, id, p)
       \/ ReusePage(h, id)
       \/ ExtendFile(h, id)
  \/ \E h \in Handle : UnpinPage(h) \/ \E v \in Value : WritePage(h, v)
  \/ \E id \in FileId, p \in PageNum : ForcePage(id, p)

DisposeStep == \E id \in FileId, p \in PageNum : DisposePage(id, p)

FlushFailStep == \E id \in FileId : FlushFails(id)

\* Everything but a flush_all_pages or a close_file that succeeds.
Next == FileStep \/ PageStep \/ DisposeStep \/ FlushFailStep
Spec == Init /\ [][Next]_vars

\* The page cache as it is before the first flush_all_pages or close_file
\* that leaves a freed frame mapped, or a mapped page of a closed file.
Undamaged ==
  /\ \A f \in Elems(freeList) : frames[f].pin = 0 /\ \A k \in FD \X PageNum : pageTable[k] # f
  /\ \A k \in FD \X PageNum : pageTable[k] # NoFrame => fdFile[k[1]] # NoFile

\* Work, then shut down: sync and close the files (DefaultHandler::destroy).
FlushStep    == \E id \in FileId : FlushAllPages(id)
CloseStep    == \E id \in FileId : CloseFile(id)
ShutdownNext == (Undamaged /\ (FileStep \/ PageStep)) \/ FlushStep \/ CloseStep
ShutdownSpec == Init /\ [][ShutdownNext]_vars

\* SYNC in the middle of the work.
SyncNext == FileStep \/ PageStep \/ FlushStep
SyncSpec == Init /\ [][SyncNext]_vars

-----------------------------------------------------------------------------
(* Properties *)

\* Every variable has its type.
TypeOK ==
  /\ frames \in [FrameId -> Frame]
  /\ freeList \in Seq(FrameId)
  /\ lru \in Seq(FrameId)
  /\ pageTable \in [FD \X PageNum -> FrameId \cup {NoFrame}]
  /\ openFile \in [FileId -> FileHandle \cup {NoHandle}]
  /\ freeIds \in Seq(FileId)
  /\ ph \in [Handle -> PageHandle \cup {Closed}]
  /\ files \in SUBSET FileName
  /\ disk \in [FileName -> [PageNum -> Content \cup {Hole}]]
  /\ fdFile \in [FD -> FileName \cup {NoFile}]

Distinct(s) == \A i, j \in DOMAIN s : s[i] = s[j] => i = j

\* A frame is at most once on the free list or in the replacer, and only if
\* nobody pins it; a free frame holds no mapped page.  This is what the Pin
\* in deleteFrame is for.
ReusableFrames ==
  /\ Distinct(freeList)
  /\ Distinct(lru)
  /\ Elems(freeList) \cap Elems(lru) = {}
  /\ \A f \in Elems(freeList) \cup Elems(lru) : frames[f].pin = 0
  /\ \A k \in FD \X PageNum : pageTable[k] \notin Elems(freeList)

\* While a caller holds a page between get_this_page or allocate_page and
\* unpin_page, its frame holds that page of that file and stays pinned.
PinnedPageStays ==
  \A h \in Handle : ph[h].open =>
    LET f == frames[ph[h].frame]
    IN  f.pin > 0 /\ f.fd = ph[h].fd /\ f.pn = ph[h].pn

\* The header of an open file: page 0 is allocated, the bitmap marks pages
\* of the file only, and allocated_pages counts its bits.
HeaderCounts ==
  \A id \in FileId : IsOpen(id) =>
    LET h == Hdr(id)
    IN  /\ h \in Header
        /\ 0 \in h.bits
        /\ \A p \in h.bits : p < h.count
        /\ h.alloc = Cardinality(h.bits)

\* No frame is lost: each one is free, evictable or pinned.
FramesAccounted ==
  Undamaged => \A f \in FrameId :
    \/ f \in Elems(freeList) \cup Elems(lru)
    \/ frames[f].pin > 0

-----------------------------------------------------------------------------
(* The store the cache implements: a page is what its frame holds, or else *)
(* what is on disk.                                                        *)

Cached(n, p) == {id \in FileId : openFile[id].name = n /\ pageTable[<<openFile[id].fd, p>>] # NoFrame}
Logical == [n \in FileName |-> [p \in PageNum |->
  IF Cached(n, p) = {}
  THEN disk[n][p]
  ELSE frames[pageTable[<<openFile[CHOOSE id \in Cached(n, p) : TRUE].fd, p>>]].data]]

Store == INSTANCE PageStore WITH store <- Logical

\* Loading, evicting, flushing and closing never change a page: the cache
\* implements the page store.
ImplementsStore == Store!Spec
=============================================================================
