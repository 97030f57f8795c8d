---------------------------- MODULE InodeCreate ----------------------------
(***************************************************************************)
(* InodeCreator::Create (src/src/metafs/mvm/volume/inode_creator.cpp):     *)
(* allocate an fd for the name and a free inode entry, allocate            *)
(* ceil(size / chunk) meta pages of extents, build the inode, insert       *)
(* fd -> inode into fd2InodeMap, record the allocated extents in the inode *)
(* header and save the inode content. When the save fails, the extents go *)
(* back to the free list and MFS_META_SAVE_FAILED is returned with fd 0.   *)
(* The fd allocator, the extent allocator and the inode header's free      *)
(* entry search are not in the repository; they are modelled as handing   *)
(* out the lowest free fd, the lowest free pages and the lowest free entry.*)
(* Extents are abstracted to the set of pages they cover.                  *)
(***************************************************************************)
EXTENDS Integers, FiniteSets, FiniteSetsExt

CONSTANTS
    Names,              \* file names
    FileSizes,          \* fileByteSize values
    ChunkSize,          \* DEFAULT_META_PAGE_DATA_CHUNK_SIZE
    NumLpns,            \* meta pages of the volume's file area
    NumEntries,         \* inode table entries
    MaxSaveFailures,    \* SaveContent calls that fail
    None

Lpns == 0 .. NumLpns - 1
Entries == 0 .. NumEntries - 1
Fds == 0 .. NumEntries - 1

VARIABLES
    fdOf,           \* fdAllocator: name -> fd, or None
    inUse,          \* inodeHdr: entries in use
    inode,          \* inodeTable: entry -> [fd, size, pages]
    fd2InodeMap,    \* a function on the fds present
    freeLpns,       \* extentAllocator free list
    hdrExtents,     \* the extent content of the inode header
    saveFailures,
    result          \* <<fd, event>> of the last Create

vars == <<fdOf, inUse, inode, fd2InodeMap, freeLpns, hdrExtents,
          saveFailures, result>>

\* fdAllocator->Alloc(name): the lowest fd not given to another name.
FdAlloc(name) == Min(Fds \ {fdOf[n] : n \in {m \in Names : fdOf[m] # None}})

\* inodeHdr->GetFreeInodeEntryIdx(): the lowest entry not in use.
FreeEntryIdx == Min(Entries \ inUse)

\* extentAllocator->AllocExtents(cnt): the cnt lowest free pages.
AllocExtents(cnt) == {p \in freeLpns : Cardinality({q \in freeLpns : q <= p}) <= cnt}

\* requestLpnCnt = (fileByteSize + chunk - 1) / chunk.
LpnCount(size) == (size + ChunkSize - 1) \div ChunkSize

\* _AllocNewInodeEntry: mark the free entry in use and clean it up.
AllocNewInodeEntry(idx) ==
    /\ inUse' = inUse \cup {idx}

(***************************************************************************)
(* Create(reqMsg) for a file not created yet, with saved the result of     *)
(* inodeMgr->SaveContent().                                                *)
(***************************************************************************)
Create(name, size, saved) ==
    LET fd    == FdAlloc(name)
        idx   == FreeEntryIdx
        pages == AllocExtents(LpnCount(size))
        used  == Lpns \ (freeLpns \ pages)
    IN
    /\ fdOf[name] = None
    /\ inUse # Entries
    /\ Cardinality(freeLpns) >= LpnCount(size)
    /\ saved \/ saveFailures < MaxSaveFailures
    /\ fdOf' = [fdOf EXCEPT ![name] = fd]
    /\ AllocNewInodeEntry(idx)
    /\ inode' = [inode EXCEPT ![idx] = [fd |-> fd, size |-> size, pages |-> pages]]
    /\ fd2InodeMap' = IF fd \in DOMAIN fd2InodeMap THEN fd2InodeMap
                      ELSE [f \in DOMAIN fd2InodeMap \cup {fd} |->
                              IF f = fd THEN idx ELSE fd2InodeMap[f]]
    /\ hdrExtents' = used
    /\ IF saved
       THEN /\ freeLpns' = freeLpns \ pages
            /\ result' = <<fd, "SUCCESS">>
            /\ UNCHANGED saveFailures
       ELSE /\ freeLpns' = freeLpns
            /\ result' = <<0, "MFS_META_SAVE_FAILED">>
            /\ saveFailures' = saveFailures + 1

Init ==
    /\ fdOf = [n \in Names |-> None]
    /\ inUse = {}
    /\ inode = [e \in Entries |-> [fd |-> 0, size |-> 0, pages |-> {}]]
    /\ fd2InodeMap = [f \in {} |-> 0]
    /\ freeLpns = Lpns
    /\ hdrExtents = {}
    /\ saveFailures = 0
    /\ result = <<0, "SUCCESS">>

Next == \E name \in Names, size \in FileSizes, saved \in BOOLEAN :
            Create(name, size, saved)

Spec == Init /\ [][Next]_vars

(***************************************************************************)
(* Properties.                                                             *)
(***************************************************************************)

TypeOK ==
    /\ inUse \subseteq Entries
    /\ freeLpns \subseteq Lpns
    /\ saveFailures \in 0 .. MaxSaveFailures

FilePages(fd) == inode[fd2InodeMap[fd]].pages

\* The fewest chunk-sized pages that hold size bytes.
PagesNeeded(size) ==
    CHOOSE n \in 0 .. size : n * ChunkSize >= size /\ \A m \in 0 .. n - 1 : m * ChunkSize < size

\* The fds in fs own exactly the pages their size needs, none of them free
\* and none shared between two of them.
OwnPages(fs) ==
    \A fd \in fs :
        /\ Cardinality(FilePages(fd)) = PagesNeeded(inode[fd2InodeMap[fd]].size)
        /\ FilePages(fd) \cap freeLpns = {}
        /\ \A g \in fs \ {fd} : FilePages(fd) \cap FilePages(g) = {}

(***************************************************************************)
(* Every fd that fd2InodeMap resolves, which is what a later open or I/O  *)
(* on that fd goes through, owns exactly the pages its size needs:         *)
(* ceil(size / chunk) of them, none on the free list and none shared with  *)
(* another such fd, across Creates whose save failed.                      *)
(***************************************************************************)
FilesOwnTheirPages == OwnPages(DOMAIN fd2InodeMap)
=============================================================================
