----------------------------- MODULE Mksquashfs -----------------------------
(***************************************************************************)
(* mksquashfs: packs a source tree into an image, or appends it to an      *)
(* image that exists, and can be interrupted, fail or be killed on the way.*)
(*                                                                         *)
(* The program runs several times on one destination.  A step of a run is  *)
(* one entry of the directory scan or one table written: a signal arrives  *)
(* between steps, and what a step writes beyond the point of interest is   *)
(* overwritten or out of reach either way.                                 *)
(***************************************************************************)
EXTENDS SquashImage, FiniteSets

CONSTANTS
    Host,           \* the host's inodes: [type, uid, gid, list] of each
    Sources,        \* the source directory of each run, in their order
    Excluded,       \* -e: host inodes left out
    Priority,       \* -sort: the priority given to some host inodes
    Contents,       \* what a regular file may hold: [readable, blocks, tail]
    RootName,       \* -root-becomes: the name of the old root
    Modes,          \* the ways the program is called
    Orders,         \* -be and -le: the byte orders asked for
    Sortings,       \* is -sort given
    DuplicateCheck, \* FALSE: -no-duplicates
    BlockDevice,    \* the destination is a block device
    BigFile,        \* a file of that many blocks may not fit into memory
    SignalPhases,   \* when signals and write errors come
    MaxSignals,     \* bound: signals and write errors, over all runs
    Kills           \* may the program be killed

AllModes == {"create", "append", "becomes"}
AllPhases == {"sort", "scan", "close", "inodes", "directories", "frags",
              "ids", "super"}

ASSUME MksquashfsAssumption ==
    /\ Modes \subseteq AllModes /\ Orders \subseteq BOOLEAN
    /\ Sortings \subseteq BOOLEAN /\ SignalPhases \subseteq AllPhases
    /\ {DuplicateCheck, BlockDevice, Kills} \subseteq BOOLEAN
    /\ MaxSignals \in Nat /\ BigFile \in Nat \ {0}
    /\ Sources \in Seq({i \in DOMAIN Host : Host[i].type = "dir"})
    /\ \A c \in Contents : c.blocks \in Seq(Int)

VARIABLES
    disk,       \* the destination
    content,    \* the content of each regular file on the host
    run,        \* the runs started so far
    phase,      \* where the run is; "idle" between runs
    mem,        \* the tables and counters that restorefs restores
    proc,       \* the directory scan and the options, which it does not
    sb,         \* sBlk, the super block in memory
    save,       \* the saved state of an append
    signals,    \* signals and errors so far; of this run: proc.interrupted
    origin      \* history: the destination as the run found it

vars == <<disk, content, run, phase, mem, proc, sb, save, signals, origin>>

Inos == DOMAIN Host
IsDir(i) == Host[i].type = "dir"
Files == {i \in Inos : Host[i].type = "file"}
NoIno == 0

-----------------------------------------------------------------------------
(***************************************************************************)
(* dir_scan1: the source tree in memory.  Entries that are excluded are    *)
(* left out, and each directory is sorted by name.                         *)
(***************************************************************************)
Kept(list) == SelectSeq(list, LAMBDA e : e.ino \notin Excluded)

\* An entry of the scan: a name, and a host inode or an entry of the old root.
ScanEntry(name, ino, old) == [name |-> name, ino |-> ino, old |-> old]
NotOld == DirEntry(<<0, 0>>, NoRef, 0, 0, "none")

Before(a, b) ==
    \/ a.name[1] < b.name[1]
    \/ a.name[1] = b.name[1] /\ a.name[2] < b.name[2]

sort_directory(list) == SortSeq(list, Before)

Scanned(dir) ==
    sort_directory([n \in 1 .. Len(Kept(Host[dir].list)) |->
        ScanEntry(Kept(Host[dir].list)[n].name, Kept(Host[dir].list)[n].ino,
                  NotOld)])

\* scan1_single_readdir, scan1_encomp_readdir: at the top a name that is taken
\* by an old entry or an earlier source gets the first free number appended.
FreeName(name, list) ==
    LET taken == {list[n].name : n \in 1 .. Len(list)}
        free  == {k \in 0 .. Len(list) : <<name[1], k>> \notin taken}
    IN  <<name[1], CHOOSE k \in free : \A j \in free : k =< j>>

TopList(dir, olds) ==
    sort_directory(
        FoldLeft(LAMBDA acc, e :
                    Append(acc, ScanEntry(FreeName(e.name, acc), e.ino, NotOld)),
                 [n \in 1 .. Len(olds) |-> ScanEntry(olds[n].name, NoIno, olds[n])],
                 Kept(Host[dir].list)))

\* lookup_inode numbers the inodes as the scan meets them, the directories
\* after what they contain; a hard link is met again and not numbered again.
Met[dir \in {i \in Inos : IsDir(i)}] ==
    FoldLeft(LAMBDA acc, e :
                acc \o (IF IsDir(e.ino) THEN Met[e.ino] ELSE <<>>) \o <<e.ino>>,
             <<>>, Kept(Host[dir].list))

Once(seq) ==
    FoldLeft(LAMBDA acc, i : IF i \in ToSet(acc) THEN acc ELSE Append(acc, i),
             <<>>, seq)

PlaceOf(seq, i) == CHOOSE n \in DOMAIN seq : seq[n] = i

\* Mutant of OthersFrom: the new root is not counted.
RootNotCounted(first, dirs, root) == first + Len(dirs)

OthersFrom(first, dirs, root) ==
    first + Len(dirs) + (IF root = 0 THEN 1 ELSE 0)

\* The numbers of a run: directories from first on; the root, unless it has
\* its number already (root # 0), and then the others after the directories.
Numbers(dir, first, root) ==
    LET dirs   == SelectSeq(Once(Met[dir]), LAMBDA i : IsDir(i))
        others == SelectSeq(Once(Met[dir]), LAMBDA i : ~IsDir(i))
        next   == OthersFrom(first, dirs, root)
    IN  [of   |-> [i \in ToSet(dirs) \cup ToSet(others) \cup {dir} |->
                    IF i = dir
                    THEN IF root = 0 THEN first + Len(dirs) ELSE root
                    ELSE IF IsDir(i) THEN first + PlaceOf(dirs, i) - 1
                    ELSE next + PlaceOf(others, i) - 1],
         next |-> next + Len(others)]

\* generate_file_priorities and sort_files_and_write: by falling priority, the
\* last one met first among equals; a directory's priority is inherited.
PriorityOf(i, inherited) == IF i \in DOMAIN Priority THEN Priority[i] ELSE inherited

Prioritised[dir \in {i \in Inos : IsDir(i)}, inherited \in Int] ==
    LET p == PriorityOf(dir, inherited)
    IN  FoldLeft(LAMBDA acc, e :
            acc \o (IF IsDir(e.ino) THEN Prioritised[e.ino, p]
                    ELSE IF e.ino \in Files
                    THEN <<[ino |-> e.ino, p |-> PriorityOf(e.ino, p)]>>
                    ELSE <<>>),
            <<>>, Scanned(dir))

SortQueue(dir) ==
    LET met == Reverse(Prioritised[dir, 0])
        ps  == SetToSortSeq({met[n].p : n \in DOMAIN met}, LAMBDA a, b : a > b)
    IN  FoldLeft(LAMBDA acc, p : acc \o SelectSeq(met, LAMBDA e : e.p = p),
                 <<>>, ps)

\* The directory scan's stack: a directory, its name in the one above, the
\* entries still to come and those added.
Frame(dir, name, list) ==
    [dir |-> dir, name |-> name, left |-> list, buf |-> <<>>]

NoProc == [interrupted |-> 0, restoring |-> FALSE, be |-> FALSE, number |-> <<>>, parent |-> 0,
           refs |-> [i \in Inos |-> NoRef], walk |-> <<>>, queue |-> <<>>]

-----------------------------------------------------------------------------
(***************************************************************************)
(* The tables in memory.  A table is a list of full blocks, of which the   *)
(* first inode_bytes (directory_bytes) count, and a cache of what does not *)
(* fill a block yet.                                                       *)
(***************************************************************************)
NoMem == [bytes |-> 1, inode_bytes |-> 0, inode_table |-> <<>>,
          data_cache |-> <<>>, directory_bytes |-> 0, directory_table |-> <<>>,
          directory_cache |-> <<>>, uids |-> <<>>, gids |-> <<>>,
          inode_count |-> 0, fragments |-> 0, fragment_table |-> <<>>,
          fragment_data |-> <<>>, dupl |-> <<>>]

\* The blocks of a table from block n on, counted from 0, replaced or added.
PutBlocks(table, n, blocks) ==
    [i \in 1 .. (IF n + Len(blocks) > Len(table) THEN n + Len(blocks) ELSE Len(table)) |->
        IF n < i /\ i =< n + Len(blocks) THEN blocks[i - n] ELSE table[i]]

Chunks(seq, size) ==
    [i \in 1 .. ((Len(seq) + size - 1) \div size) |->
        SubSeq(seq, (i - 1) * size + 1,
               IF i * size < Len(seq) THEN i * size ELSE Len(seq))]

\* Mutant of InodeFlushed: the cache is never emptied.
NeverFlushed(m) == m

\* get_inode: a full cache moves to the table before it takes the next inode.
InodeFlushed(m) ==
    IF Len(m.data_cache) < MetaInodes THEN m
    ELSE [m EXCEPT !.inode_table = PutBlocks(@, m.inode_bytes,
                                     <<SubSeq(m.data_cache, 1, MetaInodes)>>),
                   !.inode_bytes = @ + 1,
                   !.data_cache = SubSeq(@, MetaInodes + 1, Len(@))]

\* get_uid and get_guid: places in the owner and group tables.
PlaceIfIn(table, id) ==
    IF id \in ToSet(table) THEN PlaceOf(table, id)
    ELSE IF Len(table) = MaxUids THEN 1 ELSE Len(table) + 1

get_uid(m, i) == PlaceIfIn(m.uids, Host[i].uid)

get_guid(m, i) ==
    IF Host[i].uid = Host[i].gid \/
       (Host[i].gid \notin ToSet(m.gids) /\ Len(m.gids) = MaxUids)
    THEN SameAsUid
    ELSE PlaceIfIn(m.gids, Host[i].gid)

WithOwner(m, i) ==
    [m EXCEPT !.uids = IF get_uid(m, i) > Len(@) THEN Append(@, Host[i].uid) ELSE @,
              !.gids = IF get_guid(m, i) > Len(@) THEN Append(@, Host[i].gid) ELSE @]

\* create_inode(inode) of the host's i; the inode's place is RefAfter(m).
create_inode(m, i, inode) ==
    LET f == InodeFlushed(WithOwner(m, i))
    IN  [f EXCEPT !.data_cache = Append(@, inode), !.inode_count = @ + 1]

RefAfter(m) ==
    LET f == InodeFlushed(m) IN InodeRef(f.inode_bytes, Len(f.data_cache))

\* add_dir: a header covers the entries whose inodes share a block.
add_dir(buf, name, ref, number, type) ==
    LET last == buf[Len(buf)]
        base == IF buf # <<>> /\ last.ref.block = ref.block
                THEN last.base ELSE number
    IN  Append(buf, DirEntry(name, ref, number - base, base, type))

\* write_dir: the entries go to the cache, and full blocks to the table.
write_dir(m, buf) ==
    LET all  == m.directory_cache \o buf
        full == Len(all) \div MetaEntries
    IN  [m EXCEPT !.directory_table =
                    PutBlocks(@, m.directory_bytes,
                              Chunks(SubSeq(all, 1, full * MetaEntries), MetaEntries)),
                  !.directory_bytes = @ + full,
                  !.directory_cache = SubSeq(all, full * MetaEntries + 1, Len(all))]

-----------------------------------------------------------------------------
(***************************************************************************)
(* Data, fragments and duplicates.                                         *)
(***************************************************************************)

\* write_fragment: the block of tails goes to the image.
FragmentDisk(d, m) ==
    IF m.fragment_data = <<>> THEN d
    ELSE Written(d, m.bytes, <<TailBlock(m.fragment_data)>>)

FragmentMem(m) ==
    IF m.fragment_data = <<>> THEN m
    ELSE [m EXCEPT !.fragment_table =
                     Append(SubSeq(@, 1, m.fragments), m.bytes),
                   !.bytes = @ + 1, !.fragments = @ + 1, !.fragment_data = <<>>]

\* get_and_fill_fragment writes it when the next tail does not fit.
TailFits(m, tail) == tail = NoTail \/ Len(m.fragment_data) < FragTails

\* get_fragment, or the block being filled.
DuplicateTail(d, m, e) ==
    IF e.frag = m.fragments
    THEN IF e.offset < Len(m.fragment_data) THEN m.fragment_data[e.offset + 1]
         ELSE NoTail
    ELSE TailAt(d, m.fragment_table[e.frag + 1], e.offset)

\* Mutant of SameData: equal sizes and checksums are enough.
SameSize(d, m, e, c) ==
    e.blocks = Len(c.blocks) /\ e.tail = (c.tail # NoTail)

\* duplicate(): files of the same length, whose checksums may agree, are
\* compared with what the image holds for the earlier one.
SameData(d, m, e, c) ==
    /\ e.blocks = Len(c.blocks) /\ e.tail = (c.tail # NoTail)
    /\ \A n \in 1 .. Len(c.blocks) :
            BlockAt(d, e.start + n - 1) = DataBlock(c.blocks[n])
    /\ e.tail => DuplicateTail(d, m, e) = c.tail

DuplicatesOf(d, m, c) ==
    IF DuplicateCheck
    THEN {n \in DOMAIN m.dupl : SameData(d, m, m.dupl[n], c)} ELSE {}

\* The lists are searched from the newest entry.
Newest(ns) == CHOOSE n \in ns : \A k \in ns : k =< n

FileInfo(blocks, tail, start, frag, offset) ==
    [blocks |-> blocks, tail |-> tail, start |-> start, frag |-> frag,
     offset |-> offset]

\* The inode of file i whose data are described by e.
FileInodeOf(m, i, e) ==
    FileInode(proc.number.of[i], get_uid(m, i), get_guid(m, i), e.start,
              e.blocks, e.frag, e.offset)

\* A new file: data, then the tail in a block of tails.
NewFile(m, c, start) ==
    FileInfo(Len(c.blocks), c.tail # NoTail, start,
             IF c.tail = NoTail THEN NoFrag ELSE m.fragments,
             IF c.tail = NoTail THEN 0 ELSE Len(m.fragment_data))

(***************************************************************************)
(* write_file(i): d and m are the destination and the tables afterwards.   *)
(* whole says whether the file fits into memory.  If it does not, its      *)
(* blocks are written before they are compared, and taken back when they   *)
(* turn out to be duplicates: the position to go back to is the variable   *)
(* start, which duplicate() has set to the earlier file's start.           *)
(***************************************************************************)
AfterBlocks(d, m, c) == Written(d, m.bytes, [n \in 1 .. Len(c.blocks) |-> DataBlock(c.blocks[n])])

Rewound(m, e) == e.start

DuplicateFile(d, m, i, e, whole) ==
    [disk |-> IF whole THEN d
              ELSE IF BlockDevice THEN AfterBlocks(d, m, content[i])
              ELSE Truncated(AfterBlocks(d, m, content[i]), Rewound(m, e)),
     mem  |-> create_inode(IF whole THEN m ELSE [m EXCEPT !.bytes = Rewound(m, e)],
                           i, FileInodeOf(m, i, e))]

StoredFile(d, m, i) ==
    LET c  == content[i]
        m1 == [m EXCEPT !.bytes = @ + Len(c.blocks)]
        d1 == AfterBlocks(d, m, c)
        m2 == IF TailFits(m1, c.tail) THEN m1 ELSE FragmentMem(m1)
        d2 == IF TailFits(m1, c.tail) THEN d1 ELSE FragmentDisk(d1, m1)
        e  == NewFile(m2, c, m.bytes)
        m3 == [m2 EXCEPT !.fragment_data =
                             IF c.tail = NoTail THEN @ ELSE Append(@, c.tail),
                         !.dupl = IF DuplicateCheck THEN Append(@, e) ELSE @]
    IN  [disk |-> d2, mem |-> create_inode(m3, i, FileInodeOf(m3, i, e))]

write_file(i, whole) ==
    LET found == DuplicatesOf(IF whole THEN disk ELSE AfterBlocks(disk, mem, content[i]),
                              mem, content[i])
    IN  IF found = {} THEN StoredFile(disk, mem, i)
        ELSE DuplicateFile(disk, mem, i, mem.dupl[Newest(found)], whole)

\* Mutant of Wholes: the buffer is too small for any file.
NeverWhole(i) == {FALSE}

\* malloc fails for a large file only.
Wholes(i) == {TRUE} \cup (IF Len(content[i].blocks) >= BigFile THEN {FALSE} ELSE {})

-----------------------------------------------------------------------------
(***************************************************************************)
(* read_filesystem: what an append takes over from the image.              *)
(***************************************************************************)
RootInode(d) == Inodes(d)[InodePlace(d, d.super.root)]

Readable(d) ==
    /\ d.exists /\ d.super.magic
    /\ InodePlace(d, d.super.root) \in 2 .. Len(Inodes(d))
    /\ RootInode(d).type = "dir"

\* squashfs_readdir reads the root's directory from its first block on, as far
\* as it goes; last_directory_block is the block it has read last.
RootContent(d) ==
    LET r == RootInode(d)
    IN  SubSeq(Entries(d), EntryPlace(d, r.start, 0),
               EntryPlace(d, r.start, 0) + r.offset + r.size - 1)

LastDirectoryBlock(d) ==
    LET n == Len(RootContent(d))
    IN  RootInode(d).start + (IF n = 0 THEN 0 ELSE (n - 1) \div MetaEntries)

\* push_directory_entry is given the stored distance as the inode number.
OldEntries(d) ==
    LET es == EntriesOf(d, RootInode(d))
    IN  [n \in 1 .. Len(es) |-> [es[n] EXCEPT !.base = 0]]

\* The whole old root as one entry, when it becomes a directory of the new.
OldRoot(d) ==
    <<DirEntry(RootName, d.super.root, RootInode(d).number, 0, "dir")>>

\* add_file: a file goes to the duplicate lists unless an equal one is there.
\* fragments is still 0, so that block 0 of the tails is taken for the buffer,
\* which holds the file's own.
KnownTail(d, inode, e) ==
    TailAt(d, FragTable(d)[(IF e.frag = 0 THEN inode.frag ELSE e.frag) + 1],
           e.offset)

SameFile(d, inode, e) ==
    /\ e.blocks = inode.size /\ e.tail = (inode.frag # NoFrag)
    /\ \A n \in 0 .. inode.size - 1 :
            BlockAt(d, e.start + n) = BlockAt(d, inode.start + n)
    /\ e.tail => KnownTail(d, inode, e)
                    = TailAt(d, FragTable(d)[inode.frag + 1], inode.offset)

add_file(d, dupl, inode) ==
    IF \E n \in DOMAIN dupl : SameFile(d, inode, dupl[n]) THEN dupl
    ELSE Append(dupl, FileInfo(inode.size, inode.frag # NoFrag, inode.start,
                               inode.frag, inode.offset))

\* scan_inode_table: so does every file before the root.
OldFiles(d) ==
    FoldLeft(LAMBDA dupl, i : IF i.type = "file" THEN add_file(d, dupl, i) ELSE dupl,
             <<>>, SubSeq(Inodes(d), 1, InodePlace(d, d.super.root) - 1))

\* The image's tables, cut off at the last block of each; the caches hold the
\* rest: all of it, which is also what is saved for a restore.
ReadMem(d) ==
    LET root == d.super.root
        r    == RootInode(d)
        all  == RootContent(d)
    IN  [NoMem EXCEPT
            !.bytes = d.super.inode_table_start,
            !.inode_bytes = root.block,
            !.inode_table = [n \in 1 .. root.block |->
                Decoded(d, d.super.inode_table_start + n - 1, "inodes", d.super.be)],
            !.data_cache = SubSeq(Inodes(d), InodePlace(d, root) - root.offset,
                                  InodePlace(d, root)),
            !.directory_bytes = LastDirectoryBlock(d),
            !.directory_table = [n \in 1 .. LastDirectoryBlock(d) |->
                Decoded(d, d.super.directory_table_start + n - 1, "entries",
                        d.super.be)],
            !.directory_cache = SubSeq(all, (Len(all) \div MetaEntries) * MetaEntries + 1,
                                       Len(all)),
            !.uids = OwnerTable(d),
            !.gids = Decoded(d, d.super.uid_start + 1, "gids", d.super.be),
            !.inode_count = InodePlace(d, root),
            !.fragments = d.super.fragments,
            !.fragment_table = FragTable(d),
            !.dupl = IF DuplicateCheck THEN OldFiles(d) ELSE <<>>]

\* To append to the root, its inode and its directory are written again;
\* below a new root they stay.
AppendMem(d, m, mode) ==
    IF mode = "becomes" THEN m
    ELSE [m EXCEPT !.data_cache = SubSeq(@, 1, Len(@) - 1),
                   !.inode_count = @ - 1,
                   !.directory_bytes = RootInode(d).start,
                   !.directory_cache = SubSeq(RootContent(d), 1, RootInode(d).offset)]

-----------------------------------------------------------------------------
(* main, up to dir_scan.                                                   *)

NoSave == [restore |-> FALSE, mem |-> NoMem]

\* The scan begins at the source directory, with the entries of the old root.
BeginScan(dir, olds, number, parent, be, sorted) ==
    /\ phase' = IF sorted THEN "sort" ELSE "scan"
    /\ proc' = [interrupted |-> 0, restoring |-> FALSE, be |-> be,
                number |-> number, parent |-> parent, refs |-> [i \in Inos |-> NoRef],
                walk |-> <<Frame(dir, <<0, 0>>, TopList(dir, olds))>>,
                queue |-> IF sorted THEN SortQueue(dir) ELSE <<>>]

\* -noappend, or no destination yet: it is created or truncated, but a block
\* device keeps what is on it.
Create(be, sorted) ==
    LET dir     == Sources[run + 1]
        numbers == Numbers(dir, 1, 0)
    IN  /\ phase = "idle" /\ run < Len(Sources)
        /\ "create" \in Modes \/ ~disk.exists
        /\ disk' = IF BlockDevice THEN [disk EXCEPT !.exists = TRUE] ELSE EmptyDisk
        /\ mem' = NoMem /\ sb' = NoSuper /\ save' = NoSave
        /\ BeginScan(dir, <<>>, numbers, numbers.next, be, sorted)
        /\ run' = run + 1 /\ origin' = disk
        /\ UNCHANGED <<content, signals>>

\* Appending takes the byte order of the image; its magic number is erased
\* until the new super block is written.
AppendTo(mode, sorted) ==
    LET dir     == Sources[run + 1]
        old     == RootInode(disk)
        m       == ReadMem(disk)
        numbers == IF mode = "becomes"
                   THEN Numbers(dir, disk.super.inodes + 2, old.parent)
                   ELSE Numbers(dir, disk.super.inodes + 1, old.number)
    IN  /\ phase = "idle" /\ run < Len(Sources) /\ mode \in Modes
        /\ Readable(disk)
        /\ disk' = [disk EXCEPT !.super.magic = FALSE]
        /\ mem' = AppendMem(disk, m, mode)
        /\ sb' = disk.super
        /\ save' = [restore |-> TRUE, mem |-> m]
        /\ BeginScan(dir, IF mode = "becomes" THEN OldRoot(disk) ELSE OldEntries(disk),
                     numbers, numbers.next, disk.super.be, sorted)
        /\ run' = run + 1 /\ origin' = disk
        /\ UNCHANGED <<content, signals>>

\* "Failed to read existing filesystem - will not overwrite - ABORTING!"
Refused ==
    /\ phase = "idle" /\ run < Len(Sources) /\ Modes # {"create"}
    /\ disk.exists /\ ~Readable(disk)
    /\ run' = run + 1 /\ origin' = disk
    /\ UNCHANGED <<disk, content, phase, mem, proc, sb, save, signals>>

-----------------------------------------------------------------------------
(* The scan: dir_scan2, with write_file for the regular files.             *)

Top == Head(proc.walk)
Step(walk) == proc' = [proc EXCEPT !.walk = walk]

\* The top frame without its first entry, which is added when added is TRUE.
Taken(ref, type, added) ==
    LET e == Head(Top.left)
        n == IF e.old # NotOld THEN e.old.delta
             ELSE proc.number.of[e.ino]
    IN  <<[Top EXCEPT !.left = Tail(@),
                      !.buf = IF added THEN add_dir(@, e.name, ref, n, type) ELSE @]>>
        \o Tail(proc.walk)

Scanning == phase = "scan" /\ proc.walk # <<>>
NextIs(type) ==
    /\ Scanning /\ Top.left # <<>>
    /\ Head(Top.left).old = NotOld
    /\ Head(Top.left).ino \in {i \in Inos : Host[i].type = type}

\* sort_files_and_write: the files of the sort list are written first.
sort_files_and_write ==
    /\ phase = "sort"
    /\ IF proc.queue = <<>>
       THEN phase' = "scan" /\ UNCHANGED <<disk, mem, proc>>
       ELSE \E i \in Files :
                /\ i = Head(proc.queue).ino /\ phase' = phase
                /\ \/ /\ proc.refs[i] = NoRef /\ content[i].readable
                      /\ \E whole \in Wholes(i) :
                            /\ disk' = write_file(i, whole).disk
                            /\ mem' = write_file(i, whole).mem
                      /\ proc' = [proc EXCEPT !.queue = Tail(@),
                                              !.refs[i] = RefAfter(mem)]
                   \/ /\ proc.refs[i] # NoRef \/ ~content[i].readable
                      /\ proc' = [proc EXCEPT !.queue = Tail(@)]
                      /\ UNCHANGED <<disk, mem>>
    /\ UNCHANGED <<content, run, sb, save, signals, origin>>

\* An entry of the old root keeps its inode.
ScanOld ==
    /\ Scanning /\ Top.left # <<>> /\ Head(Top.left).old # NotOld
    /\ Step(Taken(Head(Top.left).old.ref, Head(Top.left).old.type, TRUE))
    /\ UNCHANGED <<disk, content, run, phase, mem, sb, save, signals, origin>>

\* A further name of an inode that is in the image, or a sorted file.
ScanLink ==
    /\ Scanning /\ Top.left # <<>> /\ Head(Top.left).old = NotOld
    /\ LET i == Head(Top.left).ino
       IN  /\ proc.refs[i] # NoRef
           /\ Step(Taken(proc.refs[i], Host[i].type, TRUE))
    /\ UNCHANGED <<disk, content, run, phase, mem, sb, save, signals, origin>>

ScanFile ==
    /\ NextIs("file")
    /\ LET i == Head(Top.left).ino
       IN  /\ proc.refs[i] = NoRef /\ content[i].readable
           /\ \E whole \in Wholes(i) :
                /\ disk' = write_file(i, whole).disk
                /\ mem' = write_file(i, whole).mem
           /\ proc' = [proc EXCEPT !.walk = Taken(RefAfter(mem), "file", TRUE),
                                   !.refs[i] = RefAfter(mem)]
    /\ UNCHANGED <<content, run, phase, sb, save, signals, origin>>

\* "Error in reading file, skipping...": the name is left out.
ScanUnreadable ==
    /\ NextIs("file") /\ ~content[Head(Top.left).ino].readable
    /\ Step(Taken(NoRef, "file", FALSE))
    /\ UNCHANGED <<disk, content, run, phase, mem, sb, save, signals, origin>>

ScanOther ==
    /\ Scanning /\ Top.left # <<>> /\ Head(Top.left).old = NotOld
    /\ LET i == Head(Top.left).ino
       IN  /\ Host[i].type \notin {"file", "dir"} /\ proc.refs[i] = NoRef
           /\ mem' = create_inode(mem, i, OtherInode(Host[i].type,
                        proc.number.of[i], get_uid(mem, i), get_guid(mem, i)))
           /\ proc' = [proc EXCEPT !.walk = Taken(RefAfter(mem), Host[i].type, TRUE),
                                   !.refs[i] = RefAfter(mem)]
    /\ UNCHANGED <<disk, content, run, phase, sb, save, signals, origin>>

ScanDirectory ==
    /\ NextIs("dir") /\ proc.refs[Head(Top.left).ino] = NoRef
    /\ LET e == Head(Top.left)
       IN  Step(<<Frame(e.ino, e.name, Scanned(e.ino))>> \o proc.walk)
    /\ UNCHANGED <<disk, content, run, phase, mem, sb, save, signals, origin>>

\* The end of a directory: its entries, then its inode, then its own entry in
\* the directory above.
CloseDirectory ==
    LET m == write_dir(mem, Top.buf)
        i == Top.dir
        parent == IF Len(proc.walk) = 1 THEN proc.parent
                  ELSE proc.number.of[proc.walk[2].dir]
        above == proc.walk[2]
    IN  /\ Scanning /\ Top.left = <<>>
        /\ mem' = create_inode(m, i, DirInode(proc.number.of[i], get_uid(m, i),
                    get_guid(m, i), mem.directory_bytes,
                    Len(mem.directory_cache), Len(Top.buf), parent))
        /\ proc' = [proc EXCEPT
                !.refs[i] = RefAfter(m),
                !.walk = IF Len(@) = 1 THEN <<>>
                         ELSE <<[above EXCEPT !.left = Tail(@),
                                 !.buf = add_dir(@, Top.name, RefAfter(m),
                                                 proc.number.of[i], "dir")]>>
                              \o SubSeq(@, 3, Len(@))]
        /\ UNCHANGED <<disk, content, run, phase, sb, save, signals, origin>>

\* main: the fields of the super block that the scan decides.
SuperFields ==
    /\ phase = "scan" /\ proc.walk = <<>>
    /\ sb' = [sb EXCEPT !.magic = TRUE, !.be = proc.be,
                        !.root = proc.refs[Sources[run]],
                        !.inodes = mem.inode_count]
    /\ phase' = "close"
    /\ UNCHANGED <<disk, content, run, mem, proc, save, signals, origin>>

-----------------------------------------------------------------------------
(***************************************************************************)
(* main, from restore_filesystem on: the tables behind the data, and the   *)
(* super block last.                                                       *)
(***************************************************************************)
Meta(kind, blocks) == [n \in 1 .. Len(blocks) |-> Block(kind, proc.be, blocks[n])]

\* write_fragment, for the tails that are left.
LastFragment ==
    /\ phase = "close" /\ phase' = "inodes"
    /\ disk' = FragmentDisk(disk, mem)
    /\ mem' = FragmentMem(mem)
    /\ sb' = [sb EXCEPT !.fragments = mem'.fragments]
    /\ UNCHANGED <<content, run, proc, save, signals, origin>>

write_inodes ==
    LET rest  == Chunks(mem.data_cache, MetaInodes)
        count == mem.inode_bytes + Len(rest)
    IN  /\ phase = "inodes" /\ phase' = "directories"
        /\ mem' = [mem EXCEPT !.bytes = @ + count, !.inode_bytes = count,
                              !.inode_table = PutBlocks(@, mem.inode_bytes, rest),
                              !.data_cache = <<>>]
        /\ disk' = Written(disk, mem.bytes,
                           Meta("inodes", SubSeq(mem'.inode_table, 1, count)))
        /\ sb' = [sb EXCEPT !.inode_table_start = mem.bytes]
        /\ UNCHANGED <<content, run, proc, save, signals, origin>>

write_directories ==
    LET rest  == Chunks(mem.directory_cache, MetaEntries)
        count == mem.directory_bytes + Len(rest)
    IN  /\ phase = "directories" /\ phase' = "frags"
        /\ mem' = [mem EXCEPT !.bytes = @ + count, !.directory_bytes = count,
                              !.directory_table = PutBlocks(@, mem.directory_bytes, rest),
                              !.directory_cache = <<>>]
        /\ disk' = Written(disk, mem.bytes,
                           Meta("entries", SubSeq(mem'.directory_table, 1, count)))
        /\ sb' = [sb EXCEPT !.directory_table_start = mem.bytes]
        /\ UNCHANGED <<content, run, proc, save, signals, origin>>

\* Mutant of FragsIn: every metadata block gets the remainder.
AlwaysRemainder(n) ==
    SubSeq(mem.fragment_table, (n - 1) * MetaFrags + 1,
           (n - 1) * MetaFrags + (mem.fragments % MetaFrags))

\* The last metadata block gets the remainder of the division, which is none
\* when the positions fill it exactly.
FragsIn(n) ==
    IF n = FragIndexes(mem.fragments)
    THEN SubSeq(mem.fragment_table, (n - 1) * MetaFrags + 1,
                (n - 1) * MetaFrags + (mem.fragments % MetaFrags))
    ELSE SubSeq(mem.fragment_table, (n - 1) * MetaFrags + 1, n * MetaFrags)

write_fragment_table ==
    LET count  == FragIndexes(mem.fragments)
        blocks == Meta("frags", [n \in 1 .. count |-> FragsIn(n)])
        index  == Meta("index", <<[n \in 1 .. count |-> mem.bytes + n - 1]>>)
    IN  /\ phase = "frags" /\ phase' = "ids"
        /\ disk' = IF count = 0 THEN disk
                   ELSE Written(disk, mem.bytes, blocks \o index)
        /\ mem' = [mem EXCEPT !.bytes = IF count = 0 THEN @ ELSE @ + count + 1]
        /\ sb' = [sb EXCEPT !.fragment_table_start = mem.bytes + count]
        /\ UNCHANGED <<content, run, proc, save, signals, origin>>

WriteIds ==
    LET tables == Meta("uids", <<mem.uids>>)
                    \o (IF mem.gids = <<>> THEN <<>> ELSE Meta("gids", <<mem.gids>>))
    IN  /\ phase = "ids" /\ phase' = "super"
        /\ disk' = Written(disk, mem.bytes, tables)
        /\ mem' = [mem EXCEPT !.bytes = @ + Len(tables)]
        /\ sb' = [sb EXCEPT !.uid_start = mem.bytes, !.no_uids = Len(mem.uids),
                            !.no_guids = Len(mem.gids)]
        /\ UNCHANGED <<content, run, proc, save, signals, origin>>

\* The process ends: nothing of its memory is left.
Ends == /\ phase' = "idle" /\ mem' = NoMem /\ proc' = NoProc
        /\ sb' = NoSuper /\ save' = NoSave

WriteSuper ==
    /\ phase = "super" /\ Ends
    /\ disk' = [disk EXCEPT !.super = sb]
    /\ UNCHANGED <<content, run, signals, origin>>

-----------------------------------------------------------------------------
(* Signals, write errors and a killed process.                             *)

\* restorefs: back to the saved counters; the tables' blocks are still those
\* of this run, of which the saved counters say how many count.
Restored ==
    [save.mem EXCEPT !.inode_table = mem.inode_table,
                     !.directory_table = mem.directory_table,
                     !.fragment_table = mem.fragment_table,
                     !.dupl = mem.dupl]

restorefs ==
    /\ mem' = Restored
    /\ phase' = "close"
    /\ proc' = [proc EXCEPT !.walk = <<>>, !.queue = <<>>, !.restoring = TRUE]
    /\ UNCHANGED <<disk, content, run, sb, save, origin>>

\* EXIT_MKSQUASHFS without a saved state: a new file is removed.
GivesUp ==
    /\ Ends
    /\ disk' = IF BlockDevice THEN disk ELSE NoDisk
    /\ UNCHANGED <<content, run, origin>>

\* The bound on when they come; a restore may be interrupted at any time.
Interruptible ==
    /\ signals < MaxSignals
    /\ phase \in SignalPhases \/ (proc.restoring /\ phase # "idle")

\* sighandler and sighandler2: an append ends with the second signal.
Signal ==
    /\ Interruptible
    /\ signals' = signals + 1
    /\ IF ~save.restore THEN GivesUp
       ELSE IF proc.interrupted = 1 THEN restorefs
       ELSE /\ proc' = [proc EXCEPT !.interrupted = 1]
            /\ UNCHANGED <<disk, content, run, phase, mem, sb, save, origin>>

\* write_bytes fails, or memory runs out: EXIT_MKSQUASHFS at once.
Failure ==
    /\ Interruptible
    /\ signals' = signals + 1
    /\ IF save.restore THEN restorefs ELSE GivesUp

Killed ==
    /\ Kills /\ phase # "idle" /\ Ends
    /\ UNCHANGED <<disk, content, run, signals, origin>>

-----------------------------------------------------------------------------
Init ==
    /\ disk = NoDisk
    /\ content \in [Files -> Contents]
    /\ run = 0 /\ phase = "idle" /\ signals = 0
    /\ mem = NoMem /\ proc = NoProc /\ sb = NoSuper /\ save = NoSave
    /\ origin = NoDisk

Next ==
    \/ \E be \in Orders, sorted \in Sortings : Create(be, sorted)
    \/ \E mode \in {"append", "becomes"}, sorted \in Sortings : AppendTo(mode, sorted)
    \/ Refused
    \/ sort_files_and_write
    \/ ScanOld \/ ScanLink \/ ScanFile \/ ScanUnreadable \/ ScanOther
    \/ ScanDirectory \/ CloseDirectory \/ SuperFields
    \/ LastFragment \/ write_inodes \/ write_directories
    \/ write_fragment_table \/ WriteIds \/ WriteSuper
    \/ Signal \/ Failure \/ Killed

Spec == Init /\ [][Next]_vars

-----------------------------------------------------------------------------
(***************************************************************************)
(* Properties                                                              *)
(***************************************************************************)

\* The types: caches never outgrow a block, nor the owner tables theirs.
SquashTypeOK ==
    /\ \A p \in DOMAIN disk.blk :
            BlockKind(disk.blk[p]) \in {"unwritten", "data", "tails", "inodes",
                "entries", "frags", "index", "uids", "gids"}
    /\ phase \in AllPhases \cup {"idle"} /\ run \in 0 .. Len(Sources)
    /\ mem.bytes >= 1 /\ signals \in 0 .. MaxSignals
    /\ Len(mem.fragment_data) =< FragTails
    /\ Len(mem.data_cache) =< MetaInodes /\ Len(mem.directory_cache) =< MetaEntries
    /\ Len(mem.uids) =< MaxUids /\ Len(mem.gids) =< MaxUids

\* The files that an append finds in the image keep their data where they
\* are, whatever it writes and however it ends.
OldDataKept ==
    save.restore =>
        \A p \in 1 .. save.mem.bytes - 1 : BlockAt(disk, p) = BlockAt(origin, p)
=============================================================================
