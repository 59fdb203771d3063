# Verification of the live CD's union file system and its packer

The repository builds a live CD: a kernel boots into a small ramfs
(`src/base/ramfs/init`), finds the CD's data, and mounts a **union** of an
empty tmpfs (writable) and many packed squashfs modules (read-only) as its root
file system. Everything a user then does goes through the Unionfs 1.3 kernel
module in `src/unionfs-1.3`, and every module, also the one that saves a
session, is written by `src/squashfs-tools/mksquashfs.c`. These two are where
the system's own core logic is, and they are what the project models.

## Inventory

| part | state it keeps | operations | what makes it hard | what makes it correct |
|---|---|---|---|---|
| **Lookup** (`lookup.c`) | per dentry: `bstart`, `bend`, `bopaque`, one pointer per branch | full, partial, revalidating lookup | whiteouts and opaque directories in any branch, files and directories of one name | a walk finds exactly the merged view |
| **Name-space operations** (`inode.c`, `unlink.c`, `dirhelper.c`, `subr.c`) | the lower branches, the dentries | create, mknod, symlink, mkdir, unlink, rmdir, setattr, link, rename | several lower writes per call, any may fail; the loops to the left over read-only branches | a call that succeeds has its effect, one that fails has none; lower trees stay consistent |
| **Copyup** (`copyup.c`) | as above | `copyup_named_dentry`, `create_parents_named` | the ancestors are built on the fly and the cached dentries told | nothing is lost, read-only branches are untouched |
| **Dentry cache** (VFS, `dentry.c`) | hashed dentries, references | walk, prune, hold, `d_revalidate` | dentries outlive the operations that filled them in | a cached dentry agrees with the branches |
| **Branch management** (`branchman.c`, `super.c`) | branch table, generation, putmaps | add, delete, re-mode, incgen | files of older generations release branches by old indices | a branch in use is not removed; counts balance |
| **Open files** (`commonfops.c`, `file.c`) | per file: lower files, generation | open, revalidate, copyup of open and deleted files, release | delayed copyup, branch changes while open | a file keeps its object |
| **Directory reading** (`dirfops.c`, `rdstate.c`) | rdstate: names seen, cookie, offset | readdir, seek, release | state is cached between opens by cookie | every visible name once |
| **Rename** (`rename.c`) | as name-space operations | rename over branches, revert | many lower writes, revert of some | atomic for the user or reverted |
| **Persistent inode maps** (`persistent_inode.c`) | on-disk tables | read, write, get | only with `UNIONFS_IMAP` | a number names one object |
| **Boot** (`base/ramfs/init`, `liblinuxlive`) | mounts | find data, mount modules, copy to RAM, change root | a failing step in the middle, order of modules | the union is made of exactly the wanted modules |
| **Packer** (`squashfs-tools`) | the image: data, fragments, inode, directory, fragment and owner tables, super block; in memory a second copy of the tables | create, append, restore, unpack | appending overwrites the old tables; signals jump out of the scan; duplicates are taken back | who unpacks gets the tree asked for, the old one, or none |
| **Build and CD tools** (`compile.sh`, `base/cd-root/tools`) | files | call the packer, mount | sequential scripts | - |

The components interact through shared kernel objects: the VFS hands a dentry
(and its parent's i_mutex) to an inode operation; the operation reads and writes
the dentry's private data and calls the lower file systems; copyup also writes
the dentries of all ancestors; branch management changes the branch table under
all of them and is noticed through generation numbers. The packer and the kernel meet
in the image only.

`imports/` (a home directory, desktop settings, a sample program) is content of
the CD and not part of the system.

## Plan

1. *(done)* `UnionBranch`, `UnionDentry`, `UnionFS`: branches, lookup and the
   name-space operations over a dentry cache; the abstract specification
   `Namespace`; theorems.
2. *(done, except where noted)* `BranchMan`: branch table, generation, putmaps
   and open files (`branchman.c`, `commonfops.c`). Left: copyup of open and
   deleted files, failing lower opens, memory failures and unbalanced locks of
   `addbranch`, and `delbranch` in two steps (it does not take the lock that
   `open` takes).
3. *(done for names of one directory)* `UnionRename` with `AtomicRename`:
   `rename.c` and `link` write by write, with crashes, failures and the revert.
   Left: a rename from one directory to another, which needs `create_parents`
   between the writes.
4. *(done)* `ReadDir`: `dirfops.c` and `rdstate.c` under concurrent changes.
5. *(done)* `SquashImage`, `Mksquashfs`, `Unsquashfs`, composed in `Squash`,
   with `Archive`: packing, appending, interrupts and kills.
6. `DentryLocks`: the semaphores of parent and child dentries in lookup,
   create_parents and rename, and the super block's lock: deadlock freedom
   under the VFS's locks.
7. `Boot`: `init` and `liblinuxlive` as a sequential machine with failing steps.
8. Theorems. *(done)* the counts of `BranchMan`, the scans of `ReadDir`, types,
   `BranchesSound`, `NoBug` and `SourceKept` of `UnionRename`, `BranchesSound` of
   `UnionFS` and with one writable branch its `NoOops`, `NothingLost`,
   `WalkFindsView`, `RmdirTruthful` and the refinement of `Namespace`, and that of
   `AtomicRename`.

## Modules

* `UnionBranch` - the lower trees: per branch the node of every path, the
  whiteouts (`.wh.name`) and the opaque directories (`.wh.__dir_opaque`). Which
  branch may be written is a constant (`Writable`, branch 0 always, as
  `parse_dirs_option` insists). `View` is the merged view, defined from the
  documentation's idea of it: contributing layers of each directory, the
  leftmost unhidden entry wins. It uses none of the code's search.
* `UnionDentry` - a dentry's private data and `unionfs_lookup_backend`, as the
  two functions `Lookup` and `PartialLookup`. A pointer is `null`, `live` (the
  lower dentry of this name) or `dead` (its object was unlinked meanwhile).
* `UnionFS` - the state machine. `fs` are the branches, `dcache` the hashed
  positive dentries, `pinned` those a process holds, `last` the last result
  returned to a user, `oops` that the kernel followed a bad pointer. One action
  per inode operation: `unionfs_lookup`, `unionfs_create`, `unionfs_mknod`,
  `unionfs_symlink`, `unionfs_mkdir`, `unionfs_unlink`, `unionfs_rmdir`,
  `unionfs_setattr`; and the VFS's own `Prune`, `Pin`, `Unpin`.
  `create_parents_named`, `create_whiteout`, `copyup_named_dentry` and
  `check_empty` are operators that the actions use.
* `Namespace` - what any file system promises: a tree in which a call that
  reports success has its effect and one that reports an error none. `UnionFS`
  is checked to implement it with `view <- View(fs)` (property
  `UnixSemantics`).
* `MCUnionFS` - instances: names cut from `/etc`, `/etc/passwd`, `/etc/hosts`,
  `/etc/rc.d`, `/etc/rc.d/rc`.
* `BranchMan` - branches under open files. `sb` is the super block: the list of
  branches (`on`), their counts, the generation, and the putmaps as a function
  on generations instead of an array with an offset. `dentry` holds the cached
  dentry of every name, `file` the open files with the generation and the lower
  objects by position, `walked` the names that path walks have led to and that
  are about to be opened, `deleted` the unlinked names, `oops` that a `BUG_ON`
  or a wild access has stopped the kernel. One action per operation: `Walk`,
  `unionfs_open`, `Use` (read, readdir, flush: all call
  `unionfs_file_revalidate`), `unionfs_file_release`, `Unlink`, the ioctls
  `incgen`, `rdwrbranch`, `addbranch`, each of which revalidates the file it
  comes through first, and `delbranch`, which comes through remount. `Bug` is a
  `BUG_ON` of any of them. The code knows a branch by its position only; the
  model gives it an identity, so that it can say that a position is the right
  one. Here a name's lower objects are fixed (`Has`) and `Lookup` is reduced to
  them: what whiteouts do is `UnionDentry`'s subject.
* `MCBranchMan` - three branches, a directory in two of them, a file in two.
* `UnionRename` - rename and link over the branches of `UnionBranch` and the
  dentries of `UnionDentry`. `pc` and `call` are the program counter and the
  locals of `unionfs_rename`, `unionfs_rename_whiteout`, `do_rename` and
  `unionfs_link`; one action is one write to a branch or one lower call that
  fails: `delete_whiteouts`, `do_rename_unlink` (the destination's whiteout),
  `do_rename`, `unlink_left`, `copyup_create` and `copyup_data`, `make_opaque`,
  `whiteout_source`, `revert_rename`, `link_unlink`, `vfs_link`. `do_rename` is
  reached in three ways (`stage`): first, again after a copyup, and back. A
  directory moves with what the branch holds below it. `Crash` stops the machine
  between any two writes. A path is renamed to its `Twin`, a name of the same
  directory.
* `AtomicRename` - what rename(2) and link(2) promise. The refinement maps
  `view` to the merged view between calls and to the one *before* the call
  during it, so the only step of a call that changes the abstract view is the
  one that returns, or the crash.
* `MCUnionRename` - two names, each a file or a directory with one entry.
* `ReadDir` - reading a directory. `dir[b]` are the slots of a lower directory,
  `table` the branches; `file[u].rd` is an open file's rdstate (cookie, offset,
  branch, position, names seen), `cache` those of the inode; `cookie` and `made`
  count them. `StartCall` to `LowerReturns` are a call of `unionfs_readdir` slot
  by slot, `SeekToStart`, `SeekToCookie` and `Tell` the cases of
  `unionfs_dir_llseek`, `unionfs_file_release` puts the rdstate into the cache
  and `unionfs_write_inode` prunes it. `create`, `unlink`, `copyup` and
  `addbranch` are what happens to the directory, between calls (create and
  unlink hold the i_mutex) or during one. `scan` is history: what a user was
  shown (`got`), what was visible all the time (`steady`), what ever was (`ever`),
  and what had copies on both sides of an inserted whiteout (`split`).
* `MCReadDir` - a tmpfs, a branch without the directory, a module, and a branch
  with whiteouts to insert.
* `SquashImage` - the image down to the position of each block, as the operators
  that read and write it. The unit is a compressed block, and how many inodes or
  entries fit into a metadata block is a constant.
* `Mksquashfs` - the packer. `disk` is the destination, `mem` the variables that
  `restorefs` puts back, `proc` and `sb` those that it does not, `save` the
  saved copy. `Create`, `AppendTo` and `Refused` are `main` up to the scan, then
  one action per directory entry (`ScanFile`, `ScanLink`, ...), one per table
  written, and `WriteSuper` last. `Signal`, `Failure` and `Killed` come between
  them. What is said of the packer alone, `SquashTypeOK` and `OldDataKept`, is at
  its end; what is said of the tree that a reader finds, in `Squash`.
* `Unsquashfs` - what a reader unpacks, as a function of the image.
* `Archive` - what packing promises: a run that is left alone ends with the tree
  it was asked for; one that is broken off (`broken`) ends with the old tree, or
  with an archive nobody takes for a tree.
* `Squash` - `Mksquashfs` and `Unsquashfs` composed: `tree` is what a reader
  would unpack now, and `PacksAnArchive` the refinement of `Archive`. `broken` is
  history: a failure, a kill, or a signal that stops the run or starts its restore
  has come. The warning that an append gives at the first signal breaks nothing
  off: such a run has to finish.
* `MCSquash` - two source trees with hard links, a symbolic link, an excluded
  file, a name that is taken, files that may be duplicates or unreadable, and
  enough tails for a fragment table of two metadata blocks.
* `UnionDentry_proofs`, `UnionFS_proofs`, `UnionView_proofs`,
  `UnionRename_proofs`, `BranchMan_proofs`, `ReadDir_proofs`,
  `ReadDirScans_proofs`, `Mksquashfs_proofs` - theorems.

### What a step is

In `UnionFS` an operation is one step. The VFS holds the i_mutex of the
directory (for rmdir of both directories) during an inode operation, and Unionfs
the semaphores of the dentries it changes. Two operations in one directory
therefore exclude each other. What does interleave are whole operations with
walks, with cache pruning, and with processes that hold dentries, and these are
actions of their own. Operations in two different directories can overlap in
`create_parents`; they are serialised here (the locking of the ancestors is
part 6 of the plan).

In `UnionRename` a step is one write, because a crash may come between two of
them; calls still exclude each other, by the i_mutex and by `double_lock_dentry`.
In `ReadDir` a step is one slot of a lower directory: the union directory's
i_mutex keeps create and unlink out of a call, but not a copyup or a branch
insertion. In `Mksquashfs` a step is one entry of the scan or one table: a
signal handler runs between any two instructions, but what a step has written of
its block is beyond the end that `restorefs` goes back to.

### Failures

`Faults` in `UnionFS` names the lower calls that may run out of space: `create`
(lower create, or the rename of a whiteout to the file), `mknod` (lower mknod,
symlink, mkdir, after the whiteout has gone), `opaque` (the marker of a new
directory), `whiteout` (lower create of a whiteout), `copyup` (creating the
copy), `copydata` (copying its data). Building an ancestor and removing things
do not fail, and neither do memory allocations and permission checks. A failed
call leaves exactly what the code leaves. `UnionRename` has every lower call of
its own among its faults: `unlink`, `rename`, `link`, `copyup`, `copydata`,
`opaque`, `whiteout`.

A crash in `UnionRename` keeps every write made so far and none later (a lower
file system that writes its operations in order), and the union is mounted again
from the branches as they are. In `Mksquashfs` a kill loses the process's memory
and keeps the image as written; the next run finds it. A write error or lack of
memory is `Failure`: `EXIT_MKSQUASHFS`, at once.

`oops` stands in `UnionFS` for two places of `create_parents_named`: a missing
ancestor that exists already gets no pointer, and the next round dereferences
NULL (certain); a pointer to a *file* is searched like a directory (the lower
lookup refuses, or calls through a NULL method: either may happen). In
`UnionRename` and `ReadDir` it stands for their `BUG_ON`s. The system stops then.

## Runs

| run | shows |
|---|---|
| `live_cd` | every pair of trees, contents, opaque directories in the lower branch, faults `create` and `copyup`: types, `WalkFindsView`, `UnixSemantics` |
| `three_layers` | tmpfs over two modules: `WalkFindsView`, `UnixSemantics` |
| `no_opaque_below` | two names with contents in a directory that may be held, no opaque directory in the lower branch, faults `create`, `mknod` and `copyup`: a held dentry may show too much (see below) but never too little, `NothingLost`; and `RmdirTruthful` |
| `held` | all faults, a held dentry, three levels: `CacheSound`, `BranchesSound`, `NoOops`, `ReadOnlyUntouched` |
| `branches` | three branches, two files, four generations: `TypeOK`, `CountsExact`, `OpenBranchesStay`, `PutsFindTheirBranch`, `PutmapsNeeded` |
| `branches_disturbed` | two branches, two files, two generations, with races, refused mode changes and unlinked open files: `CurrentMeansCurrent` |
| `rename` | a tmpfs of any history over a module, a crash between any two writes: `TypeOK`, `NoBug`, `BranchesSound`, `RenameIsAtomic` |
| `rename_faults` | an empty branch over a writable and a read-only one, every lower call may fail, and crashes: `SourceKept`, `ReadOnlyUntouched` |
| `readdir` | two users, three branches and one to insert, buffers of one entry: `TypeOK`, `NoDuplicates`, `NothingMissed`, `NothingInvented`, `CallsReturn` |
| `squash` | two runs in every mode, both byte orders, sorted or not, interrupts, failures, kills: `SquashTypeOK`, `OldDataKept`, `NumbersUnique`, `FragmentsFound`, `PacksAnArchive` |
| `late_interrupt`, `rename_full` | violations, see below |

### Bounds

The runs of `UnionFS` use up to three path names in at most two or three levels
and up to three branches. Two names in one directory, or three levels, are what
the code can tell apart: it handles one parent and one child at a time and
recurses only in `create_parents`, which three levels exercise with two missing
ancestors. Two branches give one layer over another; three are needed for what
happens between a mark and the branch under it. The initial state is **every**
tuple of sound lower trees (`Spec`), or those with an empty first branch, as the
CD boots (`FreshSpec`), so even two steps start from all the histories the
branches may have had. `MaxPins` (0 or 1) bounds the dentries held at one time;
one held directory already outlives the operations on it.

For `branches` four generations (`MaxGen`) are three changes after the mount,
which is what it takes for a file to be led through two later putmaps, and for a
position to go stale and be used. Two handles let one file be old while another
is opened and released; handles are interchangeable, so symmetry is used (no
liveness is checked). Three constants switch on what breaks its properties (see
below): `Racing` (branches change between a walk and its open), `BadModes`
(rdwrbranch refuses), `Unlinking` (open files are unlinked). `branches_disturbed`
has all three on; as the kernel may stop in both runs, deadlock is not checked.

For rename two names with one entry each make every case of the code: source and
destination may be files or directories, empty, whited out, opaque, in one
branch or in several; the destination's instances may lie left and right of the
source's. With `NB = 2` both branches' trees are arbitrary but for marks in the
lower one; `NB = 3` with `Writable = {0, 1}` adds a copyup that fails in one
branch and succeeds in the next, and a revert. Calls follow one another without
a bound. Deadlock is not checked: an empty union, or one that has stopped, has
nothing to rename.

In `readdir`, `Budget = 3` bounds rdstates made and changes together, so that
three scans, or one scan and two changes, or any mixture occur; `MaxRoom = 1`
makes every entry a call of its own; two slots are one name shown and one not,
or a name before or after another. `Chunk = Slots`: a lower call returns the
whole directory. `MaxCookie = 4` is larger than the number of rdstates made.
There is one branch to insert, which whites out either name and has the other,
so that the name it hides lies before or behind the name it shows. The branches
of a union are distinct and the leftmost one is writable and has the directory,
in the run as in the assumption `ReadDirAssumption`: a union's directory that
the leftmost branch lacks is left out. Deadlock is not checked: the budget may
be spent.

In `squash` the blocks are so small (two tails in a fragment, two inodes, three
entries, two fragment positions) that every table is cut. The tables of inodes
and of directory entries also end at a block's end. The fragment table does not:
`Filling` gives the files tails with which an image has one fragment or three,
and so one metadata block of positions or two, but never two fragments. The root
directory that an append finds lies in one metadata block and does not end with
it. The code goes wrong in the cases left out, see the disagreements. Two runs of
the packer are a first image and one append to it,
or to what a kill has left. `MaxSignals = 2` is what an append needs to be
interrupted. Signals come in the sort and scan phases only (later ones are
`late_interrupt`), kills anywhere. `BigFile = 2` makes a file of two blocks one
that may not fit into memory. Deadlock is not checked: all runs end.

### The properties

Of `UnionFS`:

* `WalkFindsView` - a walk through cached dentries finds what the branches hold.
* `NothingLost` - its half that survives held dentries.
* `UnixSemantics` - refinement of `Namespace`.
* `RmdirTruthful` - ENOTEMPTY only for a directory in which the union shows an
  entry.
* `BranchesSound` - lower trees in which every entry has its directory and no
  name is both there and whited out.
* `CacheSound` - the leftmost pointer is there (`dtohd` does not test it), and
  ancestors of cached names are cached.
* `ReadOnlyUntouched` - no step changes a read-only branch.
* `NoOops` - see above.

Of `BranchMan`:

* `CountsExact` - a branch's count is the number of lower files open on it.
  `delbranch` goes by it, and unmounting asserts it.
* `OpenBranchesStay` - no branch goes while a file is open on it.
* `PutsFindTheirBranch` - the putmap of a file's generation is there, and leads
  each of its positions to the branch it has a file on: none of the assertions
  of `branchput_gen` fails.
* `PutmapsNeeded` - a putmap lives only as long as a file of its generation.
* `CurrentMeansCurrent` - a dentry or file of the super block's generation shows
  exactly the present branches.

Of `UnionRename`:

* `RenameIsAtomic` - refinement of `AtomicRename`: the returning step has the
  whole effect or none, and after a crash what was to be moved is found, whole,
  under one of its names.
* `NoBug` - the `BUG_ON`s hold, and no error path follows a missing pointer.
* `BranchesSound` - at every moment, so that every crash leaves branches that
  the next mount can use.
* `SourceKept` - whatever fails, some branch still holds the object.
* `ReadOnlyUntouched` - also while something is taken back.

Of `ReadDir`:

* `NoDuplicates`, `NothingMissed`, `NothingInvented` - a scan, over however many
  calls, opens and closes, shows no name twice, every name that was visible all
  the time, and none that never was. `NothingMissed` has one exception, a name
  with copies in two branches when a third one with its whiteout was inserted
  between them: it stays visible, but the scan may miss it.
* `AllShown` - the same without the exception. It fails, see the disagreements.
* `CallsReturn` - a call that has begun returns.

Of `Squash`:

* `PacksAnArchive` - refinement of `Archive`: only a run that was broken off may
  end otherwise than with the tree asked for.
* `FragmentsFound` - in a finished image each fragment's table entry, looked up as
  the macros of the format do, is the position of a block of tails.
* `OldDataKept` - an append never writes into the data that was there.
* `NumbersUnique` - inode numbers are unique and in the range that readers size
  their tables by.
* `RestoresOriginal` - what an append that is cancelled restores is the old image;
  violated, see below.

### Disagreements between the code and its documentation

Two are runs that must find their property violated.

| run | what the run shows |
|---|---|
| `late_interrupt` | "Interrupting will restore original filesystem!", but once the scan is over the new root and inode count stand in `sBlk`, which `restorefs` does not put back; the restored image has the old tables and the new root |
| `rename_full` | a file of a read-only branch is renamed on a full disk: no whiteout has been looked up when every copyup has failed, and `BUG_ON(!wh_old ...)` stops the kernel |

The others have no run of their own; each is one change away from a run above,
and TLC then reports the property named.

Open files and branches, from `branches.cfg`:

* `Racing = TRUE`, `CountsExact`: a branch is inserted between a path walk and
  its open; the file is counted on the new branch, and later taken off another
  (`commonfops.c:368`).
* `BadModes = TRUE`, `CountsExact`: a refused rdwrbranch has already made a
  putmap, so putmaps and generations are out of step for good, and old files are
  put to wrong branches (`branchman.c:467`).
* `Unlinking = TRUE` with the invariant `NoOops`: open a file, unlink it, change
  a branch, use the file: an unhashed dentry is never revalidated, and
  `BUG_ON(sbgen > dgen)` stops the kernel (`commonfops.c:188`).

Name-space operations, from `live_cd.cfg` unless another is named:

* `Faults = {"copydata"}`, `WalkFindsView`: the disk fills up while a file's data
  is copied; the copy is unlinked but the dentry stays at it, and the file is
  gone until the dentry is pruned (`copyup.c:374`).
* `Faults = {"whiteout"}`, `UnixSemantics`: unlink removes the upper file, fails,
  and the lower one shows through (`unlink.c:137`). With `{"mknod"}` a deleted
  lower object is back after a failed mknod, symlink or mkdir, and with
  `{"opaque"}` mkdir reports an error and the directory is there with the old
  lower contents (`inode.c:586`).
* `no_opaque_below.cfg` with `LowerOpaque = TRUE`, `RmdirTruthful`: rmdir refuses
  an empty directory, because the partial lookup of an opaque directory moves
  `bopaque` to a lower opaque one, and `check_empty` reads branches that are
  hidden (`lookup.c:212`). Modules packed from a changed tmpfs contain opaque
  directories, so the CD meets this. It happens with `three_layers.cfg` too,
  where a whiteout of the directory lies in the last branch. A single opaque
  directory, the directory's own in the first branch, is enough if it is held
  (`MaxPins = 1`): the partial lookup does not ask whether the dentry is opaque
  and adds the branches below it. The pointers stay in the held dentry after the
  refused rmdir, so that hidden names can be found there (`WalkFindsView`), and
  with four names (`rc_d` and `rc` beside `passwd`) a directory below it is
  refused though it shows nothing (`RmdirTruthful`).
* `three_layers.cfg` with `SPECIFICATION Spec`, `Writable = {0, 1}`, `NoOops`: a
  name that is a directory, a file and a directory leads `create_parents` to
  search a file (`lookup.c:198`).
* `three_layers.cfg` with `Writable = {0, 1, 2}`, `UnixSemantics`: unlink removes
  the leftmost copy of a file, writes its whiteout to the right of the next copy,
  and an older file appears (`unlink.c:135`).

Rename, from `rename.cfg` with `SmallBranches` instead of `PlainBranches` in
`SmallInit` (marks in the lower branch too):

* `RenameIsAtomic` and `BranchesSound`: a destination that is hidden by its own
  whiteout is not tested for emptiness (`rename.c:866`), and a directory that
  then cannot be moved is marked opaque and whited out, with the error
  overwritten by the marker's success (`rename.c:256`).
* A lower rename that may fail (`Faults = {"rename"}`) leads to the same line
  after a directory has been copied up, and so does a second writable branch
  (`NB = 3` with `Writable = {0, 1}`): `BranchesSound`.
* `Faults` with any one of `unlink`, `rename`, `copyup`, `copydata`, `opaque`:
  `NoBug`. After each of them `unionfs_rename_whiteout` goes on to a whiteout
  dentry it has already put or never looked up; `rename_full` is the case of
  `copyup`.
* `Faults = {"link"}`: `RenameIsAtomic`. `unionfs_link` removes the whiteout of the new
  name before it links (`inode.c:259`); if the link fails, an older file of that
  name in a lower branch is seen again. `Faults = {"whiteout"}` also: when the
  whiteout of the source cannot be made, the source has moved all the same
  (`rename.c:270`), `EIO` is returned, and an older object is seen under its name.
* With `rename.cfg` as it is, `DestinationStays`: a destination left of the
  source is unlinked before the copy is renamed onto it; rename(2) promises that
  the name is there throughout.

Directories, from `readdir.cfg`:

* `NoBug`: a seek to the start gives the file a new rdstate and leaves `f_pos`; a
  seek by 0 that follows runs into the `BUG_ON` (`dirfops.c:255`).
* `Chunk = 1`, `NothingMissed`: a lower call that brings only names already seen
  ends its branch, though the rest has not been read (`dirfops.c:188`).
* Two branches to insert, `NothingInvented`: the first one has a whiteout and is
  inserted left of the position, where this scan does not look any more; the
  second one has the name and is inserted to the right. The name is shown, though
  it was hidden throughout (`dirfops.c:134`). A proof that did not go through
  found this.
* `MaxCookie = 2`, `NoDuplicates`: cookies wrap while rdstates with the old ones
  live, a user is given another scan's rdstate for his position, and sees names
  again (`rdstate.c:114`). The real limit is 4096 scans of one directory while a
  position is kept.

* `AllShown` among the invariants: a scan stands between the tmpfs and the
  module. `hosts`, still unread in the module, is copied up to the tmpfs, and a
  branch with its whiteout is inserted between the two. The next call notes the
  whiteout and passes over the module's copy (`dirfops.c:55`, `:88`): `hosts` is
  never shown, though it was visible all the time. `regression/readdir.sh:5`
  wants to "see if all appear in the unionfs", and `man/unionfs.4:18` allows
  insertion and deletion of branches "anywhere in the fan-out".

Packing, from `squash.cfg`:

* `MetaFrags = 1`, `FragmentsFound` and `PacksAnArchive`: the positions of the
  fragments fill the last metadata block of their table (512 positions in the
  program, one here). What is written of that block is the remainder of a
  division, 0 (`mksquashfs.c:988`), so it holds none of them, and no reader finds
  these fragments. No run needs to be broken off for it.
* `MetaEntries = 5`, `PacksAnArchive`: the old root directory ends where a
  metadata block does. An append keeps the table up to the block read last,
  without it (`read_fs.c:421`, `mksquashfs.c:2122`), and of that block what a
  division leaves over, nothing (`mksquashfs.c:2111`). The entries are gone when
  the old root becomes a directory of the new one, or when an interrupted append
  has "restored" it.
* `MetaEntries = 4`, `PacksAnArchive`: the old root directory lies in two metadata
  blocks. An append begins where the directory began (`mksquashfs.c:2163`) and
  writes its own entries over the first of them in memory; an interrupt goes back
  to the second (`mksquashfs.c:268`), so the restored image has the old root with
  entries of the new one.

* `Denied` among the contents of file 3 in `MCInit`, `NumbersUnique`: a file that
  cannot be read and is not the one numbered last leaves a gap in the inode
  numbers (`mksquashfs.c:1341`).
* `BigFile = 1`, `PacksAnArchive` and `OldDataKept`: a file that did not fit into
  memory has been written before it is found to be a duplicate, and is taken back
  by `bytes = start` - but `duplicate()` has set `start` to where the *earlier*
  file begins, so everything from there on is truncated and overwritten
  (`mksquashfs.c:1237`). In the run `squash` no file of two blocks is a duplicate.

## Fairness

`readdir` is the one run with fairness: `WF_vars(Kernel(u))` for every user - the
kernel goes on with a call it has begun. A system call runs on its own thread and
holds no lock that another action could keep from it forever (the lower i_mutex
is held by copyup for one step), so this is what any scheduler gives. Nothing is
assumed of users: nobody has to call, seek, close or change anything. The other
modules state safety only: an operation of `UnionFS` is one step, and of the
packer and rename nothing is promised about *when* they end.

## Proofs

No proof assumes more than the named assumptions of the modules, which TLC
evaluates in every run, and what a theorem states as its own hypothesis.

`BranchMan_proofs`, for any sets of branches, names and handles, any bound on
generations and all three switches on or off:

* `GenerationsEnough` - `Spec => []CurrentMeansCurrent`. The invariant adds that
  no dentry or file is ahead of the super block, so that a new generation leaves
  all of them behind, and that the super block is well formed. The lemmas show
  which operators leave branches and generation as they are (everything but the
  ioctls' last step: `Shape`), and for each action that `Inv` is kept.

In the same module, for any branches, names and handles and any bound on
generations, as long as nothing disturbs the union (`Undisturbed`: `Racing`,
`BadModes` and `Unlinking` are off - each alone makes the theorems false, see the
disagreements):

* `CountsAreExact` - `Spec => []CountsExact`
* `PutsAreRight` - `Spec => []PutsFindTheirBranch`
* `NoOpenBranchGoes` - `Spec => []OpenBranchesStay`
* `NoPutmapIsLeft` - `Spec => []PutmapsNeeded`
* `BranchManTypes` - `Spec => []TypeOK`

They share one inductive invariant, `Counts`. Its core, `Good`, relates three
things that the code keeps in three places: a branch's count is the number of
lower files on it, a generation's putmap counts the lower files of that
generation, and where the putmap leads a position (`Leads`) is the branch on
which the file of that position is. `MapsUsed` adds that putmaps whose count has
come to 0 are gone, `WalkGood` that what a path walk has found is still so when
it is opened. A revalidation puts
all lower files of a file and gets them again, so the invariant is shown for the
state between the two as well (`PutGood`, `GetGood`). A count is a cardinality,
and what a put does to it is a fact about the difference of two sets; the
library's lemmas on finite sets do the arithmetic. A new putmap is given the sum
of all branch counts, a fold; that it is the number of files in use is shown by a
smallest set for which it would not be (`WFMin` and the well-founded order of
finite subsets), since an induction theorem cannot be applied.

`UnionFS_proofs`, for every tree of names, any number of branches, any set of
writable ones that contains branch 0, and any faults:

* `TypeCorrect` - `Spec => []TypeOK`. The core of it is that the recomputed
  bounds are always branches: a minimum or maximum over a set that has to be
  shown non-empty, in lookup, partial lookup, `create_parents` and copyup.
* `CacheCorrect` - `Spec => []CacheSound`.
* `ReadOnlySafe` - `Spec => ReadOnlyUntouched`: every lower write, through
  whatever chain of operators, is at a branch that was tested writable.
* `UnionSound` - `Spec => []BranchesSound`, if branch 0 alone may be written
  (`Writable = {0}`, as on the live CD); described below.

The inductive invariant is `Inv`: `fs` is well typed, every cached dentry is a
*good* one (in range, with a leftmost pointer that is not null) and the cache is
closed (ancestors of cached names are cached). Good dentries alone are not
inductive: `create_parents` changes the dentries of the ancestors, so these must
be known to be there; and closedness alone does not bound them. Every action has
a lemma that it keeps `Inv` and leaves read-only branches alone (`Kept`). The
facts about lookups, and about the minimum and maximum of a set of branches, are
in `UnionDentry_proofs`, which the next module uses too.

`UnionSound` adds to `Inv` what the cached dentries know of the branches
(`SoundInv`), since the operations write what the dentries tell them and never
look again: `unlink` makes a whiteout where the dentry starts, `create_parents`
builds the directories for which it has no pointer. `Known` relates each cached
dentry to the dentry of its parent and to the trees:

* nothing is left of where a dentry starts (`Bounded`);
* in branch 0 a missing pointer means a missing name, a pointer there means that
  the parent has one too, and the name is not whited out (`KnownTop`): so what is
  built is neither there already, nor under a whiteout, nor without a directory;
* in the branches below, which never change, the pointers are to everything
  there is up to the last of them (`KnownBelow`): so a later partial lookup only
  adds on the right (`PartialFits`).

`create_parents` changes the dentries of the ancestors as it builds them in branch
0. That they form a gapless chain up to a directory that is there already (`Chain`,
`MissingUp`) is what makes the result a tree. The other half is the name itself:
`Taken` says what `unlink` and `rmdir` have done before their whiteout is made,
and `CopiedUpIs` where a dentry ends up when a copyup succeeds, leaves an empty
file, or fails. For each operation `Rewrites` is what becomes of the dentries
and `Places` what becomes of branch 0; `SoundBy` puts the two together. TLC
checked the parts of `SoundInv` on three levels of names and three branches
before they were proved. The hypothesis is needed: with `NB = 3` and `Writable =
{0, 1}` TLC finds a file of branch 0 whose partial lookup has moved `bopaque` to
the right, so that its unlink makes the whiteout in branch 1, beside the entry
that is there (`unlink.c:135`).

`UnionView_proofs` goes on from there, for any tree of names and any number of
branches of which branch 0 alone may be written:

* `UnionNeverOopses` - `Spec => []NoOops`, for any faults. In
  the kernel `create_parents` follows the pointer in branch 0 of an ancestor
  without asking what it is. That it is not the NULL pointer of a directory which
  is there after all is part of `SoundInv`. That it is not a file's is the
  invariant `Family`. A directory without a pointer in branch 0 gets one from an
  operation on itself, and an rmdir whose whiteout fails points it at a name
  that branch 0 does not have. So `Family` says of every dentry a walk has passed
  through, or may yet, that `check_empty` would find an entry in it: the
  directory holds a name in the branches that are read, visible from there
  (`HoldsSome`), or a directory further up has been removed, which stops
  `create_parents` cleanly (`Blocked`). A dentry with a child in the cache needs
  more than one without (`Parents`, `Ends`), since the child's pointers are what
  keeps the entry in the branches read. TLC finds the oops with `Writable =
  {0, 1}` (see the disagreements).
* `NothingIsLost` - `Spec => []NothingLost`, whatever is held, if of the faults
  `opaque`, `whiteout` and `copydata` do not happen. With any one of them TLC
  finds the property violated on three levels of names: the operation
  reports an error after it has done half its work.
* `WalksFindTheView` - `Spec => []WalkFindsView`, if moreover nothing is held
  (`MaxPins = 0`).
* `UnionIsUnix` - `Spec => UnixSemantics`, if nothing is held and only `create`
  and `copyup` may fail: the refinement of `Namespace`, for every sequence of
  calls from every history of the branches. (A failed `mknod` has removed the
  whiteout already, see the disagreements.)
* `RefusesForCause` - `Spec => RmdirTruthful`, as `WalksFindTheView` and if there
  are two branches and the second one has no opaque directories; with a third
  branch or an opaque directory TLC finds it violated. What is
  held must stay out too: two names under a held directory are refused for cause
  (the run), four are not (see the disagreements).

Their invariant is `SeesInv`. What the code keeps and what the view is made of
have nothing in common: a dentry is filled in once, by a search that stops at the
first whiteout, opaque directory or file, and is edited by every operation since,
while the view is defined by the layers of all its ancestors in the branches as
they are now. `Right` relates the two for one dentry: it starts at the object
that the view has for the name, and the branches in which it leads to a
directory are the layers of that directory (`Agrees`), or if something is held
those and others to their right of which nothing is seen (`Shows`). That a
lookup in a right directory gives a right dentry is `LookupSees`, by case on what
ends the search. For the operations the argument goes the other way round: all of
them change branch 0 alone, which is never hidden (`TopLayer`, `TopDecides`), so
one lemma says what such a change does to the layers of *every* name
(`LayersAfter`): names whose ancestors `create_parents` has built are as they
were with branch 0 as one more layer (`Opens`), those below a name that was
removed or made have nothing in them, and all others are unchanged. An
operation's lemma then only shows that the dentries it edits follow, and that the
view becomes what `Namespace` says. Two facts about dentries are needed on the
way and are part of the invariant: `check_empty` reads every layer, and a
directory that is opaque in branch 0 has a dentry that knows it. `RefusesForCause`
adds that the lower branch stays without opaque directories and that a refusal
remains justified as long as the branches stay (`TruthInv`).

`UnionRename_proofs`, as general:

* `RenameReadOnlySafe` - `Spec => ReadOnlyUntouched`, for any faults and with
  crashes and reverts. Three steps write without asking whether their branch may
  be written: the copying of the data, the whiteout of the source, and the
  removal of a destination's whiteouts. What an earlier step has tested must
  therefore still hold of the branch that a *local* names now, though `bindex`,
  `bwh_old` and `stage` have been assigned to in between, and differently on the
  error paths. The invariant says so (`CallInv`), along with which locals follow
  from others (`Follows`) and the types of those the writes depend on
  (`Locals`).
* `RenameTypes` - `Spec => []TypeOK`, as general. `bindex` is set by loops that run
  past the first branch when nothing succeeds in any; `InRange` says at which
  steps it is a writable branch all the same.

And what rename promises about the branches' contents:

* `RenameSound` - `Pristine /\ Spec => []BranchesSound`, and
* `RenameNoBug` - `Pristine /\ Spec => []NoBug`, for any number of branches, any
  tree and any contents, in the setting of the live CD: branch 0 alone may be
  written, the branches under it are `Pristine` (packed modules without
  whiteouts), and a lower rename does not fail (`Setting`). `RenameNoBug` also
  needs that of the other lower calls only a link and the whiteout of the source
  fail (`Reliable`). Each condition is needed: without it TLC finds the
  violations listed under the disagreements. Everything else may fail, and the
  machine may stop between any two writes. `BranchesSound` says nothing of the
  call in progress and is far from inductive: whether a whiteout may be made
  depends on what the call has already moved. `RenameInv` and `LinkInv` say, for
  every program counter and stage, how far the call has come: nothing is written
  yet (`Begun`), the source is still below and its copy may or may not have been
  made (`StillBelow`, `Copied`), the object has moved (`HasMoved`), or the call
  has given up (`Abandoned`). A directory moves with all that is below it; that
  the result is a tree again (`RenamedSound`) rests on lemmas about `Below` and
  `Subtree`, for which a set of paths closed under `Parent` is shown to be empty
  by a shallowest path in it (`NoEndlessClimb`), since `Paths` is finite.
* `RenameRefinesAtomic` - `Pristine /\ Spec => RenameIsAtomic`, in the same setting if
  moreover no lower call fails (`Faults = {}`; a link or a whiteout that fails
  makes it false, see the disagreements): each call implements a step of
  `AtomicRename`. The refinement mapping shows the view as it was before the call
  (`Shown`) until the call has returned or the machine has stopped, so what a
  call still under way has done to the view has to be known at each of its
  steps. The invariant for it (`ViewInv`) gives the present view in terms of the
  one before, name by name (`RenameView`, `LinkView`), for every program counter
  and stage; it is inductive only along with the types, `RenameInv`, `LinkInv` and
  `SourceInv` (`Known`). One lemma per action carries it over the write
  (`CleanView` to `CrashView`): names elsewhere keep their layers (`AwayStays`), what
  a subtree looks like at the twin follows from moving it in branch 0 and from
  the whiteout or the opaque mark that hides what lies below (`TwinSubtree`), and
  what the lookups of `unionfs_rename` found is what is seen (`SeenIsFound`).
  `NothingTakenBack` shows that without failures no revert begins.
* `RenameKeepsSource` - `Spec => SourceKept`, for any branches and any faults. The
  lower call that is next never touches the last copy: copies and unlinks happen
  left of the branch the object was found in (`ElsewhereIs`), and in that branch
  it is under its old name until `call.moved` says it is under the new (`Held`).
  The revert moves it back only if it has moved. That the branch in which the
  lookup found the source is the one whose object `View` shows is the lemma
  `FoundIsView`.

`ReadDir_proofs`, for any users, names, branches and lower directories:

* `NoRepeats` - `Spec => []NoDuplicates`, if `Budget < MaxCookie`, that is, if the
  cookies have not wrapped (it fails when they do, see above). `got` and
  `seen` are kept by different parties: a user sees names, an rdstate notes them,
  and the rdstate may go into the cache when the file is closed and come out at
  another open. The invariant therefore says who owns a cookie: no two rdstates
  have the same one, held or cached (`OneOwner`); the position a user has kept is
  0 or one of his own scans (`OwnMarks`); and what a user was shown is noted in
  the rdstate he holds, and in any cached one that his position names (`Shown`).
  The steps are lemmas of four kinds: a scan goes on, begins, is dropped, or the
  cache becomes thinner. Nothing is assumed of the lower directories, so changes
  between and during calls need no case of their own.

`ReadDirScans_proofs` goes on from there. Now the lower directories matter, and
so do the changes made to them:

* `ReadDirTypes` - `Spec => []TypeOK`. The list of lower directories that a call
  has opened stays a list of branches of the union, in the union's order, while
  branches are inserted (`CallGood`).
* `NothingIsMissed` - `Spec => []NothingMissed` (with its exception of split names,
  which is needed: `AllShown` fails), if cookies do not wrap and a
  lower call returns the whole directory (`Chunk >= Slots`; both are needed, see
  the disagreements).
* `NothingIsInvented` - `Spec => []NothingInvented`, if moreover there is at most
  one branch to insert (`OneToInsert`), which is needed too.

The invariant speaks of `Todo`: the slots a scan has still to read, as a set. It
promises that a name which was always visible, is not split, and has not been
shown (`Owed`) has an entry among them (`Promise`: the entry is not hidden by a
whiteout read before it), and denies that a name which was never visible will be
shown (`Denial`: every entry of it still to be read has its whiteout in front of
it). Both are stated for the rdstate a user holds and for any cached one that
his position names; `NoRepeats`' invariant says that the latter is his own. An
inserted branch keeps the promise to a name that stays visible and is not split:
if it has a whiteout of the name, all copies of the name lie to its left
(`UndividedLeft`). Each step then either reads one slot, which is the one place
where `Todo` becomes smaller, or changes lower directories or the list of
branches, and for create, unlink, copyup and insertion a lemma says what becomes
of `Visible`, of the names' entries and of `Todo`.

`Mksquashfs_proofs`, for any host tree and files, any sizes of blocks and tables,
any sequence of runs in any mode, with signals, write errors and kills wherever
`SignalPhases` lets them come:

* `PackerTypes` - `Spec => []SquashTypeOK`.
* `AppendKeepsData` - `Spec /\ [][~TakesBack]_vars => []OldDataKept`, where
  `TakesBack` is the step that writes a file of at least `BigFile` blocks which
  turns out a duplicate. Without the hypothesis it is false (`BigFile = 1`, see the
  disagreements); no step of the run `squash` is such a one, and none can be with
  `-no-duplicates` or when the memory holds every file
  (`AppendKeepsDataInMemory`).

`Spec` is that of `Mksquashfs`, of which `Squash` watches every step. The
invariant `Inv` has a part for each thing the program goes by without looking:
what the tables hold is as much as their counters count (`GoodMem`), which an
append takes from an image on trust, so an image has to be good as well
(`GoodDisk`): every inode in it has its data behind the super block and its
directory somewhere in the table, every list is a list and every owner table
fits, for whatever was written, truncated, left over on a block device or cut
off by a kill. `restorefs` brings back counters but leaves the tables' blocks,
so these must not have become shorter meanwhile (`GoodSave`, `Longer`).
`Behind` adds that the position of a restore is not behind the present one and
that nothing in front of it has been written. Each step that writes is shown to
add at the end (`Adds`); `DuplicateFile` with a file that was written first is the
one that need not. Reading an image is a fold over its blocks and its inodes.
What such a fold computes cannot be proved by an induction theorem; that its
function exists is shown by the smallest number of elements for which it would
not (`FoldExists`), and that it keeps a set of values by the shortest beginning
for which it would not (`FoldKeeps`).

`Layers` is a recursive function over the depth of the tree. That its equation
holds at every path is proved in `UnionDentry_proofs` by a shallowest path at
which it would not (`LayersDef`), as an induction theorem cannot be applied.

Only model-checked: of `ReadDir` `CallsReturn` (liveness is out of the prover's
reach); and of the packer `NumbersUnique` and `PacksAnArchive`,
which are stated in `Squash` about trees that RECURSIVE operators walk, out of its
reach too.

## Not modelled

* Of Unionfs: permissions, attributes other than one value per object, hard
  links as shared inodes (a link is a second name of an equal object), renames
  between directories, writing to open files and their copyup, revalidation by
  the lower file systems, memory failures, the locks as state, and the optional
  builds (`UNIONFS_DELETE_ALL`, `UNIONFS_IMAP`, `UNIONFS_MMAP`, xattrs, debug).
* Of the packer: the compression and the layout of a block (a block is its
  content), times and modes, `-info` and other reports, the 32-bit positions of
  large images, sparse data, and images of an older format. A file that cannot be
  read is one that cannot be opened or read from the start: a read error half way
  through a file too large for the memory, of which blocks have been written
  already (`mksquashfs.c:1209`, `:1222`, after `:1216`), is left out.
* The boot scripts, the build and the CD tools: sequential shell (part 7 of the
  plan).
* `imports/`: content of the CD.
