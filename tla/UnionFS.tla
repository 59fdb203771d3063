------------------------------ MODULE UnionFS ------------------------------
(***************************************************************************)
(* The name-space operations of Unionfs 1.3 in its default build (delete=  *)
(* whiteout): lookup, create, mknod, symlink, mkdir, unlink, rmdir and     *)
(* setattr with copyup, over a cache of union dentries that outlives each  *)
(* operation.                                                              *)
(*                                                                         *)
(* A step is one inode operation.  The VFS holds the i_mutex of the        *)
(* directory (of both, for rmdir) around it and Unionfs the semaphore of   *)
(* every dentry it rewrites, so the operations on one directory do not     *)
(* interleave.  A path walk is one unionfs_lookup step per component.      *)
(***************************************************************************)
EXTENDS UnionDentry, FiniteSets

CONSTANTS
    Faults,     \* the lower-file-system calls that may run out of space
    LowerOpaque,\* may branches to the right of the first hold opaque directories
    MaxPins     \* bound: dentries held by open files or working directories

FaultKinds == {"create", "mknod", "opaque", "whiteout", "copyup", "copydata"}

ASSUME FaultsAssumption ==
    Faults \subseteq FaultKinds /\ LowerOpaque \in BOOLEAN /\ MaxPins \in Nat

VARIABLES
    fs,         \* the branches (lower file systems)
    dcache,     \* dcache[p]: the hashed, positive union dentry of p
    pinned,     \* paths whose dentry a process holds (cwd, open file)
    oops,       \* a NULL or non-directory pointer was followed in the kernel
    last        \* the last operation that returned to a user, and its result

vars == <<fs, dcache, pinned, oops, last>>

Results == {"ok", "ENOTEMPTY", "error"}
Operations == {"mount", "create", "mknod", "symlink", "mkdir", "unlink",
               "rmdir", "setattr"}

TypeOK ==
    /\ fs \in Unions
    /\ dcache \in [Paths -> Dentries \cup {NoDentry}]
    /\ pinned \subseteq Paths
    /\ oops \in BOOLEAN
    /\ last \in [op : Operations, path : AllPaths, ret : Results]

-----------------------------------------------------------------------------
(* The dentry cache.                                                       *)

Cached(p) == dcache[p] # NoDentry
DentryOf(q) == IF q = Root THEN RootDentry ELSE dcache[q]

\* A pinned dentry holds its ancestors.
Held(q) == \E c \in pinned : c = q \/ q \in Above[c]

\* The walk has reached the directory of p.
Reached(p) ==
    IF Parent[p] = Root THEN TRUE
    ELSE /\ Cached(Parent[p])
         /\ Object(fs, dcache[Parent[p]], Parent[p]) = Dir

\* The dentry the VFS passes down for the last component.  Negative dentries
\* never survive unionfs_d_revalidate, so they are looked up each time.
Target(p) ==
    IF Cached(p) THEN dcache[p] ELSE Lookup(fs, DentryOf(Parent[p]), p)

Absent(p) == ~Cached(p) /\ IsNegative(fs, Target(p), p)
Present(p) == ~Absent(p)

\* d_drop: p and what is cached below it can no longer be walked to.
Dropped(dc, p) ==
    [q \in Paths |-> IF q = p \/ p \in Above[q] THEN NoDentry ELSE dc[q]]

Done(op, p, ret) == last' = [op |-> op, path |-> p, ret |-> ret]

-----------------------------------------------------------------------------
(***************************************************************************)
(* create_parents_named(dir, dentry, name, b): build the ancestors of p in *)
(* the branches B that their dentries dc do not have yet, and point the    *)
(* dentry of p there.                                                      *)
(***************************************************************************)

\* The ancestors from p's parent up to the first with a pointer in b.
Missing(dc, p, b) ==
    {a \in Above[p] :
        \A c \in Above[p] : (c = a \/ a \in Above[c]) => dc[c].hid[b] = "null"}

\* A missing ancestor that already exists in b is passed over without a
\* pointer to it, and its NULL pointer is used for the next component.
NullParent(f, dc, p, b) == \E a \in Missing(dc, p, b) : f[b].node[a] # None

\* The nearest ancestors with a pointer in b; there is one at most.
FirstPointed(dc, p, b) ==
    {a \in Above[p] \ Missing(dc, p, b) :
        \A c \in Above[p] : a \in Above[c] => c \in Missing(dc, p, b)}

\* It is no directory to build in: a removed one, where the lower mkdir fails
\* cleanly, or a file (the directory is one of a branch to the left), where
\* LOOKUP_ONE_LEN fails or follows the lookup operation a file does not have.
NoParent(f, dc, p, b) ==
    \E a \in FirstPointed(dc, p, b) :
        dc[a].hid[b] = "dead" \/ f[b].node[a] # Dir

FileParent(f, dc, p, b) ==
    \E a \in FirstPointed(dc, p, b) :
        dc[a].hid[b] = "live" /\ f[b].node[a] # Dir

\* Mutant of ParentsMade: only the immediate parent is built.
LastParentMade(f, dc, p, B) ==
    [b \in Branches |->
        IF b \in B /\ Parent[p] \in Missing(dc, p, b)
        THEN [f[b] EXCEPT !.node[Parent[p]] = Dir] ELSE f[b]]

ParentsMade(f, dc, p, B) ==
    [b \in Branches |->
        IF b \in B
        THEN [f[b] EXCEPT !.node = [q \in Paths |->
                IF q \in Missing(dc, p, b) THEN Dir ELSE f[b].node[q]]]
        ELSE f[b]]

\* Mutant of ParentDentries: the ancestors' dentries are not told.
ParentsForgotten(dc, p, B) == dc

ParentDentries(dc, p, B) ==
    [q \in Paths |->
        LET new == {b \in B : q \in Missing(dc, p, b)}
        IN  IF new = {} THEN dc[q]
            ELSE [bstart  |-> Leftmost(new \cup {dc[q].bstart}),
                  bend    |-> Rightmost(new \cup {dc[q].bend}),
                  bopaque |-> dc[q].bopaque,
                  hid     |-> [b \in Branches |->
                                  IF b \in new THEN "live" ELSE dc[q].hid[b]]]]

(***************************************************************************)
(* The loops over branches, from start to the left, that need p's parents: *)
(* a branch whose create_parents fails is skipped.  Branch 0 is writable   *)
(* and the last one tried.                                                 *)
(***************************************************************************)
\* Mutant of Usable: is_robranch_super is not asked.
UsableAnyway(f, d, p, b) ==
    d.hid[b] = "null" => ~NoParent(f, dcache, p, b)

Usable(f, d, p, b) ==
    /\ ~IsRobranch(b)
    /\ d.hid[b] = "null" => ~NoParent(f, dcache, p, b)

ParentsIn(f, d, p, b) ==
    IF d.hid[b] = "null" /\ Usable(f, d, p, b) THEN {b} ELSE {}

WritableFrom(f, d, p, start) ==
    Rightmost({0} \cup {b \in Branches : b =< start /\ Usable(f, d, p, b)})

\* An attempt in one of the writable branches w .. start ends in an oops, for
\* certain or because a file has been searched like a directory.
MustOops(f, d, p, w) ==
    ~IsRobranch(w) /\ d.hid[w] = "null" /\ NullParent(f, dcache, p, w)

MayOops(f, d, p, w, start) ==
    \/ MustOops(f, d, p, w)
    \/ \E b \in Writable : /\ w =< b /\ b =< start /\ d.hid[b] = "null"
                           /\ FileParent(f, dcache, p, b)

\* f: the branches as the operation has left them by then.
Crashes(f) == oops' = TRUE /\ fs' = f /\ UNCHANGED <<dcache, pinned, last>>

-----------------------------------------------------------------------------
(* unionfs_lookup, and what the VFS does to the cache on its own.          *)

unionfs_lookup(p) ==
    /\ ~oops /\ Reached(p) /\ ~Cached(p) /\ Present(p)
    /\ dcache' = [dcache EXCEPT ![p] = Target(p)]
    /\ UNCHANGED <<fs, pinned, oops, last>>

\* Memory pressure frees a dentry that nobody holds and that has no children.
Prune(p) ==
    /\ ~oops /\ Cached(p) /\ ~Held(p)
    /\ \A c \in Below(p) : ~Cached(c)
    /\ dcache' = [dcache EXCEPT ![p] = NoDentry]
    /\ UNCHANGED <<fs, pinned, oops, last>>

\* A process opens p or makes it its working directory, and lets go of it.
Pin(p) ==
    /\ ~oops /\ Cached(p) /\ p \notin pinned
    /\ Cardinality(pinned) < MaxPins
    /\ pinned' = pinned \cup {p}
    /\ UNCHANGED <<fs, dcache, oops, last>>

Unpin(p) ==
    /\ ~oops /\ p \in pinned
    /\ pinned' = pinned \ {p}
    /\ UNCHANGED <<fs, dcache, oops, last>>

-----------------------------------------------------------------------------
(***************************************************************************)
(* create, mknod, symlink and mkdir of an absent name.  All four look for  *)
(* a whiteout in the branch of the negative dentry and then try that       *)
(* branch and the ones to its left; a read-only branch (-EROFS) moves them *)
(* one to the left, any other error ends the loop.                         *)
(***************************************************************************)

\* The loop starts one to the left of a whiteout that cannot be removed.
CreateStart(d, p) ==
    IF p \in fs[d.bstart].wh /\ IsRobranch(d.bstart)
    THEN d.bstart - 1 ELSE d.bstart

CreateBranch(d, p) == WritableFrom(fs, d, p, CreateStart(d, p))

\* The loop's create_parents and the lower create of node n.
CreateIn(d, p, b, f, n) ==
    SetNode(ParentsMade(f, dcache, p, ParentsIn(f, d, p, b)), b, p, n)

Created(d, p, b) ==
    IF d.hid[b] # "null" THEN d ELSE Pointed(fs, d, p, b)

\* The object is made; new is its dentry then, ret what the user is told.
CreateDone(op, d, p, b, f, n, new, ret) ==
    /\ Usable(fs, d, p, b) /\ ~MustOops(fs, d, p, b)
    /\ fs' = CreateIn(d, p, b, f, n)
    /\ dcache' = [ParentDentries(dcache, p, ParentsIn(fs, d, p, b))
                    EXCEPT ![p] = new]
    /\ Done(op, p, ret)
    /\ UNCHANGED <<pinned, oops>>

\* No branch can be used, or the lower file system is full: the parents stay,
\* the name stays negative.
CreateFails(op, d, p, b, f, fault) ==
    /\ fault \in Faults \/ ~Usable(fs, d, p, b)
    /\ ~MustOops(fs, d, p, b)
    /\ fs' = ParentsMade(f, dcache, p, ParentsIn(fs, d, p, b))
    /\ dcache' = ParentDentries(dcache, p, ParentsIn(fs, d, p, b))
    /\ Done(op, p, "error")
    /\ UNCHANGED <<pinned, oops>>

\* Mutant of WhiteoutGone: the whiteout stays beside the new object.
WhiteoutStays(d, p) == fs

\* A whiteout in a writable branch goes: create renames it to the new file,
\* the other three unlink it before they try to make theirs.
WhiteoutGone(d, p) ==
    IF IsRobranch(d.bstart) THEN fs ELSE DelWhiteout(fs, d.bstart, p)

unionfs_create(p) ==
    LET d == Target(p)
        b == CreateBranch(d, p)
    IN  /\ ~oops /\ Reached(p) /\ Absent(p)
        /\ \/ MayOops(fs, d, p, b, CreateStart(d, p)) /\ Crashes(fs)
           \/ CreateDone("create", d, p, b, WhiteoutGone(d, p), Empty,
                         Created(d, p, b), "ok")
           \/ CreateFails("create", d, p, b, fs, "create")

NewNode(op, p, n) ==
    LET d == Target(p)
        b == CreateBranch(d, p)
        f == WhiteoutGone(d, p)
    IN  /\ ~oops /\ Reached(p) /\ Absent(p)
        /\ \/ MayOops(fs, d, p, b, CreateStart(d, p)) /\ Crashes(f)
           \/ CreateDone(op, d, p, b, f, n, Created(d, p, b), "ok")
           \/ CreateFails(op, d, p, b, f, "mknod")

unionfs_mknod(p, v) == NewNode("mknod", p, v)
unionfs_symlink(p, v) == NewNode("symlink", p, v)

\* mkdir forgets what lies below the new directory and makes it opaque; if
\* that fails, mkdir reports it, and the directory stays as it is.
EndingAt(d, b, bopaque) ==
    [bstart |-> d.bstart, bend |-> b, bopaque |-> bopaque, hid |-> d.hid]

unionfs_mkdir(p) ==
    LET d == Target(p)
        b == CreateBranch(d, p)
        f == WhiteoutGone(d, p)
        c == Created(d, p, b)
    IN  /\ ~oops /\ Reached(p) /\ Absent(p)
        /\ \/ MayOops(fs, d, p, b, CreateStart(d, p)) /\ Crashes(f)
           \/ CreateDone("mkdir", d, p, b, AddOpaque(f, b, p), Dir,
                         EndingAt(c, b, b), "ok")
           \/ /\ "opaque" \in Faults
              /\ CreateDone("mkdir", d, p, b, f, Dir,
                            EndingAt(c, b, c.bopaque), "error")
           \/ CreateFails("mkdir", d, p, b, f, "mknod")

-----------------------------------------------------------------------------
(***************************************************************************)
(* create_whiteout(dentry, start), the last step of unlink and rmdir: the  *)
(* first branch from start leftwards that is writable or already has the   *)
(* whiteout.  f and d are the branches and the dentry as they are by then. *)
(***************************************************************************)
Whitable(f, d, p, b) ==
    Usable(f, d, p, b) \/ (d.hid[b] # "null" /\ p \in f[b].wh)

WhiteoutBranch(f, d, p, start) ==
    Rightmost({0} \cup {b \in Branches : b =< start /\ Whitable(f, d, p, b)})

\* Success: the caller drops the dentry.
WhitedOut(op, f, d, p, w) ==
    LET B == ParentsIn(f, d, p, w)
        g == ParentsMade(f, dcache, p, B)
    IN  /\ Whitable(f, d, p, w) /\ ~MustOops(f, d, p, w)
        /\ fs' = IF IsRobranch(w) THEN g ELSE AddWhiteout(g, w, p)
        /\ dcache' = Dropped(ParentDentries(dcache, p, B), p)
        /\ pinned' = pinned \ ({p} \cup Below(p))
        /\ Done(op, p, "ok")
        /\ UNCHANGED oops

\* The whiteout cannot be written: what came before it is not undone.  dc is
\* the cache as the caller found it, with d for p where p is still hashed.
WhiteoutFails(op, f, d, p, w, dc) ==
    LET B == ParentsIn(f, d, p, w)
    IN  /\ "whiteout" \in Faults \/ ~Whitable(f, d, p, w)
        /\ ~IsRobranch(w) /\ p \notin f[w].wh /\ ~MustOops(f, d, p, w)
        /\ fs' = ParentsMade(f, dcache, p, B)
        /\ dcache' = [ParentDentries(dc, p, B) EXCEPT ![p] =
                        IF @ = NoDentry \/ B = {} THEN @ ELSE Pointed(f, d, p, w)]
        /\ Done(op, p, "error")
        /\ UNCHANGED <<pinned, oops>>

\* The lower unlink or rmdir at b leaves an unhashed lower dentry behind.
Killed(d, b) == [d EXCEPT !.hid[b] = "dead"]

unionfs_unlink(p) ==
    LET d0 == PartialLookup(fs, DentryOf(Parent[p]), Target(p), p)
        b  == d0.bstart
        d  == IF IsRobranch(b) THEN d0 ELSE Killed(d0, b)
        f  == IF IsRobranch(b) THEN fs ELSE SetNode(fs, b, p, None)
        start == IF IsRobranch(b) THEN b - 1
                 ELSE IF d.bopaque # -1 THEN d.bopaque ELSE b
        w  == WhiteoutBranch(f, d, p, start)
    IN  /\ ~oops /\ Reached(p) /\ Present(p)
        /\ Object(fs, Target(p), p) \in Values
        /\ \/ MayOops(f, d, p, w, start) /\ Crashes(f)
           \/ WhitedOut("unlink", f, d, p, w)
           \/ WhiteoutFails("unlink", f, d, p, w, [dcache EXCEPT ![p] = d])

-----------------------------------------------------------------------------
(***************************************************************************)
(* rmdir.  The VFS unhashes the dentry before the call unless somebody     *)
(* holds it, and frees the unused dentries below it.                       *)
(***************************************************************************)
Unhashed(p, d) ==
    [q \in Paths |->
        IF q = p THEN IF Held(p) THEN d ELSE NoDentry
        ELSE IF p \in Above[q] /\ ~Held(q) THEN NoDentry
        ELSE dcache[q]]

\* Mutant of ReadForEmpty: the last branch is not read.
ReadButLast(d, p) ==
    {b \in Branches :
        /\ d.bstart =< b /\ b < d.bend
        /\ d.bopaque = -1 \/ b =< d.bopaque
        /\ d.hid[b] = "live" /\ fs[b].node[p] = Dir}

\* check_empty: read the directory branch by branch down to where it is
\* opaque; a whiteout hides the name in the branches read after its own.
ReadForEmpty(d, p) ==
    {b \in Branches :
        /\ d.bstart =< b /\ b =< d.bend
        /\ d.bopaque = -1 \/ b =< d.bopaque
        /\ d.hid[b] = "live" /\ fs[b].node[p] = Dir}

\* Mutants of CheckEmpty: a whiteout hides the name in every branch; none does.
CheckEmptyAnyWhiteout(d, p) ==
    \A c \in Children(p), b \in ReadForEmpty(d, p) :
        fs[b].node[c] # None => \E a \in ReadForEmpty(d, p) : c \in fs[a].wh

CheckEmptyNoWhiteout(d, p) ==
    \A c \in Children(p), b \in ReadForEmpty(d, p) : fs[b].node[c] = None

CheckEmpty(d, p) ==
    \A c \in Children(p), b \in ReadForEmpty(d, p) :
        fs[b].node[c] # None =>
            \E a \in ReadForEmpty(d, p) : a < b /\ c \in fs[a].wh

\* delete_whiteouts, then the lower rmdir, in the leftmost branch.
rmdir_first(p, b) ==
    [fs EXCEPT ![b] = [node |-> [fs[b].node EXCEPT ![p] = None],
                       wh   |-> fs[b].wh \ Children(p),
                       opq  |-> fs[b].opq \ {p}]]

unionfs_rmdir(p) ==
    LET d0 == PartialLookup(fs, DentryOf(Parent[p]), Target(p), p)
        b  == d0.bstart
        d  == IF IsRobranch(b) THEN d0 ELSE Killed(d0, b)
        f  == IF IsRobranch(b) THEN fs ELSE rmdir_first(p, b)
        start == IF IsRobranch(b) THEN b - 1 ELSE b
        w  == WhiteoutBranch(f, d, p, start)
    IN  /\ ~oops /\ Reached(p) /\ Present(p)
        /\ Object(fs, Target(p), p) = Dir
        /\ \/ /\ ~CheckEmpty(d0, p)
              /\ dcache' = Unhashed(p, d0)
              /\ Done("rmdir", p, "ENOTEMPTY")
              /\ UNCHANGED <<fs, pinned, oops>>
           \/ CheckEmpty(d0, p) /\ MayOops(f, d, p, w, start) /\ Crashes(f)
           \/ CheckEmpty(d0, p) /\ WhitedOut("rmdir", f, d, p, w)
           \/ /\ CheckEmpty(d0, p)
              /\ WhiteoutFails("rmdir", f, d, p, w, Unhashed(p, d))

-----------------------------------------------------------------------------
(***************************************************************************)
(* setattr, with copyup_named_dentry when the leftmost object is on a      *)
(* read-only branch.  copyup is tried in the writable branches to the      *)
(* left, nearest first; full is the set of those that run out of space,    *)
(* how the call that fails there: "copyup" the creation of the object,     *)
(* "copydata" the copying of its data.                                     *)
(***************************************************************************)
Tried(d, p, full) ==
    LET usable == {i \in Branches : i < d.bstart /\ Usable(fs, d, p, i)}
    IN  {i \in usable : \A j \in usable : i < j => j \in full}

\* The object copied to, or changed in, branch i.
Attributed(n, v) == IF n = Dir THEN Dir ELSE v

\* Mutant of CopiedUp: the new start is set, the new pointer is not.
CopiedUpHalf(d, p, b, full, how) ==
    [d EXCEPT !.bstart = Leftmost(Tried(d, p, full) \cup {b})]

\* A failed creation takes its pointer back; a failed copy unlinks the new
\* file but leaves the dentry starting at it.
CopiedUp(d, p, b, full, how) ==
    LET tried == Tried(d, p, full)
        left  == IF how = "copyup" THEN tried \ full ELSE tried
        kept  == {c \in Branches : c =< d.bend /\ d.hid[c] # "null"}
    IN  [bstart  |-> Leftmost(left \cup {b}),
         bend    |-> IF left = {} THEN d.bend ELSE Rightmost(left \cup kept),
         bopaque |-> d.bopaque,
         hid     |-> [c \in Branches |->
                         IF c \notin tried THEN d.hid[c]
                         ELSE IF c \notin full THEN "live"
                         ELSE IF how = "copyup" THEN "null" ELSE "dead"]]

Copyup(p, v, d, full, how) ==
    LET b     == d.bstart
        tried == Tried(d, p, full)
        f     == ParentsMade(fs, dcache, p, tried)
    IN  /\ dcache' = [ParentDentries(dcache, p, tried)
                        EXCEPT ![p] = CopiedUp(d, p, b, full, how)]
        /\ fs' = [c \in Branches |->
                    IF c \in tried \ full
                    THEN [f[c] EXCEPT !.node[p] =
                            Attributed(fs[b].node[p], v)]
                    ELSE f[c]]
        /\ Done("setattr", p, IF tried \subseteq full THEN "error" ELSE "ok")
        /\ UNCHANGED <<pinned, oops>>

CopyupMayOops(d, p) ==
    \E i \in Branches : i < d.bstart /\ MayOops(fs, d, p, i, d.bstart - 1)

unionfs_setattr(p, v) ==
    LET d == Target(p)
        b == d.bstart
    IN  /\ ~oops /\ Reached(p) /\ Present(p)
        /\ Object(fs, d, p) \in Values \cup {Dir}
        /\ \/ /\ ~IsRobranch(b)
              /\ fs' = SetNode(fs, b, p, Attributed(fs[b].node[p], v))
              /\ dcache' = [dcache EXCEPT ![p] = d]
              /\ Done("setattr", p, "ok")
              /\ UNCHANGED <<pinned, oops>>
           \/ IsRobranch(b) /\ CopyupMayOops(d, p) /\ Crashes(fs)
           \/ /\ IsRobranch(b)
              /\ \A i \in Tried(d, p, {}) : ~MustOops(fs, d, p, i)
              /\ Copyup(p, v, d, {}, "copyup")
           \/ /\ IsRobranch(b)
              /\ \E full \in SUBSET Writable \ {{}},
                    how \in Faults \cap {"copyup", "copydata"} :
                    /\ \A i \in Tried(d, p, full) : ~MustOops(fs, d, p, i)
                    /\ how = "copydata" => fs[b].node[p] # Dir
                    /\ Copyup(p, v, d, full, how)

-----------------------------------------------------------------------------
\* The mount: any lower trees whose names are not ambiguous, nothing cached.
\* A branch packed from the upper branch of another union holds the opaque
\* directories that mkdir made there.
Init ==
    /\ fs \in [Branches -> SoundBranches]
    /\ LowerOpaque \/ \A b \in Branches \ {0} : fs[b].opq = {}
    /\ dcache = [p \in Paths |-> NoDentry]
    /\ pinned = {}
    /\ oops = FALSE
    /\ last = [op |-> "mount", path |-> Root, ret |-> "ok"]

Next ==
    \/ \E p \in Paths : unionfs_lookup(p)
    \/ \E p \in Paths : Prune(p)
    \/ \E p \in Paths : Pin(p)
    \/ \E p \in Paths : Unpin(p)
    \/ \E p \in Paths : unionfs_create(p)
    \/ \E p \in Paths, v \in Values : unionfs_mknod(p, v)
    \/ \E p \in Paths, v \in Values : unionfs_symlink(p, v)
    \/ \E p \in Paths : unionfs_mkdir(p)
    \/ \E p \in Paths : unionfs_unlink(p)
    \/ \E p \in Paths : unionfs_rmdir(p)
    \/ \E p \in Paths, v \in Values : unionfs_setattr(p, v)

Spec == Init /\ [][Next]_vars

-----------------------------------------------------------------------------
(***************************************************************************)
(* Properties                                                              *)
(***************************************************************************)

\* The code never writes to a read-only branch: every lower write is behind
\* is_robranch_super, along every path through copyup and create_parents.
ReadOnlyUntouched ==
    [][\A b \in Branches : IsRobranch(b) => fs'[b] = fs[b]]_vars

\* A cached dentry is what its users take it for: its leftmost pointer, which
\* dtohd() dereferences without a test, is there, and the dentries of its
\* ancestors, which create_parents writes, are cached too.
CacheSound ==
    \A p \in Paths : Cached(p) =>
        /\ dcache[p].hid[dcache[p].bstart] # "null"
        /\ \A a \in Above[p] : Cached(a)

\* Unionfs leaves lower trees behind in which every object, whiteout and
\* opaque marker has its directory and no name is both present and whited
\* out: what the next mount, or mksquashfs, will find there.
BranchesSound == fs \in [Branches -> SoundBranches]

\* What a path walk finds through the cached dentries is what the branches
\* hold: a name that is really there is found with its current object, one
\* that is hidden or gone is not found.
Found(p) == IF Absent(p) THEN None ELSE Object(fs, Target(p), p)
WalkFindsView ==
    LET V == View(fs) IN \A p \in Paths : Reached(p) => Found(p) = V[p]

\* The weaker half: nothing that is really there is ever missed or shown
\* with another object, whatever a stale dentry may show besides.
NothingLost ==
    LET V == View(fs)
    IN  \A p \in Paths : Reached(p) /\ V[p] # None => Found(p) = V[p]

\* create_parents never follows a pointer that is not a directory's.
NoOops == ~oops

\* rmdir refuses only a directory in which the union shows an entry.
RmdirTruthful ==
    [][\A p \in Paths :
        last' = [op |-> "rmdir", path |-> p, ret |-> "ENOTEMPTY"]
            => \E c \in Children(p) : View(fs)[c] # None]_vars

\* Every operation does to the union's name space what a file system
\* promises, and nothing when it reports an error.
NS == INSTANCE Namespace WITH
        view <- View(fs),
        last <- [op |-> last.op, path |-> last.path, ok |-> last.ret = "ok"]

UnixSemantics == NS!NSSpec
=============================================================================
