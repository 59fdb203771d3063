----------------------------- MODULE BranchMan -----------------------------
(***************************************************************************)
(* Branch management of Unionfs 1.3 under open files: branchman.c, the     *)
(* branch counts and generations of the super block, and the parts of      *)
(* commonfops.c that count a file's lower files on its branches.           *)
(*                                                                         *)
(* A branch has a position that changes when branches are inserted or      *)
(* removed to its left.  Dentries and open files remember positions and    *)
(* the generation these belong to; a putmap of every earlier generation    *)
(* that is still in use leads from its positions to the present ones, so   *)
(* that an old file can give back what it took (branchput).                *)
(*                                                                         *)
(* Here a branch has an identity, which the code has not: it is what the   *)
(* positions are supposed to stand for.  Files are opened for reading; the *)
(* trees of the branches do not change except by unlink.                   *)
(***************************************************************************)
EXTENDS Integers, FiniteSets, FiniteSetsExt, Functions

CONSTANTS
    Branch,     \* the directories that can be branches
    Root,       \* the root of the union
    Dirs,       \* directories below it
    Files,      \* regular files below it
    Has,        \* Has[n]: the branches that hold the name n
    Handles,    \* open files, at most
    MaxGen,     \* bound on the generation
    None,       \* no name: the handle has not walked to a file
    Closed,     \* the handle is not open
    Freed,      \* the putmap is NULL
    Wild,       \* what is read past the end of a putmap
    Unlinking,  \* whether open files may be unlinked
    Racing,     \* whether branches may change between a walk and its open
    BadModes    \* whether rdwrbranch may be refused

Names == Dirs \cup Files \cup {Root}

ASSUME BranchManAssumption ==
    /\ IsFiniteSet(Branch) /\ Branch # {}
    /\ IsFiniteSet(Handles)
    /\ Root \notin Dirs \cup Files
    /\ Dirs \cap Files = {}
    /\ Has \in [Names -> SUBSET Branch]
    /\ Has[Root] = Branch
    /\ MaxGen \in Nat \ {0}
    /\ None \notin Names
    /\ Wild \notin Int

\* Positions a branch can have, what a dentry or file can have at them, and
\* struct putmap.
Slots == 0 .. Cardinality(Branch) - 1
Lows == UNION {[I -> Branch] : I \in SUBSET Slots}
OpenFiles == [name : Names, gen : 1 .. MaxGen, low : Lows]
Putmaps(n) == [count : Int, bend : {n}, map : [0 .. n -> Slots \cup {Wild}]]

ASSUME MarkerAssumption ==
    /\ Closed \notin OpenFiles
    /\ \A n \in Slots : Freed \notin Putmaps(n)

ASSUME SwitchAssumption ==
    /\ Unlinking \in BOOLEAN
    /\ Racing \in BOOLEAN
    /\ BadModes \in BOOLEAN

VARIABLES
    sb,         \* struct unionfs_sb_info and the root's arrays
    dentry,     \* dentry[n]: the cached dentry of a name below the root
    walked,     \* walked[h]: the name a path walk has led to, open pending
    file,       \* file[h]: struct unionfs_file_info
    deleted,    \* unlinked names (their dentries are unhashed)
    oops        \* the kernel has stopped on a BUG_ON or a wild access

vars == <<sb, dentry, walked, file, deleted, oops>>

Positions(s) == 0 .. s.bend
\* The positions at which a dentry or file has lower objects.
PositionsOf(low) == DOMAIN low

-----------------------------------------------------------------------------
\* Lower objects of a name, by position: all of a directory's, the leftmost
\* one of a file.
Lookup(s, n) ==
    LET found == {i \in Positions(s) : s.on[i] \in Has[n]}
    IN  [i \in {j \in found : n \in Files => \A k \in found : j <= k} |-> s.on[i]]

\* The root's arrays are those of the super block.
DentryOf(n) == IF n = Root THEN [gen |-> sb.gen, low |-> sb.on] ELSE dentry[n]

\* unionfs_d_revalidate: an unhashed dentry stays as it is, one of an older
\* generation is looked up again.
Revalidated(n) ==
    IF n = Root \/ n \in deleted \/ dentry[n].gen = sb.gen THEN DentryOf(n)
    ELSE [gen |-> sb.gen, low |-> Lookup(sb, n)]

Remember(n) ==
    dentry' = IF n = Root THEN dentry ELSE [dentry EXCEPT ![n] = Revalidated(n)]

Start(low) == IF PositionsOf(low) = {} THEN -1 ELSE Min(PositionsOf(low))

-----------------------------------------------------------------------------
\* branchget and branchput for a set of positions.  The list of putmaps is a
\* function on the generations usi_firstputmap .. usi_lastputmap.
Get(s, I) ==
    [s EXCEPT !.count = [i \in Positions(s) |-> IF i \in I THEN @[i] + 1 ELSE @[i]]]

Putmap(s, g) == s.maps[g]

MapUsable(s, g, I) ==
    /\ g \in s.first .. s.last
    /\ Putmap(s, g) # Freed
    /\ \A i \in I : i <= Putmap(s, g).bend /\ Putmap(s, g).map[i] # Wild
    /\ Putmap(s, g).count \notin 1 .. Cardinality(I) - 1

\* The BUG_ONs of branchput_gen, and its use of a putmap that has been freed.
PutBugs(s, g, I) == I # {} /\ g # s.gen /\ ~ MapUsable(s, g, I)

Put(s, g, I) ==
    IF I = {} THEN s
    ELSE IF g = s.gen
    THEN [s EXCEPT !.count =
            [i \in Positions(s) |-> IF i \in I THEN @[i] - 1 ELSE @[i]]]
    ELSE LET m == Putmap(s, g)
             Onto(j) == {i \in I : m.map[i] = j}
         IN  [s EXCEPT
                !.count = [j \in Positions(s) |-> @[j] - Cardinality(Onto(j))],
                !.maps[g] = IF m.count = Cardinality(I) THEN Freed
                            ELSE [m EXCEPT !.count = @ - Cardinality(I)]]

\* newputmap: forget the putmaps at the front that have been freed, and make
\* one for the generation that ends.  It stands for the lower files that no
\* older putmap counts.
NewPutmap(s) ==
    LET live == {g \in s.first .. s.last : s.first > 0 /\ Putmap(s, g) # Freed}
        last == s.last + 1
        first == IF s.first = 0 THEN 1 ELSE Min(live \cup {last})
        newmap == [count |-> SumFunction(s.count)
                             - SumFunction([g \in live |-> Putmap(s, g).count]),
                   bend  |-> s.bend,
                   map   |-> [i \in Positions(s) |-> i]]
    IN  [s EXCEPT
            !.first = first,
            !.last = last,
            !.maps = [g \in first .. last |->
                        IF g = last THEN newmap ELSE Putmap(s, g)]]

\* fixputmaps: lead the older putmaps through the newest one.  A position that
\* the newest one does not have is read past its end.
Through(cur, i) == IF i \in 0 .. cur.bend THEN cur.map[i] ELSE Wild
Older(s) == {g \in s.first .. s.last - 1 : Putmap(s, g) # Freed}
Fixed(m, cur) ==
    [m EXCEPT !.map = [i \in 0 .. m.bend |-> Through(cur, @[i])]]
\* Mutant of FixPutmaps: the older putmaps are left alone.
NotFixed(s) == s

FixPutmaps(s) ==
    [s EXCEPT !.maps =
        [g \in s.first .. s.last |->
            IF g \in Older(s) THEN Fixed(Putmap(s, g), Putmap(s, s.last)) ELSE @[g]]]
WildIndex(s) ==
    \E g \in Older(s) : \E i \in DOMAIN Putmap(s, g).map : Putmap(s, g).map[i] = Wild

\* Mutant of NewGeneration: the change goes unnoticed.
SameGeneration(s) == s

NewGeneration(s) == [s EXCEPT !.gen = @ + 1]

-----------------------------------------------------------------------------
\* A mount: any list of different branches, nothing open, no putmaps.
Lists == UNION {{on \in [0 .. n -> Branch] : \A i, j \in 0 .. n : i # j => on[i] # on[j]}
                    : n \in 0 .. Cardinality(Branch) - 1}

Mounted(on) ==
    [bend  |-> Cardinality(DOMAIN on) - 1,
     on    |-> on,
     count |-> [i \in DOMAIN on |-> 0],
     gen   |-> 1,
     first |-> 0,
     last  |-> 0,
     maps  |-> [g \in {} |-> Freed]]

Init ==
    /\ \E on \in Lists : sb = Mounted(on)
    /\ dentry = [n \in Dirs \cup Files |-> [gen |-> 1, low |-> Lookup(sb, n)]]
    /\ walked = [h \in Handles |-> None]
    /\ file = [h \in Handles |-> Closed]
    /\ deleted = {}
    /\ oops = FALSE

Quiet == Racing \/ \A h \in Handles : walked[h] = None

\* The VFS walks a path, which revalidates the dentries on it, and then calls
\* unionfs_open.  Nothing keeps the branches as they are in between.
Walk(h, n) ==
    /\ ~ oops
    /\ file[h] = Closed /\ walked[h] = None
    /\ n \notin deleted
    /\ PositionsOf(Revalidated(n).low) # {}
    /\ Remember(n)
    /\ walked' = [walked EXCEPT ![h] = n]
    /\ UNCHANGED <<sb, file, deleted, oops>>

unionfs_open(h) ==
    /\ ~ oops
    /\ walked[h] # None
    /\ LET d == DentryOf(walked[h])
       IN  /\ file' = [file EXCEPT ![h] =
                        [name |-> walked[h], gen |-> d.gen, low |-> d.low]]
           /\ sb' = Get(sb, PositionsOf(d.low))
    /\ walked' = [walked EXCEPT ![h] = None]
    /\ UNCHANGED <<dentry, deleted, oops>>

\* unionfs_file_revalidate for an open file: give back the lower files by the
\* positions of the file's generation, then open those of the dentry.
Stale(h) ==
    LET d == Revalidated(file[h].name)
    IN  /\ file[h].name \notin deleted
        /\ sb.gen > file[h].gen \/ Start(d.low) # Start(file[h].low)

RevalidateBugs(h) ==
    \/ file[h].name \in deleted /\ sb.gen > DentryOf(file[h].name).gen
    \/ Stale(h) /\ PutBugs(sb, file[h].gen, PositionsOf(file[h].low))

FileAfter(h) ==
    IF Stale(h)
    THEN LET d == Revalidated(file[h].name)
         IN  [name |-> file[h].name, gen |-> d.gen, low |-> d.low]
    ELSE file[h]

SbAfter(h) ==
    IF Stale(h)
    THEN Get(Put(sb, file[h].gen, PositionsOf(file[h].low)), PositionsOf(FileAfter(h).low))
    ELSE sb

unionfs_file_revalidate(h) ==
    /\ ~ oops
    /\ file[h] # Closed
    /\ ~ RevalidateBugs(h)
    /\ Remember(file[h].name)
    /\ file' = [file EXCEPT ![h] = FileAfter(h)]

\* Any use of an open file: read, readdir, flush.
Use(h) ==
    /\ unionfs_file_revalidate(h)
    /\ sb' = SbAfter(h)
    /\ UNCHANGED <<walked, deleted, oops>>

unionfs_file_release(h) ==
    /\ ~ oops
    /\ file[h] # Closed
    /\ ~ PutBugs(sb, file[h].gen, PositionsOf(file[h].low))
    /\ sb' = Put(sb, file[h].gen, PositionsOf(file[h].low))
    /\ file' = [file EXCEPT ![h] = Closed]
    /\ UNCHANGED <<dentry, walked, deleted, oops>>

\* A BUG_ON in one of these.
Bug(h) ==
    /\ ~ oops
    /\ file[h] # Closed
    /\ \/ RevalidateBugs(h)
       \/ PutBugs(sb, file[h].gen, PositionsOf(file[h].low))
    /\ oops' = TRUE
    /\ UNCHANGED <<sb, dentry, walked, file, deleted>>

Unlink(n) ==
    /\ ~ oops
    /\ Unlinking
    /\ n \notin deleted
    /\ PositionsOf(Revalidated(n).low) # {}
    /\ Remember(n)
    /\ deleted' = deleted \cup {n}
    /\ UNCHANGED <<sb, walked, file, oops>>

-----------------------------------------------------------------------------
\* The ioctls come through an open file of the union, which is revalidated
\* first; unionctl opens the mount point.
Ioctl(h) ==
    /\ Quiet
    /\ unionfs_file_revalidate(h)
    /\ UNCHANGED <<walked, deleted>>

unionfs_ioctl_incgen(h) ==
    /\ Ioctl(h)
    /\ sb.gen < MaxGen
    /\ sb' = NewGeneration(NewPutmap(SbAfter(h)))
    /\ UNCHANGED oops

\* A changed mode is a new generation; the positions stay.  A refused one has
\* made its putmap, and no generation.
unionfs_ioctl_rdwrbranch(h) ==
    /\ Ioctl(h)
    /\ sb.gen < MaxGen
    /\ \/ sb' = NewGeneration(NewPutmap(SbAfter(h)))
       \/ BadModes /\ sb.last < MaxGen /\ sb' = NewPutmap(SbAfter(h))
    /\ UNCHANGED oops

Inserted(seq, k, v, bend) ==
    [i \in 0 .. bend + 1 |-> IF i < k THEN seq[i] ELSE IF i = k THEN v ELSE seq[i - 1]]
Dropped(seq, k, bend) ==
    [i \in 0 .. bend - 1 |-> IF i < k THEN seq[i] ELSE seq[i + 1]]

\* Mutant of Added: b_end is not increased.
AddedBeyondEnd(s, k, b) ==
    [s EXCEPT !.on = Inserted(@, k, b, s.bend),
              !.count = Inserted(@, k, 0, s.bend),
              !.maps[s.last].map =
                [i \in Positions(s) |-> IF i >= k THEN i + 1 ELSE i]]

\* Mutant of Added: the counts stay where they were.
AddedCountLast(s, k, b) ==
    [s EXCEPT !.bend = @ + 1,
              !.on = Inserted(@, k, b, s.bend),
              !.count = Inserted(@, s.bend + 1, 0, s.bend),
              !.maps[s.last].map =
                [i \in Positions(s) |-> IF i >= k THEN i + 1 ELSE i]]

Added(s, k, b) ==
    [s EXCEPT !.bend = @ + 1,
              !.on = Inserted(@, k, b, s.bend),
              !.count = Inserted(@, k, 0, s.bend),
              !.maps[s.last].map =
                [i \in Positions(s) |-> IF i >= k THEN i + 1 ELSE i]]

\* The entry of the branch that goes is left as it is.
Removed(s, k) ==
    [s EXCEPT !.bend = @ - 1,
              !.on = Dropped(@, k, s.bend),
              !.count = Dropped(@, k, s.bend),
              !.maps[s.last].map =
                [i \in Positions(s) |-> IF i > k THEN i - 1 ELSE i]]

\* Mutant of FreeIfUnused: the putmap waits for a branchput that never comes.
KeptUnused(s) == s

FreeIfUnused(s) ==
    IF Putmap(s, s.last).count = 0 THEN [s EXCEPT !.maps[s.last] = Freed] ELSE s

\* A wild index may stop the kernel.
MayOops(s) == oops' \in (IF WildIndex(s) THEN BOOLEAN ELSE {FALSE})

unionfs_ioctl_addbranch(h, k, b) ==
    LET s == Added(NewGeneration(NewPutmap(SbAfter(h))), k, b)
    IN  /\ Ioctl(h)
        /\ sb.gen < MaxGen
        /\ b \notin {sb.on[i] : i \in Positions(sb)}
        /\ k <= sb.bend + 1
        /\ sb' = FixPutmaps(s)
        /\ MayOops(s)

\* Mutant of Deletable: a busy branch may go.
DeletableBusy(s, k) == s.bend > 0 /\ k <= s.bend

\* Comes through remount, with no file.
Deletable(s, k) == s.bend > 0 /\ k <= s.bend /\ s.count[k] = 0
unionfs_ioctl_delbranch(k) ==
    LET s == Removed(NewGeneration(NewPutmap(sb)), k)
    IN  /\ ~ oops /\ Quiet
        /\ sb.gen < MaxGen
        /\ Deletable(sb, k)
        /\ sb' = FreeIfUnused(FixPutmaps(s))
        /\ MayOops(s)
        /\ UNCHANGED <<dentry, walked, file, deleted>>

Next ==
    \/ \E h \in Handles :
        \/ \E n \in Names : Walk(h, n)
        \/ unionfs_open(h)
        \/ Use(h)
        \/ unionfs_file_release(h)
        \/ Bug(h)
        \/ unionfs_ioctl_incgen(h)
        \/ unionfs_ioctl_rdwrbranch(h)
        \/ \E k \in 0 .. Cardinality(Branch) - 1, b \in Branch : unionfs_ioctl_addbranch(h, k, b)
    \/ \E n \in Files : Unlink(n)
    \/ \E k \in 0 .. Cardinality(Branch) - 1 : unionfs_ioctl_delbranch(k)

Spec == Init /\ [][Next]_vars

-----------------------------------------------------------------------------
Opened(h) == IF file[h] = Closed THEN {} ELSE PositionsOf(file[h].low)

\* The present position of a lower file, by the file's generation.
Now(g, i) == IF g = sb.gen THEN i ELSE Putmap(sb, g).map[i]

\* Types.
TypeOK ==
    /\ sb.bend \in Slots
    /\ sb.on \in [Positions(sb) -> Branch]
    /\ sb.count \in [Positions(sb) -> Int]
    /\ sb.gen \in 1 .. MaxGen
    /\ sb.first \in Nat /\ sb.last \in Nat
    /\ DOMAIN sb.maps = IF sb.first = 0 THEN {} ELSE sb.first .. sb.last
    /\ \A g \in DOMAIN sb.maps :
        sb.maps[g] = Freed \/ \E n \in Slots : sb.maps[g] \in Putmaps(n)
    /\ dentry \in [Dirs \cup Files -> [gen : 1 .. MaxGen, low : Lows]]
    /\ walked \in [Handles -> Names \cup {None}]
    /\ file \in [Handles -> OpenFiles \cup {Closed}]
    /\ deleted \subseteq Files
    /\ oops \in BOOLEAN

\* The count of a branch is the number of lower files open on it, which is what
\* delbranch goes by, and what put_super insists on (branchget, branchput).
CountsExact ==
    ~ oops => \A i \in Positions(sb) :
        sb.count[i] = Cardinality({u \in Handles \X (0 .. Cardinality(Branch)) :
                        u[2] \in Opened(u[1]) /\ file[u[1]].low[u[2]] = sb.on[i]})

\* A branch stays in the union as long as a file is open on it (EBUSY).
OpenBranchesStay ==
    \A h \in Handles : \A j \in Opened(h) :
        \E i \in Positions(sb) : sb.on[i] = file[h].low[j]

\* Whatever its generation, the putmaps lead a file to the branches on which it
\* has lower files: no BUG_ON of branchput_gen, no wrong count.
PutsFindTheirBranch ==
    \A h \in Handles : \A j \in Opened(h) :
        LET g == file[h].gen
        IN  /\ g = sb.gen \/ MapUsable(sb, g, Opened(h))
            /\ Now(g, j) \in Positions(sb)
            /\ sb.on[Now(g, j)] = file[h].low[j]

\* A dentry or file of the present generation shows the present branches; the
\* code compares nothing but generations.
CurrentMeansCurrent ==
    /\ \A n \in (Dirs \cup Files) \ deleted :
        dentry[n].gen = sb.gen => dentry[n].low = Lookup(sb, n)
    /\ \A h \in Handles :
        /\ file[h] # Closed
        /\ file[h].name \notin deleted
        /\ file[h].gen = sb.gen
        => file[h].low = Lookup(sb, file[h].name)

\* A putmap lives only as long as some open file needs it: repeated changes of
\* the branches do not pile them up.
PutmapsNeeded ==
    ~ oops => \A g \in DOMAIN sb.maps :
        sb.maps[g] # Freed => \E h \in Handles : Opened(h) # {} /\ file[h].gen = g

\* The assertions of the code hold and nothing wild is used.
NoOops == ~ oops
=============================================================================
