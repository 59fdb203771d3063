--------------------------- MODULE UnionFS_proofs ---------------------------
(***************************************************************************)
(* Proofs about UnionFS, for every tree of paths, number of branches, set  *)
(* of writable branches, set of faults and number of held dentries: the    *)
(* type invariant with the soundness of the dentry cache, and that no      *)
(* operation writes to a read-only branch.  And, if the first branch alone *)
(* is writable, that the branches stay sound.                              *)
(***************************************************************************)
EXTENDS UnionFS, UnionDentry_proofs

-----------------------------------------------------------------------------
(* Dentries: what the operations of this module leave.                     *)

LEMMA KilledGood ==
    ASSUME NEW d \in GoodDentries, NEW b
    PROVE  Killed(d, b) \in GoodDentries /\ Killed(d, b).bstart = d.bstart
<1> DEFINE g == [d.hid EXCEPT ![b] = "dead"]
<1>1. Killed(d, b) = [bstart |-> d.bstart, bend |-> d.bend,
                      bopaque |-> d.bopaque, hid |-> g]
  BY GoodFields DEF Killed
<1>2. g \in [Branches -> Pointers] /\ g[d.bstart] # "null"
  BY GoodFields DEF Pointers
<1> HIDE DEF g
<1> QED BY <1>1, <1>2, GoodFields, DentryRecord

\* mkdir ends the new dentry at its branch, opaque there or not.
LEMMA EndingGood ==
    ASSUME NEW d \in GoodDentries, NEW b \in Branches, NEW o \in -1 .. NB - 1
    PROVE  EndingAt(d, b, o) \in GoodDentries
BY GoodFields, DentryRecord DEF EndingAt

\* A copyup leaves a good dentry, whichever attempts fail and however.
LEMMA CopiedUpGood ==
    ASSUME NEW d \in GoodDentries, NEW p \in Paths, NEW full, NEW how
    PROVE  CopiedUp(d, p, d.bstart, full, how) \in GoodDentries
<1> DEFINE tried == Tried(d, p, full)
           left == IF how = "copyup" THEN tried \ full ELSE tried
           kept == {c \in Branches : c =< d.bend /\ d.hid[c] # "null"}
           s == Leftmost(left \cup {d.bstart})
           e == IF left = {} THEN d.bend ELSE Rightmost(left \cup kept)
           g == [c \in Branches |->
                    IF c \notin tried THEN d.hid[c]
                    ELSE IF c \notin full THEN "live"
                    ELSE IF how = "copyup" THEN "null" ELSE "dead"]
<1>1. tried \in SUBSET Branches /\ d.bstart \notin tried
  BY GoodFields, BranchAssumption DEF Tried, Branches
<1>2. left \in SUBSET Branches /\ kept \in SUBSET Branches /\ left \subseteq tried
  BY <1>1
<1>3. s \in left \cup {d.bstart} /\ s \in Branches
  <2> HIDE DEF left
  <2> QED BY <1>2, GoodFields, LeftmostIsLeast
<1>4. e \in Branches
  <2> HIDE DEF left, kept
  <2> QED BY <1>2, GoodFields, RightmostIsGreatest
<1>5. g \in [Branches -> Pointers]
  BY GoodFields DEF Pointers
<1>6. g[s] # "null"
  <2> HIDE DEF tried, s
  <2> QED BY <1>1, <1>3, GoodFields
<1>7. CopiedUp(d, p, d.bstart, full, how) =
        [bstart |-> s, bend |-> e, bopaque |-> d.bopaque, hid |-> g]
  BY DEF CopiedUp
<1> HIDE DEF s, e, g
<1> QED BY <1>3, <1>4, <1>5, <1>6, <1>7, GoodFields, DentryRecord

-----------------------------------------------------------------------------
(* The dentry cache.                                                       *)

Caches == [Paths -> GoodDentries \cup {NoDentry}]

\* With a dentry, those of its ancestors are cached.
Closed(dc) ==
    \A p \in Paths : dc[p] # NoDentry => \A a \in Above[p] : dc[a] # NoDentry

\* create_parents rewrites the dentries of cached ancestors and caches nothing.
LEMMA ParentDentriesGood ==
    ASSUME NEW dc \in Caches, NEW p \in Paths, NEW B \in SUBSET Branches,
           \A a \in Above[p] : dc[a] # NoDentry
    PROVE  /\ ParentDentries(dc, p, B) \in Caches
           /\ \A q \in Paths :
                ParentDentries(dc, p, B)[q] = NoDentry <=> dc[q] = NoDentry
<1>1. SUFFICES ASSUME NEW q \in Paths
               PROVE  LET r == ParentDentries(dc, p, B)[q]
                      IN  /\ r \in GoodDentries \cup {NoDentry}
                          /\ r = NoDentry <=> dc[q] = NoDentry
  BY DEF Caches, ParentDentries
<1> DEFINE new == {b \in B : q \in Missing(dc, p, b)}
<1>2. CASE new = {}
  BY <1>2 DEF ParentDentries, Caches
<1>3. CASE new # {}
  <2> DEFINE d == dc[q]
             s == Leftmost(new \cup {d.bstart})
             e == Rightmost(new \cup {d.bend})
             h == [b \in Branches |-> IF b \in new THEN "live" ELSE d.hid[b]]
  <2>1. q \in Above[p]
    BY <1>3 DEF Missing
  <2>2. d \in GoodDentries
    BY <2>1 DEF Caches
  <2>3. new \in SUBSET Branches
    OBVIOUS
  <2> HIDE DEF new
  <2>4. s \in new \cup {d.bstart} /\ s \in Branches /\ e \in Branches
    BY <2>2, <2>3, GoodFields, LeftmostIsLeast, RightmostIsGreatest
  <2>5. h \in [Branches -> Pointers] /\ h[s] # "null"
    BY <2>2, <2>4, GoodFields DEF Pointers
  <2>6. ParentDentries(dc, p, B)[q] =
          [bstart |-> s, bend |-> e, bopaque |-> d.bopaque, hid |-> h]
    BY <1>3 DEF ParentDentries, new
  <2>7. ParentDentries(dc, p, B)[q] \in GoodDentries
    <3> HIDE DEF d, s, e, h
    <3> QED BY <2>2, <2>4, <2>5, <2>6, GoodFields, DentryRecord
  <2> QED BY <2>2, <2>7, NoDentryIsNone DEF GoodDentries
<1> QED BY <1>2, <1>3

-----------------------------------------------------------------------------
(* Writes to the branches.                                                 *)

\* g differs from f in writable branches only.
Safe(f, g) == \A b \in Branches : IsRobranch(b) => g[b] = f[b]

\* The lower operations keep the type of a union, and write to their branch
\* only.
LEMMA LowerWrites ==
    ASSUME NEW f \in Unions, NEW b \in Writable, NEW p \in Paths, NEW n \in Nodes
    PROVE  /\ SetNode(f, b, p, n) \in Unions /\ Safe(f, SetNode(f, b, p, n))
           /\ AddWhiteout(f, b, p) \in Unions /\ Safe(f, AddWhiteout(f, b, p))
           /\ DelWhiteout(f, b, p) \in Unions /\ Safe(f, DelWhiteout(f, b, p))
           /\ AddOpaque(f, b, p) \in Unions /\ Safe(f, AddOpaque(f, b, p))
<1>1. b \in Branches
  BY BranchAssumption
<1>2. SetNode(f, b, p, n) \in Unions /\ Safe(f, SetNode(f, b, p, n))
  BY <1>1 DEF SetNode, Unions, BranchStates, Safe, IsRobranch
<1>3. AddWhiteout(f, b, p) \in Unions /\ Safe(f, AddWhiteout(f, b, p))
  BY <1>1 DEF AddWhiteout, Unions, BranchStates, Safe, IsRobranch
<1>4. DelWhiteout(f, b, p) \in Unions /\ Safe(f, DelWhiteout(f, b, p))
  BY <1>1 DEF DelWhiteout, Unions, BranchStates, Safe, IsRobranch
<1>5. AddOpaque(f, b, p) \in Unions /\ Safe(f, AddOpaque(f, b, p))
  BY <1>1 DEF AddOpaque, Unions, BranchStates, Safe, IsRobranch
<1> QED BY <1>2, <1>3, <1>4, <1>5

\* So do the parents that create_parents makes.
LEMMA ParentsMadeSafe ==
    ASSUME NEW f \in Unions, NEW dc, NEW p \in Paths, NEW B \in SUBSET Writable
    PROVE  ParentsMade(f, dc, p, B) \in Unions /\ Safe(f, ParentsMade(f, dc, p, B))
<1>1. Dir \in Nodes
  BY DEF Nodes
<1>2. \A b \in Branches :
        [f[b] EXCEPT !.node = [q \in Paths |->
            IF q \in Missing(dc, p, b) THEN Dir ELSE f[b].node[q]]] \in BranchStates
  BY <1>1 DEF Unions, BranchStates
<1>3. ParentsMade(f, dc, p, B) \in Unions
  BY <1>2 DEF ParentsMade, Unions
<1>4. Safe(f, ParentsMade(f, dc, p, B))
  BY DEF ParentsMade, Safe, IsRobranch
<1> QED BY <1>3, <1>4

LEMMA SafeTransitive ==
    ASSUME NEW f, NEW g, NEW h, Safe(f, g), Safe(g, h)
    PROVE  Safe(f, h)
BY DEF Safe

\* The loops end in a writable branch, and make parents in such a one only.
LEMMA WritableFromWritable ==
    ASSUME NEW f, NEW d, NEW p, NEW start
    PROVE  /\ WritableFrom(f, d, p, start) \in Writable
           /\ \A b : ParentsIn(f, d, p, b) \in SUBSET {b}
           /\ \A b \in Branches : ParentsIn(f, d, p, b) \in SUBSET Writable
<1> DEFINE S == {0} \cup {b \in Branches : b =< start /\ Usable(f, d, p, b)}
<1>1. S \in SUBSET Branches /\ S # {} /\ S \subseteq Writable
  BY BranchAssumption DEF Usable, IsRobranch
<1>2. Rightmost(S) \in S
  <2> HIDE DEF S
  <2> QED BY <1>1, RightmostIsGreatest
<1>3. WritableFrom(f, d, p, start) \in Writable
  BY <1>1, <1>2 DEF WritableFrom
<1>4. \A b : ParentsIn(f, d, p, b) \in SUBSET {b}
  BY DEF ParentsIn
<1>5. \A b \in Branches : ParentsIn(f, d, p, b) \in SUBSET Writable
  BY DEF ParentsIn, Usable, IsRobranch
<1> QED BY <1>3, <1>4, <1>5

LEMMA WhiteoutBranchIsBranch ==
    ASSUME NEW f, NEW d, NEW p, NEW start
    PROVE  WhiteoutBranch(f, d, p, start) \in Branches
<1> DEFINE S == {0} \cup {b \in Branches : b =< start /\ Whitable(f, d, p, b)}
<1>1. S \in SUBSET Branches /\ S # {}
  BY BranchAssumption
<1> HIDE DEF S
<1>2. Rightmost(S) \in S
  BY <1>1, RightmostIsGreatest
<1> QED BY <1>1, <1>2 DEF WhiteoutBranch, S

-----------------------------------------------------------------------------
(* The inductive invariant.                                                *)

Inv ==
    /\ fs \in Unions
    /\ dcache \in Caches /\ Closed(dcache)
    /\ pinned \subseteq Paths
    /\ oops \in BOOLEAN
    /\ last \in [op : Operations, path : AllPaths, ret : Results]

\* It is the type invariant and the soundness of the cache.
LEMMA InvIsTypeAndCache == Inv <=> TypeOK /\ CacheSound
<1>1. ASSUME Inv PROVE TypeOK /\ CacheSound
  BY <1>1 DEF Inv, TypeOK, CacheSound, Caches, Closed, GoodDentries, Cached
<1>2. ASSUME TypeOK, CacheSound PROVE Inv
  <2>1. dcache \in Caches
    BY <1>2 DEF TypeOK, CacheSound, Caches, GoodDentries, Cached
  <2> QED BY <1>2, <2>1 DEF Inv, TypeOK, CacheSound, Closed, Cached
<1> QED BY <1>1, <1>2

\* The ancestors of a name that a walk has reached are cached.
LEMMA ReachedAncestors ==
    ASSUME Inv, NEW p \in Paths, Reached(p)
    PROVE  \A a \in Above[p] : dcache[a] # NoDentry
BY PathsAssumption DEF Inv, Closed, Reached, Cached

\* The dentry of a name that is there.
LEMMA PresentTarget ==
    ASSUME Inv, NEW p \in Paths, Present(p)
    PROVE  Target(p) \in GoodDentries
<1>1. CASE Cached(p)
  BY <1>1 DEF Inv, Caches, Target, Cached
<1>2. CASE ~Cached(p)
  BY <1>2, LookupGood DEF Present, Absent, Target
<1> QED BY <1>1, <1>2

\* The dentry of a name that is not, and the one its creation leaves.
LEMMA AbsentTarget ==
    ASSUME NEW p \in Paths, Absent(p), NEW b \in Branches
    PROVE  Created(Target(p), p, b) \in GoodDentries
<1> DEFINE d == Target(p)
<1>1. /\ d = [bstart |-> d.bstart, bend |-> d.bstart,
              bopaque |-> d.bopaque, hid |-> LiveIn({d.bstart})]
      /\ d.bopaque \in -1 .. NB - 1
  BY LookupGood DEF Absent, Target
<1> HIDE DEF d
<1>2. CASE d.hid[b] # "null"
  <2>1. b = d.bstart
    BY <1>1, <1>2, LiveInType
  <2>2. d \in GoodDentries
    BY <1>1, <1>2, <2>1, LiveInType, DentryRecord
  <2> QED BY <1>2, <2>2 DEF Created, d
<1>3. CASE d.hid[b] = "null"
  <2> DEFINE s == d.bstart
             o == d.bopaque
             h == LiveIn({s})
  <2>1. h \in [Branches -> Pointers] /\ o \in -1 .. NB - 1
    BY <1>1, LiveInType
  <2>2. d = [bstart |-> s, bend |-> s, bopaque |-> o, hid |-> h]
    BY <1>1
  <2> HIDE DEF s, o, h
  <2>3. Pointed(fs, [bstart |-> s, bend |-> s, bopaque |-> o, hid |-> h], p, b)
            \in GoodDentries
    BY <2>1, PointedGood
  <2> QED BY <1>3, <2>2, <2>3 DEF Created, d
<1> QED BY <1>2, <1>3

-----------------------------------------------------------------------------
(* The actions.  Each step keeps the invariant and is safe.                *)

Kept == Inv' /\ Safe(fs, fs')

\* What a step must do for that.
LEMMA KeptBy ==
    ASSUME Inv, fs' \in Unions, Safe(fs, fs'), dcache' \in Caches, Closed(dcache'),
           pinned' \subseteq Paths, oops' \in BOOLEAN,
           last' \in [op : Operations, path : AllPaths, ret : Results]
    PROVE  Kept
BY DEF Kept, Inv

LEMMA SafeRefl == ASSUME NEW f PROVE Safe(f, f)
BY DEF Safe

\* Caching one more dentry, once those of its ancestors are there.
LEMMA CacheOne ==
    ASSUME NEW dc \in Caches, Closed(dc), NEW p \in Paths, NEW d \in GoodDentries,
           \A a \in Above[p] : dc[a] # NoDentry
    PROVE  [dc EXCEPT ![p] = d] \in Caches /\ Closed([dc EXCEPT ![p] = d])
<1>1. [dc EXCEPT ![p] = d] \in Caches
  BY DEF Caches
<1>2. d # NoDentry
  BY NoDentryIsNone DEF GoodDentries
<1>3. Closed([dc EXCEPT ![p] = d])
  BY <1>2, PathsAssumption DEF Closed, Caches
<1> QED BY <1>1, <1>3

\* What create_parents leaves is closed like the cache it found.
LEMMA ParentDentriesClosed ==
    ASSUME NEW dc \in Caches, Closed(dc), NEW p \in Paths,
           NEW B \in SUBSET Branches, \A a \in Above[p] : dc[a] # NoDentry
    PROVE  /\ ParentDentries(dc, p, B) \in Caches
           /\ Closed(ParentDentries(dc, p, B))
           /\ \A a \in Above[p] : ParentDentries(dc, p, B)[a] # NoDentry
BY ParentDentriesGood, PathsAssumption DEF Closed

LEMMA LookupStep ==
    ASSUME Inv, NEW p \in Paths, unionfs_lookup(p)
    PROVE  Kept
<1>1. Target(p) \in GoodDentries
  BY PresentTarget DEF unionfs_lookup
<1>2. dcache' \in Caches /\ Closed(dcache')
  BY <1>1, CacheOne, ReachedAncestors DEF unionfs_lookup, Inv
<1> QED BY <1>2, KeptBy, SafeRefl DEF unionfs_lookup, Inv

LEMMA PruneStep ==
    ASSUME Inv, NEW p \in Paths, Prune(p)
    PROVE  Kept
<1>1. dcache' \in Caches
  BY DEF Prune, Inv, Caches
<1>2. Closed(dcache')
  BY PathsAssumption DEF Prune, Inv, Closed, Caches, Below, Cached
<1> QED BY <1>1, <1>2, KeptBy, SafeRefl DEF Prune, Inv

LEMMA PinStep ==
    ASSUME Inv, NEW p \in Paths, Pin(p) \/ Unpin(p)
    PROVE  Kept
BY KeptBy, SafeRefl DEF Pin, Unpin, Inv

\* An oops stops the system where the operation had got to.
LEMMA CrashesStep ==
    ASSUME Inv, NEW f \in Unions, Safe(fs, f), Crashes(f)
    PROVE  Kept
BY KeptBy DEF Crashes, Inv

\* A result is recorded.
LEMMA DoneType ==
    ASSUME NEW op \in Operations, NEW p \in Paths, NEW ret \in Results,
           Done(op, p, ret)
    PROVE  last' \in [op : Operations, path : AllPaths, ret : Results]
BY DEF Done, AllPaths

-----------------------------------------------------------------------------
(* create, mknod, symlink and mkdir.                                       *)

\* Where the new object goes, and the branches once its whiteout has gone.
LEMMA CreateFacts ==
    ASSUME Inv, NEW p \in Paths
    PROVE  /\ CreateBranch(Target(p), p) \in Writable
           /\ WhiteoutGone(Target(p), p) \in Unions
           /\ Safe(fs, WhiteoutGone(Target(p), p))
<1> DEFINE d == Target(p)
<1>1. CASE IsRobranch(d.bstart)
  BY <1>1, WritableFromWritable, SafeRefl DEF WhiteoutGone, Inv, CreateBranch
<1>2. CASE ~IsRobranch(d.bstart)
  <2>1. d.bstart \in Writable
    BY <1>2 DEF IsRobranch
  <2>2. DelWhiteout(fs, d.bstart, p) \in Unions /\ Safe(fs, DelWhiteout(fs, d.bstart, p))
    BY <2>1, LowerWrites DEF Inv, Nodes
  <2> QED BY <1>2, <2>2, WritableFromWritable DEF WhiteoutGone, CreateBranch
<1> QED BY <1>1, <1>2

LEMMA CreateDoneStep ==
    ASSUME Inv, NEW p \in Paths, Reached(p), NEW d, NEW op \in Operations,
           NEW b \in Writable, NEW f \in Unions, Safe(fs, f), NEW n \in Nodes,
           NEW new \in GoodDentries, NEW ret \in Results,
           CreateDone(op, d, p, b, f, n, new, ret)
    PROVE  Kept
<1> DEFINE B == ParentsIn(fs, d, p, b)
           C == ParentsIn(f, d, p, b)
           g == ParentsMade(f, dcache, p, C)
<1>1. /\ B \in SUBSET Branches /\ C \in SUBSET Writable
  BY WritableFromWritable, BranchAssumption
<1>2. g \in Unions /\ Safe(fs, g)
  BY <1>1, ParentsMadeSafe, SafeTransitive
<1>3. fs' \in Unions /\ Safe(fs, fs')
  <2> HIDE DEF g
  <2>1. fs' = SetNode(g, b, p, n)
    BY DEF CreateDone, CreateIn, g
  <2> QED BY <1>2, <2>1, LowerWrites, SafeTransitive
<1>4. dcache' \in Caches /\ Closed(dcache')
  BY <1>1, ReachedAncestors, ParentDentriesClosed, CacheOne DEF CreateDone, Inv
<1> QED BY <1>3, <1>4, KeptBy, DoneType DEF CreateDone, Inv

LEMMA CreateFailsStep ==
    ASSUME Inv, NEW p \in Paths, Reached(p), NEW d, NEW op \in Operations,
           NEW b \in Writable, NEW f \in Unions, Safe(fs, f), NEW fault,
           CreateFails(op, d, p, b, f, fault)
    PROVE  Kept
<1> DEFINE B == ParentsIn(fs, d, p, b)
<1>1. B \in SUBSET Branches /\ B \in SUBSET Writable
  BY WritableFromWritable, BranchAssumption
<1>2. fs' \in Unions /\ Safe(fs, fs')
  BY <1>1, ParentsMadeSafe, SafeTransitive DEF CreateFails
<1>3. dcache' \in Caches /\ Closed(dcache')
  BY <1>1, ReachedAncestors, ParentDentriesClosed DEF CreateFails, Inv
<1> QED BY <1>2, <1>3, KeptBy, DoneType DEF CreateFails, Inv, Results

LEMMA CreateStep ==
    ASSUME Inv, NEW p \in Paths, unionfs_create(p)
    PROVE  Kept
<1> DEFINE d == Target(p)
           b == CreateBranch(d, p)
           f == WhiteoutGone(d, p)
<1>1. /\ b \in Writable /\ b \in Branches /\ f \in Unions /\ Safe(fs, f)
      /\ fs \in Unions /\ Safe(fs, fs)
  BY CreateFacts, SafeRefl, BranchAssumption DEF Inv
<1>2. Reached(p) /\ Absent(p)
  BY DEF unionfs_create
<1>3. Created(d, p, b) \in GoodDentries
  BY <1>1, <1>2, AbsentTarget
<1>4. Empty \in Nodes /\ "create" \in Operations
  BY ValuesAssumption DEF Nodes, Operations
<1> "ok" \in Results
  BY DEF Results
<1> HIDE DEF d, b, f
<1>5. \/ Crashes(fs)
      \/ CreateDone("create", d, p, b, f, Empty, Created(d, p, b), "ok")
      \/ CreateFails("create", d, p, b, fs, "create")
  BY DEF unionfs_create, d, b, f
<1> QED BY <1>1, <1>2, <1>3, <1>4, <1>5, CrashesStep, CreateDoneStep, CreateFailsStep

LEMMA NewNodeStep ==
    ASSUME Inv, NEW p \in Paths, NEW op \in Operations, NEW n \in Values,
           NewNode(op, p, n)
    PROVE  Kept
<1> DEFINE d == Target(p)
           b == CreateBranch(d, p)
           f == WhiteoutGone(d, p)
<1>1. b \in Writable /\ b \in Branches /\ f \in Unions /\ Safe(fs, f)
  BY CreateFacts, BranchAssumption
<1>2. Reached(p) /\ Absent(p)
  BY DEF NewNode
<1>3. Created(d, p, b) \in GoodDentries
  BY <1>1, <1>2, AbsentTarget
<1>4. n \in Nodes
  BY DEF Nodes
<1> "ok" \in Results
  BY DEF Results
<1> HIDE DEF d, b, f
<1>5. \/ Crashes(f)
      \/ CreateDone(op, d, p, b, f, n, Created(d, p, b), "ok")
      \/ CreateFails(op, d, p, b, f, "mknod")
  BY DEF NewNode, d, b, f
<1> QED BY <1>1, <1>2, <1>3, <1>4, <1>5, CrashesStep, CreateDoneStep, CreateFailsStep

LEMMA MkdirStep ==
    ASSUME Inv, NEW p \in Paths, unionfs_mkdir(p)
    PROVE  Kept
<1> DEFINE d == Target(p)
           b == CreateBranch(d, p)
           f == WhiteoutGone(d, p)
           g == AddOpaque(f, b, p)
           c == Created(d, p, b)
           new == EndingAt(c, b, b)
           left == EndingAt(c, b, c.bopaque)
<1>1. b \in Writable /\ b \in Branches /\ f \in Unions /\ Safe(fs, f)
  BY CreateFacts, BranchAssumption
<1>2. Reached(p) /\ Absent(p)
  BY DEF unionfs_mkdir
<1>3. c \in GoodDentries
  BY <1>1, <1>2, AbsentTarget
<1>4. Dir \in Nodes /\ "mkdir" \in Operations /\ {"ok", "error"} \subseteq Results
  BY DEF Nodes, Operations, Results
<1>5. g \in Unions /\ Safe(fs, g)
  BY <1>1, <1>4, LowerWrites, SafeTransitive
<1>6. new \in GoodDentries /\ left \in GoodDentries
  <2> HIDE DEF c, b
  <2>1. b \in -1 .. NB - 1
    BY <1>1, BranchAssumption DEF Branches
  <2>2. c.bopaque \in -1 .. NB - 1
    BY <1>3, GoodFields
  <2> QED BY <1>1, <1>3, <2>1, <2>2, EndingGood
<1> HIDE DEF d, b, f, g, c, new, left
<1>7. \/ Crashes(f)
      \/ CreateDone("mkdir", d, p, b, g, Dir, new, "ok")
      \/ CreateDone("mkdir", d, p, b, f, Dir, left, "error")
      \/ CreateFails("mkdir", d, p, b, f, "mknod")
  BY DEF unionfs_mkdir, d, b, f, g, c, new, left
<1> QED BY <1>1, <1>2, <1>4, <1>5, <1>6, <1>7, CrashesStep, CreateDoneStep, CreateFailsStep

-----------------------------------------------------------------------------
(* unlink and rmdir.                                                       *)

\* Dropping a dentry with what is below it leaves the cache closed.
LEMMA DroppedGood ==
    ASSUME NEW dc \in Caches, Closed(dc), NEW p \in Paths
    PROVE  Dropped(dc, p) \in Caches /\ Closed(Dropped(dc, p))
<1>1. Dropped(dc, p) \in Caches
  BY DEF Dropped, Caches
<1>2. Closed(Dropped(dc, p))
  BY PathsAssumption DEF Dropped, Closed
<1> QED BY <1>1, <1>2

\* So does the VFS when it unhashes a directory: what it keeps is held, and
\* so are the directories above that.
LEMMA UnhashedGood ==
    ASSUME Inv, NEW p \in Paths, Reached(p), NEW d \in GoodDentries
    PROVE  Unhashed(p, d) \in Caches /\ Closed(Unhashed(p, d))
<1> DEFINE u == Unhashed(p, d)
<1>1. u \in Caches
  BY DEF Unhashed, Caches, Inv
<1>2. d # NoDentry
  BY NoDentryIsNone DEF GoodDentries
<1>3. SUFFICES ASSUME NEW q \in Paths, u[q] # NoDentry, NEW a \in Above[q]
               PROVE  u[a] # NoDentry
  BY <1>1 DEF Closed
<1>4. a \in Paths /\ Above[a] \subseteq Above[q] /\ a # q
  BY PathsAssumption
<1>5. CASE q = p
  BY <1>4, <1>5, ReachedAncestors, PathsAssumption DEF Unhashed
<1>6. CASE q # p /\ p \in Above[q]
  <2>1. Held(q) /\ dcache[q] # NoDentry
    BY <1>3, <1>6 DEF Unhashed
  <2>2. Held(a)
    BY <1>4, <2>1, PathsAssumption DEF Held, Inv
  <2>3. dcache[a] # NoDentry
    BY <2>1 DEF Inv, Closed
  <2> QED BY <1>2, <1>4, <2>2, <2>3 DEF Unhashed
<1>7. CASE q # p /\ p \notin Above[q]
  <2>1. dcache[q] # NoDentry
    BY <1>3, <1>7 DEF Unhashed
  <2>2. dcache[a] # NoDentry /\ a # p /\ p \notin Above[a]
    BY <1>4, <1>7, <2>1 DEF Inv, Closed
  <2> QED BY <1>4, <2>2 DEF Unhashed
<1> QED BY <1>5, <1>6, <1>7

LEMMA WhitedOutStep ==
    ASSUME Inv, NEW p \in Paths, Reached(p), NEW d, NEW op \in Operations,
           NEW w \in Branches, NEW f \in Unions, Safe(fs, f),
           WhitedOut(op, f, d, p, w)
    PROVE  Kept
<1> DEFINE B == ParentsIn(f, d, p, w)
           g == ParentsMade(f, dcache, p, B)
<1>1. B \in SUBSET Branches /\ B \in SUBSET Writable
  BY WritableFromWritable, BranchAssumption
<1>2. g \in Unions /\ Safe(fs, g)
  BY <1>1, ParentsMadeSafe, SafeTransitive
<1>3. fs' \in Unions /\ Safe(fs, fs')
  <2>1. fs' = IF IsRobranch(w) THEN g ELSE AddWhiteout(g, w, p)
    BY DEF WhitedOut
  <2> HIDE DEF g
  <2>2. CASE IsRobranch(w)
    BY <1>2, <2>1, <2>2
  <2>3. CASE ~IsRobranch(w)
    <3>1. AddWhiteout(g, w, p) \in Unions /\ Safe(g, AddWhiteout(g, w, p))
      BY <1>2, <2>3, LowerWrites DEF IsRobranch, Nodes
    <3> QED BY <1>2, <2>1, <2>3, <3>1, SafeTransitive
  <2> QED BY <2>2, <2>3
<1>4. dcache' \in Caches /\ Closed(dcache')
  BY <1>1, ReachedAncestors, ParentDentriesClosed, DroppedGood DEF WhitedOut, Inv
<1> QED BY <1>3, <1>4, KeptBy, DoneType DEF WhitedOut, Inv, Results

LEMMA WhiteoutFailsStep ==
    ASSUME Inv, NEW p \in Paths, Reached(p), NEW d \in GoodDentries,
           NEW op \in Operations, NEW w \in Branches, NEW f \in Unions, Safe(fs, f),
           NEW dc \in Caches, Closed(dc), \A a \in Above[p] : dc[a] # NoDentry,
           WhiteoutFails(op, f, d, p, w, dc)
    PROVE  Kept
<1> DEFINE B == ParentsIn(f, d, p, w)
           pc == ParentDentries(dc, p, B)
<1>1. B \in SUBSET Branches /\ B \in SUBSET Writable
  BY WritableFromWritable, BranchAssumption
<1>2. fs' \in Unions /\ Safe(fs, fs')
  BY <1>1, ParentsMadeSafe, SafeTransitive DEF WhiteoutFails
<1>3. pc \in Caches /\ Closed(pc) /\ \A a \in Above[p] : pc[a] # NoDentry
  BY <1>1, ParentDentriesClosed
<1>4. Pointed(f, d, p, w) \in GoodDentries
  <2>1. Pointed(f, [bstart |-> d.bstart, bend |-> d.bend, bopaque |-> d.bopaque,
                    hid |-> d.hid], p, w) \in GoodDentries
    BY GoodFields, PointedGood
  <2> QED BY <2>1, GoodFields
<1>5. dcache' = pc \/ dcache' = [pc EXCEPT ![p] = Pointed(f, d, p, w)]
  <2>1. dcache' = [pc EXCEPT ![p] =
            IF pc[p] = NoDentry \/ B = {} THEN pc[p] ELSE Pointed(f, d, p, w)]
    BY DEF WhiteoutFails
  <2> HIDE DEF pc
  <2> QED BY <1>3, <2>1 DEF Caches
<1>6. dcache' \in Caches /\ Closed(dcache')
  <2> HIDE DEF pc
  <2> QED BY <1>3, <1>4, <1>5, CacheOne
<1> QED BY <1>2, <1>6, KeptBy, DoneType DEF WhiteoutFails, Inv, Results

\* The dentry that unlink and rmdir work on, before and after the removal.
LEMMA RemovedTarget ==
    ASSUME Inv, NEW p \in Paths, Present(p)
    PROVE  LET d == PartialLookup(fs, DentryOf(Parent[p]), Target(p), p)
           IN  /\ d \in GoodDentries /\ d.bstart \in Branches
               /\ Killed(d, d.bstart) \in GoodDentries
BY PresentTarget, PartialLookupGood, KilledGood, GoodFields

LEMMA UnlinkStep ==
    ASSUME Inv, NEW p \in Paths, unionfs_unlink(p)
    PROVE  Kept
<1> DEFINE d0 == PartialLookup(fs, DentryOf(Parent[p]), Target(p), p)
           b  == d0.bstart
           d  == IF IsRobranch(b) THEN d0 ELSE Killed(d0, b)
           f  == IF IsRobranch(b) THEN fs ELSE SetNode(fs, b, p, None)
           start == IF IsRobranch(b) THEN b - 1
                    ELSE IF d.bopaque # -1 THEN d.bopaque ELSE b
           w  == WhiteoutBranch(f, d, p, start)
<1>1. Reached(p) /\ Present(p)
  BY DEF unionfs_unlink
<1>2. d0 \in GoodDentries /\ b \in Branches /\ Killed(d0, b) \in GoodDentries
  BY <1>1, RemovedTarget
<1>3. d \in GoodDentries
  BY <1>2
<1>4. f \in Unions /\ Safe(fs, f)
  <2> HIDE DEF d0
  <2>1. CASE IsRobranch(b)
    BY <2>1, SafeRefl DEF Inv
  <2>2. CASE ~IsRobranch(b)
    BY <2>2, LowerWrites DEF Inv, Nodes, IsRobranch
  <2> QED BY <2>1, <2>2
<1>5. w \in Branches
  BY WhiteoutBranchIsBranch
<1> DEFINE dc == [dcache EXCEPT ![p] = d]
<1>6. /\ dc \in Caches /\ Closed(dc) /\ \A a \in Above[p] : dc[a] # NoDentry
  <2> HIDE DEF d
  <2> QED BY <1>1, <1>3, ReachedAncestors, CacheOne, PathsAssumption
          DEF Inv, Caches
<1>7. "unlink" \in Operations
  BY DEF Operations
<1>8. \/ Crashes(f)
      \/ WhitedOut("unlink", f, d, p, w)
      \/ WhiteoutFails("unlink", f, d, p, w, dc)
  BY DEF unionfs_unlink
<1> HIDE DEF d, f, w, dc
<1> QED BY <1>1, <1>3, <1>4, <1>5, <1>6, <1>7, <1>8, CrashesStep, WhitedOutStep,
           WhiteoutFailsStep

LEMMA RmdirStep ==
    ASSUME Inv, NEW p \in Paths, unionfs_rmdir(p)
    PROVE  Kept
<1> DEFINE d0 == PartialLookup(fs, DentryOf(Parent[p]), Target(p), p)
           b  == d0.bstart
           d  == IF IsRobranch(b) THEN d0 ELSE Killed(d0, b)
           f  == IF IsRobranch(b) THEN fs ELSE rmdir_first(p, b)
           start == IF IsRobranch(b) THEN b - 1 ELSE b
           w  == WhiteoutBranch(f, d, p, start)
           dc == Unhashed(p, d)
<1>1. Reached(p) /\ Present(p)
  BY DEF unionfs_rmdir
<1>2. d0 \in GoodDentries /\ b \in Branches /\ Killed(d0, b) \in GoodDentries
  BY <1>1, RemovedTarget
<1>3. d \in GoodDentries
  BY <1>2
<1>4. f \in Unions /\ Safe(fs, f)
  <2> HIDE DEF d0
  <2>1. CASE IsRobranch(b)
    BY <2>1, SafeRefl DEF Inv
  <2>2. CASE ~IsRobranch(b)
    <3>1. rmdir_first(p, b) \in Unions
      BY <1>2 DEF rmdir_first, Inv, Unions, BranchStates, Nodes
    <3>2. Safe(fs, rmdir_first(p, b))
      BY <2>2 DEF rmdir_first, Inv, Unions, Safe
    <3> QED BY <2>2, <3>1, <3>2
  <2> QED BY <2>1, <2>2
<1>5. w \in Branches
  BY WhiteoutBranchIsBranch
<1>6. /\ dc \in Caches /\ Closed(dc) /\ \A a \in Above[p] : dc[a] # NoDentry
  <2> HIDE DEF d
  <2>1. dc \in Caches /\ Closed(dc)
    BY <1>1, <1>3, UnhashedGood
  <2>2. \A a \in Above[p] : a # p /\ p \notin Above[a] /\ dcache[a] # NoDentry
    BY <1>1, ReachedAncestors, PathsAssumption
  <2>3. \A a \in Above[p] : dc[a] = dcache[a]
    BY <2>2, PathsAssumption DEF Unhashed
  <2> QED BY <2>1, <2>2, <2>3
<1>7. "rmdir" \in Operations
  BY DEF Operations
<1>8. \/ /\ dcache' = Unhashed(p, d0) /\ Done("rmdir", p, "ENOTEMPTY")
         /\ UNCHANGED <<fs, pinned, oops>>
      \/ Crashes(f)
      \/ WhitedOut("rmdir", f, d, p, w)
      \/ WhiteoutFails("rmdir", f, d, p, w, dc)
  BY DEF unionfs_rmdir
<1> HIDE DEF d0, d, f, w, dc
<1>9. CASE /\ dcache' = Unhashed(p, d0) /\ Done("rmdir", p, "ENOTEMPTY")
           /\ UNCHANGED <<fs, pinned, oops>>
  BY <1>1, <1>2, <1>7, <1>9, UnhashedGood, KeptBy, DoneType, SafeRefl
     DEF Inv, Results
<1> QED BY <1>1, <1>3, <1>4, <1>5, <1>6, <1>7, <1>8, <1>9, CrashesStep,
           WhitedOutStep, WhiteoutFailsStep

-----------------------------------------------------------------------------
(* setattr.                                                                *)

LEMMA CopyupStep ==
    ASSUME Inv, NEW p \in Paths, Reached(p), Present(p), NEW v \in Values,
           NEW full, NEW how, fs[Target(p).bstart].node[p] \in Nodes,
           Copyup(p, v, Target(p), full, how)
    PROVE  Kept
<1> DEFINE d == Target(p)
           tried == Tried(d, p, full)
           f == ParentsMade(fs, dcache, p, tried)
           n == Attributed(fs[d.bstart].node[p], v)
<1>1. tried \in SUBSET Branches /\ tried \in SUBSET Writable
  BY BranchAssumption DEF Tried, Usable, IsRobranch
<1>2. f \in Unions /\ Safe(fs, f)
  BY <1>1, ParentsMadeSafe DEF Inv
<1>3. n \in Nodes
  BY DEF Attributed, Nodes
<1>4. fs' = [c \in Branches |-> IF c \in tried \ full
                               THEN [f[c] EXCEPT !.node[p] = n] ELSE f[c]]
  BY DEF Copyup
<1>5. fs' \in Unions
  <2> HIDE DEF f, n, tried
  <2>1. \A c \in Branches : [f[c] EXCEPT !.node[p] = n] \in BranchStates
    BY <1>2, <1>3 DEF Unions, BranchStates
  <2> QED BY <1>2, <1>4, <2>1 DEF Unions
<1>6. Safe(fs, fs')
  <2> HIDE DEF f, n, tried
  <2> QED BY <1>1, <1>2, <1>4 DEF Safe, IsRobranch
<1>7. d \in GoodDentries
  BY PresentTarget
<1>8. CopiedUp(d, p, d.bstart, full, how) \in GoodDentries
  BY <1>7, CopiedUpGood
<1>9. dcache' \in Caches /\ Closed(dcache')
  <2>1. dcache' = [ParentDentries(dcache, p, tried)
                     EXCEPT ![p] = CopiedUp(d, p, d.bstart, full, how)]
    BY DEF Copyup
  <2> HIDE DEF d, tried
  <2> QED BY <1>1, <1>8, <2>1, ReachedAncestors, ParentDentriesClosed, CacheOne
          DEF Inv
<1>10. last' \in [op : Operations, path : AllPaths, ret : Results]
  <2>1. /\ "setattr" \in Operations
        /\ (IF tried \subseteq full THEN "error" ELSE "ok") \in Results
    BY DEF Operations, Results
  <2> QED BY <2>1, DoneType DEF Copyup
<1> QED BY <1>5, <1>6, <1>9, <1>10, KeptBy DEF Copyup, Inv

LEMMA SetattrStep ==
    ASSUME Inv, NEW p \in Paths, NEW v \in Values, unionfs_setattr(p, v)
    PROVE  Kept
<1> DEFINE d == Target(p)
           b == d.bstart
           n == Attributed(fs[b].node[p], v)
<1>1. Reached(p) /\ Present(p)
  BY DEF unionfs_setattr
<1>2. d \in GoodDentries /\ b \in Branches
  BY <1>1, PresentTarget, GoodFields
<1>3. n \in Nodes /\ fs[b].node[p] \in Nodes
  BY <1>2 DEF Attributed, Nodes, Inv, Unions, BranchStates
<1>4. CASE /\ ~IsRobranch(b) /\ fs' = SetNode(fs, b, p, n)
           /\ dcache' = [dcache EXCEPT ![p] = d] /\ Done("setattr", p, "ok")
           /\ UNCHANGED <<pinned, oops>>
  <2>1. fs' \in Unions /\ Safe(fs, fs')
    BY <1>3, <1>4, LowerWrites DEF Inv, IsRobranch
  <2>2. dcache' \in Caches /\ Closed(dcache')
    BY <1>1, <1>2, <1>4, ReachedAncestors, CacheOne DEF Inv
  <2>3. "setattr" \in Operations /\ "ok" \in Results
    BY DEF Operations, Results
  <2> QED BY <1>4, <2>1, <2>2, <2>3, KeptBy, DoneType DEF Inv
<1>5. CASE Crashes(fs)
  BY <1>5, CrashesStep, SafeRefl DEF Inv
<1>6. CASE \E full, how : Copyup(p, v, d, full, how)
  BY <1>1, <1>3, <1>6, CopyupStep
<1>7. \/ /\ ~IsRobranch(b) /\ fs' = SetNode(fs, b, p, n)
         /\ dcache' = [dcache EXCEPT ![p] = d] /\ Done("setattr", p, "ok")
         /\ UNCHANGED <<pinned, oops>>
      \/ Crashes(fs)
      \/ \E full, how : Copyup(p, v, d, full, how)
  BY DEF unionfs_setattr
<1> QED BY <1>4, <1>5, <1>6, <1>7

-----------------------------------------------------------------------------
(* The theorems.                                                           *)

LEMMA InitInv == Init => Inv
<1> SUFFICES ASSUME Init PROVE Inv
  OBVIOUS
<1>1. fs \in Unions
  BY DEF Init, Unions, SoundBranches
<1>2. dcache \in Caches /\ Closed(dcache)
  BY DEF Init, Caches, Closed
<1>3. last \in [op : Operations, path : AllPaths, ret : Results]
  BY DEF Init, Operations, Results, AllPaths
<1> QED BY <1>1, <1>2, <1>3 DEF Init, Inv

LEMMA NextKept == ASSUME Inv, Next PROVE Kept
<1>1. ASSUME NEW p \in Paths, unionfs_lookup(p) \/ Prune(p) \/ Pin(p) \/ Unpin(p)
      PROVE  Kept
  BY <1>1, LookupStep, PruneStep, PinStep
<1>2. ASSUME NEW p \in Paths, unionfs_create(p) \/ unionfs_mkdir(p)
      PROVE  Kept
  BY <1>2, CreateStep, MkdirStep
<1>3. ASSUME NEW p \in Paths, NEW v \in Values,
             unionfs_mknod(p, v) \/ unionfs_symlink(p, v)
      PROVE  Kept
  <2>1. "mknod" \in Operations /\ "symlink" \in Operations
    BY DEF Operations
  <2> QED BY <1>3, <2>1, NewNodeStep DEF unionfs_mknod, unionfs_symlink
<1>4. ASSUME NEW p \in Paths, unionfs_unlink(p) \/ unionfs_rmdir(p)
      PROVE  Kept
  BY <1>4, UnlinkStep, RmdirStep
<1>5. ASSUME NEW p \in Paths, NEW v \in Values, unionfs_setattr(p, v)
      PROVE  Kept
  BY <1>5, SetattrStep
<1> QED BY <1>1, <1>2, <1>3, <1>4, <1>5 DEF Next

LEMMA NextInv == Inv /\ [Next]_vars => Inv'
<1>1. ASSUME Inv, Next PROVE Inv'
  BY <1>1, NextKept DEF Kept
<1>2. ASSUME Inv, UNCHANGED vars PROVE Inv'
  BY <1>2 DEF Inv, vars
<1> QED BY <1>1, <1>2

\* The state keeps its type, whatever trees are mounted and whatever fails.
THEOREM TypeCorrect == Spec => []TypeOK
<1>1. Inv => TypeOK
  BY InvIsTypeAndCache
<1> QED BY InitInv, NextInv, <1>1, PTL DEF Spec

\* Every cached dentry has its leftmost pointer and its ancestors, through
\* copyups that fail half-way and directories removed while they are held.
THEOREM CacheCorrect == Spec => []CacheSound
<1>1. Inv => CacheSound
  BY InvIsTypeAndCache
<1> QED BY InitInv, NextInv, <1>1, PTL DEF Spec

\* No operation, successful, failed or ended by an oops, writes to a branch
\* that is not writable.
THEOREM ReadOnlySafe == Spec => ReadOnlyUntouched
<1>1. Inv /\ [Next]_vars =>
        [\A b \in Branches : IsRobranch(b) => fs'[b] = fs[b]]_vars
  BY NextKept DEF Kept, Safe
<1> QED BY InitInv, NextInv, <1>1, PTL DEF Spec, ReadOnlyUntouched

-----------------------------------------------------------------------------
(***************************************************************************)
(* One writable branch: no operation, however it ends, leaves the first    *)
(* branch with a name beside its whiteout or an entry without its          *)
(* directory.  That rests on what the cached dentries know: a dentry       *)
(* without a pointer in the first branch stands for a name that is not     *)
(* there, so create_parents may build it; and the pointers in the other    *)
(* branches, whose contents never change, are complete up to the last one, *)
(* so that a later partial lookup finds nothing to the left of it.         *)
(***************************************************************************)
OneWritable == Writable = {0}

\* A dentry ends no earlier than it starts, and has nothing left of there.
Bounded(d) ==
    /\ d.bstart =< d.bend
    /\ \A m \in Branches : m < d.bstart => d.hid[m] = "null"

\* What the dentry d of p knows of the first branch; pd is the parent's.
KnownTop(d, pd, p, f) ==
    /\ d.hid[0] = "null" => f[0].node[p] = None
    /\ d.hid[0] # "null" => pd.hid[0] # "null"
    /\ p \notin f[0].wh

\* What it knows of the others.
KnownBelow(d, pd, p, f) ==
    \A c \in Branches \ {0} : d.hid[c] # "null" =>
        /\ d.hid[c] = "live" /\ pd.hid[c] = "live"
        /\ f[c].node[p] # None /\ p \notin f[c].wh
        /\ \A m \in Branches \ {0} :
              m < c /\ pd.hid[m] = "live" /\ (f[m].node[p] # None \/ p \in f[m].wh)
                => d.hid[m] = "live"

Fits(d, pd, p, f) == Bounded(d) /\ KnownTop(d, pd, p, f) /\ KnownBelow(d, pd, p, f)

Of(dc, q) == IF q = Root THEN RootDentry ELSE dc[q]

Known(dc, f) ==
    \A p \in Paths : dc[p] # NoDentry => Fits(dc[p], Of(dc, Parent[p]), p, f)

SoundInv == Inv /\ BranchesSound /\ Known(dcache, fs)

LEMMA RootBounded == Bounded(RootDentry) /\ RootDentry.hid[0] = "live"
BY BranchAssumption DEF RootDentry, Bounded, Branches

LEMMA ZeroBranch ==
    /\ 0 \in Branches /\ \A b \in Branches : b \in Int /\ 0 =< b
    /\ OneWritable => \A b \in Branches : IsRobranch(b) <=> b # 0
BY BranchAssumption DEF Branches, OneWritable, IsRobranch

\* The entries of a sound branch are in its directories.
LEMMA InDirectory ==
    ASSUME NEW f \in [Branches -> SoundBranches], NEW b \in Branches, NEW p \in Paths,
           f[b].node[p] # None \/ p \in f[b].wh
    PROVE  IsDir(f, b, Parent[p])
BY SoundType DEF LowerTree, IsDir

\* A directory with a dentry that starts in one of its directories is searched
\* there; in the first branch either it is searched or nothing is there.
LEMMA ReachedParent ==
    ASSUME SoundInv, NEW p \in Paths, Reached(p)
    PROVE  LET pd == DentryOf(Parent[p])
               S  == Searched(fs, pd, p, pd.bstart, pd.bend)
           IN  /\ pd \in GoodDentries /\ Bounded(pd) /\ pd.bstart \in S
               /\ 0 \in S \/ (fs[0].node[p] = None /\ p \notin fs[0].wh)
               /\ 0 \in S <=> pd.hid[0] # "null"
<1> DEFINE pd == DentryOf(Parent[p])
           S  == Searched(fs, pd, p, pd.bstart, pd.bend)
<1>1. CASE Parent[p] = Root
  <2>1. pd = RootDentry
    BY <1>1 DEF DentryOf
  <2>2. S = Branches
    BY <1>1, <2>1, RootSearched
  <2>3. pd.bstart = 0 /\ pd.hid[0] # "null"
    BY <2>1, RootBounded DEF RootDentry
  <2> QED BY <2>1, <2>2, <2>3, RootBounded, RootDentryGood, ZeroBranch
<1>2. CASE Parent[p] # Root
  <2> DEFINE q == Parent[p]
  <2>1. q \in Paths /\ pd = dcache[q] /\ pd # NoDentry /\ Object(fs, pd, q) = Dir
    BY <1>2, PathsAssumption DEF Reached, DentryOf, Cached
  <2>2. pd \in GoodDentries
    BY <2>1 DEF SoundInv, Inv, Caches
  <2>3. Bounded(pd) /\ KnownTop(pd, Of(dcache, Parent[q]), q, fs)
    BY <2>1 DEF SoundInv, Known, Fits
  <2> HIDE DEF pd
  <2>4. pd.hid[pd.bstart] = "live" /\ fs[pd.bstart].node[q] = Dir
    <3>1. Lost # Dir
      BY LostAssumption DEF Nodes
    <3> QED BY <2>1, <2>2, <3>1, GoodFields DEF Object, Pointers
  <2>5. pd.bstart \in S
    BY <1>2, <2>2, <2>3, <2>4, GoodFields, ZeroBranch DEF Searched, IsDir, Bounded
  <2>6. CASE pd.hid[0] = "null"
    <3>1. fs[0].node[q] # Dir
      BY <2>3, <2>6, ValuesAssumption DEF KnownTop
    <3>2. ~IsDir(fs, 0, q)
      BY <1>2, <3>1 DEF IsDir
    <3>3. fs[0].node[p] = None /\ p \notin fs[0].wh
      BY <3>2, InDirectory, ZeroBranch DEF SoundInv, BranchesSound
    <3>4. 0 \notin S
      BY <2>6 DEF Searched
    <3> QED BY <2>2, <2>3, <2>5, <2>6, <3>3, <3>4 DEF pd
  <2>7. CASE pd.hid[0] # "null"
    <3>1. pd.bstart = 0
      BY <2>2, <2>3, <2>7, GoodFields, ZeroBranch DEF Bounded
    <3> QED BY <2>2, <2>3, <2>5, <2>7, <3>1 DEF pd
  <2> QED BY <2>6, <2>7
<1> QED BY <1>1, <1>2

\* The pointers of d are to everything found in the branches S up to the last,
\* with no whiteout on the way.
Complete(d, p, f, S) ==
    \A c \in Branches : d.hid[c] # "null" =>
        /\ d.hid[c] = "live" /\ c \in S
        /\ f[c].node[p] # None
        /\ \A m \in S : m =< c => p \notin f[m].wh
        /\ \A m \in S : m =< c /\ f[m].node[p] # None => d.hid[m] = "live"

\* What Lookup returns in a directory that has branches to search: pointers to
\* what it found up to where it ended, or the one of a negative dentry.
LEMMA LookupIs ==
    ASSUME NEW f \in [Branches -> SoundBranches], NEW pd, NEW p \in Paths,
           pd.bstart \in Searched(f, pd, p, pd.bstart, pd.bend)
    PROVE  LET d == Lookup(f, pd, p)
               S == Searched(f, pd, p, pd.bstart, pd.bend)
           IN  \/ /\ IsNegative(f, d, p)
                  /\ d.bstart \in S /\ d.bend = d.bstart /\ d.hid = LiveIn({d.bstart})
                  /\ d.bopaque \in -1 .. NB - 1
                  /\ f[d.bstart].node[p] = None
                  /\ 0 \in S => d.bstart = 0
               \/ /\ ~IsNegative(f, d, p) /\ d \in GoodDentries /\ Bounded(d)
                  /\ Complete(d, p, f, S)
<1> DEFINE S     == Searched(f, pd, p, pd.bstart, pd.bend)
           marks == WhiteoutIn(f, p, S) \cup OpaqueIn(f, p, S)
           ends  == marks \cup FirstFileIn(f, p, S)
           seen  == UpTo(S, ends)
           found == FoundIn(f, p, seen)
           hit   == marks \cap seen
           plain == {b \in seen : p \notin f[b].wh}
           first == IF plain = {} THEN Leftmost(hit) ELSE Leftmost(plain)
           o     == IF hit = {} THEN -1 ELSE Leftmost(hit)
           d     == Lookup(f, pd, p)
<1>1. S \in SUBSET Branches /\ ends \in SUBSET S /\ S # {}
  BY DEF Searched, WhiteoutIn, OpaqueIn, FirstFileIn, FoundIn
<1>2. seen # {} /\ seen \in SUBSET S
  <2> HIDE DEF S, ends
  <2>1. UpTo(S, ends) # {}
    BY <1>1, UpToSome
  <2> QED BY <1>1, <2>1 DEF UpTo
<1>3. \A b \in seen : p \in f[b].wh <=> b \in WhiteoutIn(f, p, S)
  <2> HIDE DEF S, ends
  <2> QED BY <1>2 DEF WhiteoutIn
<1>4. hit \in SUBSET S /\ plain \in SUBSET S /\ found \in SUBSET S /\ (plain # {} \/ hit # {})
  <2> HIDE DEF S, ends, seen
  <2> QED BY <1>2, <1>3 DEF FoundIn
<1>5. \A b \in seen, m \in ends : b =< m
  BY DEF UpTo
<1>6. \A c \in found, m \in S : m =< c => m \in seen
  <2> HIDE DEF S, ends
  <2> SUFFICES ASSUME NEW c \in found, NEW m \in S, m =< c PROVE m \in seen
    OBVIOUS
  <2>1. c \in seen
    BY DEF FoundIn
  <2>2. \A e \in ends : m =< e
    <3> TAKE e \in ends
    <3>1. c =< e /\ m \in Nat /\ c \in Nat /\ e \in Nat
      BY <1>1, <1>2, <1>5, <2>1, ZeroBranch
    <3> QED BY <3>1
  <2> QED BY <2>2 DEF UpTo
<1>7. CASE found = {}
  <2>1. d = [bstart |-> first, bend |-> first, bopaque |-> o, hid |-> LiveIn({first})]
    BY <1>7 DEF Lookup
  <2>2. first \in seen
    <3> HIDE DEF seen, hit, plain, S, marks
    <3>1. (plain # {} => Leftmost(plain) \in plain) /\ (hit # {} => Leftmost(hit) \in hit)
      BY <1>1, <1>4, LeftmostIsLeast
    <3>2. plain \in SUBSET seen /\ hit \in SUBSET seen
      BY DEF hit, plain
    <3> QED BY <1>4, <3>1, <3>2
  <2>3. \A b \in seen : f[b].node[p] = None
    <3> SUFFICES ASSUME NEW b \in seen PROVE f[b].node[p] = None
      OBVIOUS
    <3>1. b \in Branches
      BY <1>1, <1>2
    <3>2. p \in f[b].wh => f[b].node[p] = None
      BY <3>1, SoundType DEF Unambiguous
    <3> QED BY <1>7, <3>2 DEF FoundIn
  <2>4. o \in -1 .. NB - 1
    <3> HIDE DEF hit
    <3>1. hit \in SUBSET Branches /\ -1 \in -1 .. NB - 1
      BY <1>1, <1>4, BranchAssumption
    <3> QED BY <3>1, BranchIsOpaque
  <2>5. 0 \in S => first = 0
    <3> SUFFICES ASSUME 0 \in S PROVE first = 0
      OBVIOUS
    <3>1. 0 \in seen
      <4> HIDE DEF S, ends
      <4>1. \A e \in ends : 0 =< e
        BY <1>1, ZeroBranch
      <4> QED BY <4>1 DEF UpTo
    <3>2. CASE 0 \in plain
      <4> HIDE DEF seen, hit, plain, S
      <4>1. Leftmost(plain) \in Branches /\ Leftmost(plain) =< 0
        BY <1>1, <1>4, <3>2, LeftmostIsLeast
      <4> DEFINE l == Leftmost(plain)
      <4>2. l \in Branches /\ l =< 0
        BY <4>1
      <4> HIDE DEF l
      <4>3. l = 0
        BY <4>2, ZeroBranch
      <4>4. first = l
        BY <3>2 DEF l
      <4> QED BY <4>3, <4>4
    <3>3. CASE 0 \notin plain
      <4>1. 0 \in WhiteoutIn(f, p, S) /\ 0 \in hit
        <5> HIDE DEF S, seen
        <5> QED BY <1>3, <3>1, <3>3
      <4>2. \A b \in seen : b = 0
        <5> HIDE DEF seen, S
        <5> QED BY <1>1, <1>2, <1>5, <4>1, ZeroBranch
      <4>3. plain = {}
        <5> HIDE DEF seen, S
        <5> QED BY <3>3, <4>2
      <4>4. Leftmost(hit) = 0
        <5> HIDE DEF S, marks
        <5>1. Leftmost(hit) \in hit
          BY <1>1, <1>4, <4>1, LeftmostIsLeast
        <5> HIDE DEF seen
        <5> QED BY <4>2, <5>1
      <4> HIDE DEF plain, hit
      <4> QED BY <4>3, <4>4
    <3> QED BY <3>2, <3>3
  <2> HIDE DEF first, o, seen, S, found, hit, plain, marks
  <2>6. first \in S /\ first \in Branches /\ f[first].node[p] = None
    BY <1>1, <1>2, <2>2, <2>3
  <2>7. \A b \in Branches : d.hid[b] = "live" => b = first
    BY <2>1, LiveInType
  <2>8. IsNegative(f, d, p)
    <3> HIDE DEF d
    <3> QED BY <2>6, <2>7 DEF IsNegative
  <2> QED BY <2>1, <2>4, <2>5, <2>6, <2>8 DEF S
<1>8. CASE found # {}
  <2> DEFINE e == IF hit = {} THEN Rightmost(found) ELSE Leftmost(hit)
  <2>1. d = [bstart |-> Leftmost(found), bend |-> e, bopaque |-> o, hid |-> LiveIn(found)]
    BY <1>8 DEF Lookup
  <2>2. Leftmost(found) \in found /\ \A c \in found : Leftmost(found) =< c
    <3> HIDE DEF found, S
    <3> QED BY <1>1, <1>4, <1>8, LeftmostIsLeast
  <2>3. found \in SUBSET seen /\ found \in SUBSET Branches
    <3>1. found \in SUBSET seen
      BY DEF FoundIn
    <3> QED BY <1>1, <1>2, <3>1
  <2>4. \A b \in Branches : d.hid[b] = IF b \in found THEN "live" ELSE "null"
    <3> HIDE DEF found
    <3> QED BY <2>1, LiveInType
  <2>5. Leftmost(found) =< e
    <3>1. CASE hit = {}
      <4> HIDE DEF found, hit
      <4>1. Rightmost(found) \in found
        BY <1>8, <2>3, RightmostIsGreatest
      <4> QED BY <2>2, <3>1, <4>1
    <3>2. CASE hit # {}
      <4>1. Leftmost(hit) \in hit
        <5> HIDE DEF hit, S
        <5> QED BY <1>1, <1>4, <3>2, LeftmostIsLeast
      <4>2. Leftmost(hit) \in ends /\ Leftmost(found) \in seen
        <5> HIDE DEF found, seen
        <5> QED BY <2>2, <2>3, <4>1
      <4>3. Leftmost(found) =< Leftmost(hit)
        <5> HIDE DEF found, seen, ends, hit
        <5> QED BY <1>5, <4>2
      <4> QED BY <3>2, <4>3
    <3> QED BY <3>1, <3>2
  <2>6. Bounded(d)
    <3> HIDE DEF found, e
    <3>1. d.bstart = Leftmost(found) /\ d.bend = e
      BY <2>1
    <3>2. ASSUME NEW m \in Branches, m < Leftmost(found) PROVE m \notin found
      <4>1. m \in found => Leftmost(found) =< m
        BY <2>2
      <4>2. Leftmost(found) \in Nat /\ m \in Nat
        BY <2>2, <2>3, ZeroBranch
      <4> QED BY <3>2, <4>1, <4>2
    <3> HIDE DEF d
    <3> QED BY <2>4, <2>5, <3>1, <3>2 DEF Bounded
  <2>7. ~IsNegative(f, d, p)
    <3>1. Leftmost(found) \in Branches
      BY <2>2, <2>3
    <3>2. f[Leftmost(found)].node[p] # None /\ p \notin f[Leftmost(found)].wh
      BY <2>2 DEF FoundIn
    <3>3. d.hid[Leftmost(found)] = "live"
      <4> HIDE DEF found, d
      <4> QED BY <2>2, <2>4, <3>1
    <3> HIDE DEF found, d
    <3> QED BY <3>1, <3>2, <3>3 DEF IsNegative
  <2>8. d \in GoodDentries
    BY <2>7, LookupGood
  <2>9. ASSUME NEW c \in found
        PROVE  /\ c \in S /\ f[c].node[p] # None
               /\ \A m \in S : m =< c => p \notin f[m].wh
               /\ \A m \in S : m =< c /\ f[m].node[p] # None => m \in found
    <3>1. c \in S /\ c \in seen /\ f[c].node[p] # None /\ p \notin f[c].wh
      <4>1. c \in seen /\ f[c].node[p] # None /\ p \notin f[c].wh
        BY DEF FoundIn
      <4> QED BY <1>2, <4>1
    <3>2. ASSUME NEW m \in S, m =< c PROVE p \notin f[m].wh
      <4> HIDE DEF S, seen, found
      <4>1. SUFFICES ASSUME p \in f[m].wh PROVE FALSE
        OBVIOUS
      <4>2. m \in seen
        BY <1>6, <3>2
      <4>3. m \in ends
        BY <1>3, <4>1, <4>2
      <4>4. c =< m
        BY <1>5, <3>1, <4>3
      <4>5. c = m
        BY <1>1, <3>1, <3>2, <4>4, ZeroBranch
      <4> QED BY <3>1, <4>1, <4>5
    <3>3. ASSUME NEW m \in S, m =< c, f[m].node[p] # None PROVE m \in found
      <4>1. m \in seen /\ p \notin f[m].wh
        <5> HIDE DEF seen, S, found
        <5> QED BY <1>6, <3>2, <3>3
      <4> QED BY <3>3, <4>1 DEF FoundIn
    <3> QED BY <3>1, <3>2, <3>3
  <2>10. S \in SUBSET Branches
    BY <1>1
  <2> HIDE DEF S, found, d
  <2>11. Complete(d, p, f, S)
    BY <2>4, <2>9, <2>10 DEF Complete
  <2> QED BY <2>6, <2>7, <2>8, <2>11 DEF S, d
<1> QED BY <1>7, <1>8

\* So a dentry that a lookup finds fits what is there.
LEMMA LookupFits ==
    ASSUME SoundInv, NEW p \in Paths, Reached(p), ~Cached(p), Present(p)
    PROVE  /\ Target(p) \in GoodDentries
           /\ Fits(Target(p), DentryOf(Parent[p]), p, fs)
<1> DEFINE pd == DentryOf(Parent[p])
           S  == Searched(fs, pd, p, pd.bstart, pd.bend)
           d  == Lookup(fs, pd, p)
<1>1. d = Target(p) /\ ~IsNegative(fs, d, p)
  BY DEF Present, Absent, Target
<1>2. /\ pd \in GoodDentries /\ Bounded(pd) /\ pd.bstart \in S
      /\ 0 \in S \/ (fs[0].node[p] = None /\ p \notin fs[0].wh)
      /\ 0 \in S <=> pd.hid[0] # "null"
  BY ReachedParent
<1>3. /\ d \in GoodDentries /\ Bounded(d)
      /\ Complete(d, p, fs, S)
  <2>1. fs \in [Branches -> SoundBranches]
    BY DEF SoundInv, BranchesSound
  <2>2. pd.bstart \in Searched(fs, pd, p, pd.bstart, pd.bend)
    BY <1>2
  <2> HIDE DEF pd
  <2> QED BY <1>1, <2>1, <2>2, LookupIs
<1>4. S \in SUBSET Branches /\ \A c \in S : pd.hid[c] = "live" /\ c =< pd.bend
  BY DEF Searched
<1>5. \A c \in Branches : c =< pd.bend /\ pd.hid[c] = "live" /\ IsDir(fs, c, Parent[p]) => c \in S
  <2> HIDE DEF pd
  <2>1. \A c \in Branches : pd.hid[c] = "live" => pd.bstart =< c
    BY <1>2, GoodFields, ZeroBranch DEF Bounded
  <2> QED BY <2>1 DEF Searched, S, pd
<1> HIDE DEF S, pd, d
<1>6. d.bstart \in Branches /\ d.hid[d.bstart] # "null"
  BY <1>3, GoodFields
<1>7. KnownTop(d, pd, p, fs)
  <2>1. CASE 0 \in S
    <3>1. 0 =< d.bstart /\ \A m \in S : m =< d.bstart => p \notin fs[m].wh
      BY <1>3, <1>6, ZeroBranch DEF Complete
    <3>2. p \notin fs[0].wh
      BY <2>1, <3>1
    <3>3. fs[0].node[p] # None => d.hid[0] = "live"
      BY <1>3, <1>6, <2>1, <3>1 DEF Complete
    <3> QED BY <1>2, <2>1, <3>2, <3>3 DEF KnownTop
  <2>2. CASE 0 \notin S
    BY <1>2, <1>3, <2>2, ZeroBranch DEF KnownTop, Complete
  <2> QED BY <2>1, <2>2
<1>8. KnownBelow(d, pd, p, fs)
  <2> SUFFICES ASSUME NEW c \in Branches \ {0}, d.hid[c] # "null"
               PROVE  /\ d.hid[c] = "live" /\ pd.hid[c] = "live"
                      /\ fs[c].node[p] # None /\ p \notin fs[c].wh
                      /\ \A m \in Branches \ {0} :
                            m < c /\ pd.hid[m] = "live" /\ (fs[m].node[p] # None \/ p \in fs[m].wh)
                              => d.hid[m] = "live"
    BY DEF KnownBelow
  <2>1. /\ d.hid[c] = "live" /\ c \in S /\ c =< pd.bend /\ c =< c
        /\ fs[c].node[p] # None
        /\ \A m \in S : m =< c => p \notin fs[m].wh
        /\ \A m \in S : m =< c /\ fs[m].node[p] # None => d.hid[m] = "live"
    BY <1>3, <1>4, ZeroBranch DEF Complete
  <2>2. ASSUME NEW m \in Branches \ {0}, m < c, pd.hid[m] = "live",
               fs[m].node[p] # None \/ p \in fs[m].wh
        PROVE  d.hid[m] = "live"
    <3>1. IsDir(fs, m, Parent[p])
      BY <2>2, InDirectory DEF SoundInv, BranchesSound
    <3>2. m =< c /\ m =< pd.bend
      <4>1. pd.bend \in Branches
        BY <1>2, GoodFields
      <4> QED BY <2>1, <2>2, <4>1, ZeroBranch
    <3>3. m \in S
      BY <1>5, <2>2, <3>1, <3>2
    <3> QED BY <2>1, <2>2, <3>2, <3>3
  <2> QED BY <1>4, <2>1, <2>2
<1> QED BY <1>1, <1>3, <1>7, <1>8 DEF Fits, pd

\* A partial lookup finds nothing to the left of the last pointer.
LEMMA PartialFits ==
    ASSUME NEW f \in [Branches -> SoundBranches], NEW p \in Paths,
           NEW pd \in GoodDentries, Bounded(pd), NEW d \in GoodDentries, Fits(d, pd, p, f)
    PROVE  LET e == PartialLookup(f, pd, d, p)
           IN  /\ e \in GoodDentries /\ Fits(e, pd, p, f)
               /\ e.bstart = d.bstart /\ e.hid[0] = d.hid[0]
               /\ \A c \in Branches \ {0} :
                    /\ d.hid[c] # "null" => e.hid[c] = d.hid[c]
                    /\ e.hid[c] # "null" /\ d.hid[c] = "null" =>
                        \A x \in Branches : d.hid[x] # "null" => x < c
               /\ \A c \in Branches : d.hid[c] # "null" =>
                    /\ c =< d.bend => c =< e.bend
                    /\ d.bopaque = -1 \/ c =< d.bopaque =>
                            e.bopaque = -1 \/ c =< e.bopaque
<1> DEFINE lim   == IF pd.bopaque # -1 /\ pd.bopaque < pd.bend
                    THEN pd.bopaque ELSE pd.bend
           S     == {b \in Searched(f, pd, p, pd.bstart + 1, lim) : d.hid[b] = "null"}
           marks == WhiteoutIn(f, p, S) \cup OpaqueIn(f, p, S)
           found == FoundIn(f, p, UpTo(S, marks))
           e     == PartialLookup(f, pd, d, p)
<1>1. e \in GoodDentries /\ e.bstart = d.bstart
  BY PartialLookupGood
<1>2. \A b \in Branches : e.hid[b] = IF b \in found THEN "live" ELSE d.hid[b]
  BY DEF PartialLookup
<1>3. e.bend = IF marks # {} THEN Leftmost(marks)
               ELSE IF found # {} THEN Rightmost(found) ELSE d.bend
  BY DEF PartialLookup
<1>4. ASSUME NEW c \in S
      PROVE  /\ c \in Branches \ {0} /\ pd.bstart < c /\ pd.hid[c] = "live"
             /\ d.hid[c] = "null" /\ c =< lim
  <2>1. c \in Branches /\ pd.bstart + 1 =< c /\ pd.hid[c] = "live" /\ d.hid[c] = "null" /\ c =< lim
    BY DEF Searched
  <2>2. c # 0 /\ pd.bstart < c
    BY <2>1, GoodFields, ZeroBranch
  <2> QED BY <2>1, <2>2
<1>5. marks \in SUBSET S /\ found \in SUBSET S
  BY DEF WhiteoutIn, OpaqueIn, FoundIn, UpTo
<1>6. ASSUME NEW c \in S, f[c].node[p] # None \/ p \in f[c].wh,
             NEW x \in Branches, d.hid[x] # "null"
      PROVE  x < c
  <2>1. CASE x = 0
    <3>1. c \in Branches /\ c # 0
      BY <1>4
    <3> QED BY <2>1, <3>1, ZeroBranch
  <2>2. CASE x # 0
    <3>1. x # c
      BY <1>4, <1>6
    <3>2. ~ (c < x)
      BY <1>4, <1>6, <2>2 DEF Fits, KnownBelow
    <3>3. c \in Branches
      BY <1>4
    <3>4. c \in Int /\ x \in Int
      BY <3>3, ZeroBranch
    <3> QED BY ONLY <3>1, <3>2, <3>4
  <2> QED BY <2>1, <2>2
<1>7. \A c \in marks \cup found : f[c].node[p] # None \/ p \in f[c].wh
  BY DEF WhiteoutIn, OpaqueIn, FoundIn
<1>8. \A c \in found : f[c].node[p] # None /\ p \notin f[c].wh
  BY DEF FoundIn
<1>9. \A c \in found, m \in S : m < c /\ (f[m].node[p] # None \/ p \in f[m].wh) => m \in found
  <2> SUFFICES ASSUME NEW c \in found, NEW m \in S, m < c, f[m].node[p] # None \/ p \in f[m].wh
               PROVE  m \in found
    OBVIOUS
  <2>1. \A x \in marks : c =< x
    BY DEF FoundIn, UpTo
  <2>2. \A x \in marks : m < x
    <3> HIDE DEF S, marks, found
    <3> QED BY <1>4, <1>5, <2>1, ZeroBranch
  <2>3. m \notin marks
    <3> HIDE DEF S, marks, found
    <3> QED BY <1>4, <2>2, ZeroBranch
  <2>4. m \in UpTo(S, marks)
    <3> HIDE DEF S
    <3>1. \A x \in marks : m =< x
      <4> HIDE DEF marks, found
      <4> QED BY <1>4, <1>5, <2>2, ZeroBranch
    <3> QED BY <3>1 DEF UpTo
  <2>5. p \notin f[m].wh
    BY <2>3 DEF WhiteoutIn
  <2> QED BY <2>4, <2>5 DEF FoundIn
<1> HIDE DEF S, marks, found, e
<1>10. d.bstart \in Branches /\ d.hid[d.bstart] # "null" /\ d.bend \in Branches /\ d.bstart =< d.bend
  BY GoodFields DEF Fits, Bounded
<1>11. marks \in SUBSET Branches /\ found \in SUBSET Branches
  BY <1>4, <1>5
<1>12. Bounded(e)
  <2>1. \A c \in marks \cup found : d.bstart < c
    BY <1>5, <1>6, <1>7, <1>10
  <2>2. d.bstart =< e.bend
    <3>1. CASE marks # {}
      <4>1. Leftmost(marks) \in marks
        BY <1>11, <3>1, LeftmostIsLeast
      <4>2. d.bstart < Leftmost(marks) /\ Leftmost(marks) \in Branches
        BY <1>11, <2>1, <4>1
      <4> QED BY <1>3, <1>10, <3>1, <4>2, ZeroBranch
    <3>2. CASE marks = {} /\ found # {}
      <4>1. Rightmost(found) \in found
        BY <1>11, <3>2, RightmostIsGreatest
      <4>2. d.bstart < Rightmost(found) /\ Rightmost(found) \in Branches
        BY <1>11, <2>1, <4>1
      <4> QED BY <1>3, <1>10, <3>2, <4>2, ZeroBranch
    <3> QED BY <1>3, <1>10, <3>1, <3>2
  <2>3. ASSUME NEW m \in Branches, m < e.bstart PROVE e.hid[m] = "null"
    <3>1. d.hid[m] = "null"
      BY <1>1, <2>3 DEF Fits, Bounded
    <3>2. m \notin found
      <4>1. m \in found => d.bstart < m
        BY <2>1
      <4> QED BY <1>1, <1>10, <2>3, <4>1, ZeroBranch
    <3> QED BY <1>2, <3>1, <3>2
  <2> QED BY <1>1, <2>2, <2>3 DEF Bounded
<1>13. e.hid[0] = d.hid[0] /\ KnownTop(e, pd, p, f)
  <2>1. e.hid[0] = d.hid[0]
    BY <1>2, <1>4, <1>5, ZeroBranch
  <2> QED BY <2>1 DEF Fits, KnownTop
<1>14. KnownBelow(e, pd, p, f)
  <2> SUFFICES ASSUME NEW c \in Branches \ {0}, e.hid[c] # "null"
               PROVE  /\ e.hid[c] = "live" /\ pd.hid[c] = "live"
                      /\ f[c].node[p] # None /\ p \notin f[c].wh
                      /\ \A m \in Branches \ {0} :
                            m < c /\ pd.hid[m] = "live" /\ (f[m].node[p] # None \/ p \in f[m].wh)
                              => e.hid[m] = "live"
    BY DEF KnownBelow
  <2>1. CASE d.hid[c] # "null"
    <3>1. /\ d.hid[c] = "live" /\ pd.hid[c] = "live"
          /\ f[c].node[p] # None /\ p \notin f[c].wh
          /\ \A m \in Branches \ {0} :
                m < c /\ pd.hid[m] = "live" /\ (f[m].node[p] # None \/ p \in f[m].wh)
                  => d.hid[m] = "live"
      BY <2>1 DEF Fits, KnownBelow
    <3> QED BY <1>2, <3>1
  <2>2. CASE d.hid[c] = "null"
    <3>1. c \in found
      BY <1>2, <2>2
    <3>2. ASSUME NEW m \in Branches \ {0}, m < c, pd.hid[m] = "live",
                 f[m].node[p] # None \/ p \in f[m].wh
          PROVE  e.hid[m] = "live"
      <4>1. CASE d.hid[m] # "null"
        <5>1. d.hid[m] = "live"
          BY <4>1 DEF Fits, KnownBelow
        <5> QED BY <1>2, <5>1
      <4>2. CASE d.hid[m] = "null"
        <5>1. pd.bstart \in Branches /\ pd.bstart =< m
          BY <3>2, GoodFields, ZeroBranch DEF Bounded
        <5>2. m # pd.bstart
          <6> SUFFICES ASSUME m = pd.bstart PROVE FALSE
            OBVIOUS
          <6>1. pd.hid[0] = "null"
            BY ZeroBranch DEF Bounded
          <6>2. d.hid[0] = "null"
            BY <6>1 DEF Fits, KnownTop
          <6>3. d.bstart # 0 /\ d.bstart # m
            BY <1>10, <4>2, <6>2
          <6>4. pd.hid[d.bstart] = "live"
            BY <1>10, <6>3 DEF Fits, KnownBelow
          <6>5. m =< d.bstart
            BY <1>10, <6>4, ZeroBranch DEF Bounded
          <6>6. m < d.bstart
            BY <1>10, <6>3, <6>5, ZeroBranch
          <6>7. d.hid[m] = "live"
            BY <1>10, <3>2, <6>3, <6>6 DEF Fits, KnownBelow
          <6> QED BY <4>2, <6>7
        <5>3. pd.bstart + 1 =< m
          BY <5>1, <5>2, ZeroBranch
        <5>4. m =< lim
          <6>1. lim \in Int
            BY GoodFields, ZeroBranch
          <6>2. c =< lim /\ c \in Int /\ m \in Int
            BY <1>4, <1>5, <3>1, ZeroBranch
          <6> HIDE DEF lim
          <6> QED BY <3>2, <6>1, <6>2
        <5>5. IsDir(f, m, Parent[p])
          BY <3>2, InDirectory
        <5>6. m \in S
          BY <3>2, <4>2, <5>3, <5>4, <5>5 DEF S, Searched
        <5> QED BY <1>2, <1>9, <3>1, <3>2, <5>6
      <4> QED BY <4>1, <4>2
    <3> QED BY <1>2, <1>4, <1>5, <1>8, <3>1, <3>2
  <2> QED BY <2>1, <2>2
<1>15. ASSUME NEW c \in Branches \ {0}
       PROVE  /\ d.hid[c] # "null" => e.hid[c] = d.hid[c]
              /\ e.hid[c] # "null" /\ d.hid[c] = "null" =>
                    \A x \in Branches : d.hid[x] # "null" => x < c
  <2>1. d.hid[c] # "null" => c \notin found
    BY <1>4, <1>5
  <2>2. ASSUME e.hid[c] # "null", d.hid[c] = "null", NEW x \in Branches, d.hid[x] # "null"
        PROVE  x < c
    <3>1. c \in found
      BY <1>2, <2>2
    <3> QED BY <1>5, <1>6, <1>7, <2>2, <3>1
  <2> QED BY <1>2, <2>1, <2>2
<1>16. e.bopaque = IF marks # {} THEN Leftmost(marks) ELSE d.bopaque
  BY DEF PartialLookup, e, marks, S, lim
<1>17. ASSUME NEW c \in Branches, d.hid[c] # "null"
       PROVE  /\ c =< d.bend => c =< e.bend
              /\ d.bopaque = -1 \/ c =< d.bopaque => e.bopaque = -1 \/ c =< e.bopaque
  <2>1. \A m \in marks \cup found : c < m
    BY <1>5, <1>6, <1>7, <1>17
  <2>2. marks # {} => Leftmost(marks) \in Branches /\ c < Leftmost(marks)
    BY <1>11, <2>1, LeftmostIsLeast
  <2>3. found # {} => Rightmost(found) \in Branches /\ c < Rightmost(found)
    BY <1>11, <2>1, RightmostIsGreatest
  <2> QED BY <1>3, <1>16, <2>2, <2>3, ZeroBranch
<1> QED BY <1>1, <1>12, <1>13, <1>14, <1>15, <1>17 DEF Fits, e

-----------------------------------------------------------------------------
(* What create_parents builds.                                             *)

\* The ancestors of a name are one below the other.
LEMMA Chain ==
    ASSUME NEW p \in Paths, NEW c \in Above[p], NEW a \in Above[p]
    PROVE  c = a \/ c \in Above[a] \/ a \in Above[c]
<1> DEFINE Apart(x, y) == ~ (x = y \/ x \in Above[y] \/ y \in Above[x])
           Q == {r \in Paths : \E x, y \in Above[r] : Apart(x, y)}
<1>1. ASSUME NEW r \in Q PROVE Parent[r] \in Q
  <2>1. PICK x, y \in Above[r] : Apart(x, y)
    OBVIOUS
  <2> DEFINE t == Parent[r]
  <2>2. t \in Paths /\ Above[r] = {t} \cup Above[t]
    BY <2>1, PathsAssumption
  <2>3. x # y /\ x \notin Above[y] /\ y \notin Above[x]
    BY <2>1
  <2>4. x \in Above[t] /\ y \in Above[t]
    BY <2>2, <2>3
  <2> QED BY <2>1, <2>2, <2>4
<1>2. Q = {}
  <2>1. Q \in SUBSET Paths
    OBVIOUS
  <2> HIDE DEF Q
  <2> QED BY <1>1, <2>1, NoEndlessClimb
<1> QED BY <1>2

\* The missing ancestors go up without a gap, from the parent to a directory
\* with a pointer or to the root.
LEMMA MissingUp ==
    ASSUME NEW dc, NEW p \in Paths, NEW b, NEW q \in Missing(dc, p, b) \cup {p},
           Parent[q] # Root
    PROVE  /\ q \in Paths /\ Parent[q] \in Above[p] /\ Parent[q] \in Paths
           /\ \/ Parent[q] \in Missing(dc, p, b)
              \/ Parent[q] \in FirstPointed(dc, p, b) /\ dc[Parent[q]].hid[b] # "null"
<1> DEFINE t == Parent[q]
           M == Missing(dc, p, b)
<1>1. /\ q \in Paths /\ t \in Paths /\ Above[q] = {t} \cup Above[t]
      /\ t \in Above[p] /\ (q = p \/ q \in Above[p])
  BY PathsAssumption DEF Missing
<1>2. ASSUME NEW c \in Above[p], t \in Above[c]
      PROVE  c \in M
  <2>1. c = q \/ q \in Above[c]
    <3>1. CASE q = p
      <4>1. c \in {t} \cup Above[t]
        BY <1>1, <3>1
      <4> QED BY <1>1, <1>2, <4>1, PathsAssumption
    <3>2. CASE q # p
      <4>1. c = q \/ c \in Above[q] \/ q \in Above[c]
        BY <1>1, <3>2, Chain
      <4>2. c \notin Above[q]
        BY <1>1, <1>2, PathsAssumption
      <4> QED BY <4>1, <4>2
    <3> QED BY <3>1, <3>2
  <2>2. q # p
    BY <2>1, PathsAssumption
  <2>3. q \in M
    BY <2>2
  <2>4. \A x \in Above[p] : x = c \/ c \in Above[x] => x = q \/ q \in Above[x]
    BY <2>1, PathsAssumption
  <2> QED BY <2>3, <2>4 DEF Missing
<1>3. ASSUME t \notin M PROVE t \in FirstPointed(dc, p, b) /\ dc[t].hid[b] # "null"
  <2>1. t \in FirstPointed(dc, p, b)
    BY <1>1, <1>2, <1>3 DEF FirstPointed
  <2>2. PICK c \in Above[p] : (c = t \/ t \in Above[c]) /\ dc[c].hid[b] # "null"
    BY <1>1, <1>3 DEF Missing
  <2>3. c \in M => dc[c].hid[b] = "null"
    BY DEF Missing
  <2> QED BY <1>2, <2>1, <2>2, <2>3
<1> QED BY <1>1, <1>3

\* A dentry that has been given a pointer in the first branch, or none.
Keeps(d, e) ==
    /\ \A c \in Branches \ {0} : e.hid[c] = d.hid[c]
    /\ d.hid[0] # "null" => e.hid[0] # "null"

LEMMA TopDentries ==
    ASSUME NEW dc \in Caches, NEW p \in Paths, NEW B \in SUBSET {0},
           NEW q \in Paths, dc[q] # NoDentry, Bounded(dc[q])
    PROVE  LET e == ParentDentries(dc, p, B)[q]
           IN  /\ Keeps(dc[q], e) /\ Bounded(e)
               /\ e.bend = dc[q].bend /\ e.bopaque = dc[q].bopaque
               /\ e.hid[0] = IF 0 \in B /\ q \in Missing(dc, p, 0) THEN "live"
                             ELSE dc[q].hid[0]
               /\ ~ (0 \in B /\ q \in Missing(dc, p, 0)) => e = dc[q]
<1> DEFINE e == ParentDentries(dc, p, B)[q]
           d == dc[q]
           new == {b \in B : q \in Missing(dc, p, b)}
<1>1. d \in GoodDentries
  BY DEF Caches
<1>2. CASE ~ (0 \in B /\ q \in Missing(dc, p, 0))
  <2>1. new = {}
    BY <1>2
  <2>2. e = d
    BY <2>1 DEF ParentDentries
  <2> QED BY <1>2, <2>2 DEF Keeps
<1>3. CASE 0 \in B /\ q \in Missing(dc, p, 0)
  <2>1. new = {0}
    BY <1>3
  <2>2. e = [bstart |-> Leftmost({0, d.bstart}), bend |-> Rightmost({0, d.bend}),
             bopaque |-> d.bopaque,
             hid |-> [b \in Branches |-> IF b = 0 THEN "live" ELSE d.hid[b]]]
    <3>1. e = [bstart |-> Leftmost(new \cup {d.bstart}), bend |-> Rightmost(new \cup {d.bend}),
               bopaque |-> d.bopaque,
               hid |-> [b \in Branches |-> IF b \in new THEN "live" ELSE d.hid[b]]]
      BY <2>1 DEF ParentDentries
    <3>2. new \cup {d.bstart} = {0, d.bstart} /\ new \cup {d.bend} = {0, d.bend}
      BY <2>1
    <3> HIDE DEF new, d, e
    <3> QED BY <2>1, <3>1, <3>2
  <2>3. {0, d.bstart} \in SUBSET Branches /\ {0, d.bend} \in SUBSET Branches
    BY <1>1, GoodFields, ZeroBranch
  <2> HIDE DEF e, d, new
  <2>4. Leftmost({0, d.bstart}) = 0
    <3> DEFINE l == Leftmost({0, d.bstart})
    <3>1. l \in {0, d.bstart} /\ l =< 0
      BY <2>3, LeftmostIsLeast
    <3> HIDE DEF l
    <3>2. l \in Branches
      BY <2>3, <3>1
    <3>3. l = 0
      BY <3>1, <3>2, ZeroBranch
    <3> QED BY <3>3 DEF l
  <2>5. Rightmost({0, d.bend}) = d.bend /\ d.bend \in Branches
    <3> DEFINE l == Rightmost({0, d.bend})
    <3>1. l \in {0, d.bend} /\ d.bend =< l
      BY <2>3, RightmostIsGreatest
    <3> HIDE DEF l
    <3>2. l = d.bend
      BY <2>3, <3>1, ZeroBranch
    <3> QED BY <2>3, <3>2 DEF l
  <2>6. e.bstart = 0 /\ e.bend = d.bend /\ e.bend \in Branches /\ e.bopaque = d.bopaque
    BY <2>2, <2>4, <2>5
  <2>7. e.hid[0] = "live" /\ \A c \in Branches \ {0} : e.hid[c] = d.hid[c]
    BY <2>2, ZeroBranch
  <2>8. Bounded(e)
    <3>1. 0 =< e.bend
      BY <2>6, ZeroBranch
    <3>2. \A m \in Branches : ~ (m < 0)
      BY ZeroBranch
    <3> QED BY <2>6, <3>1, <3>2 DEF Bounded
  <2> QED BY <1>3, <2>6, <2>7, <2>8 DEF Keeps, e, d
<1> QED BY <1>2, <1>3

(***************************************************************************)
(* What a step must do to keep the dentries fitting: away from p it        *)
(* rewrites the dentries and the branches as create_parents does, in the   *)
(* first branch or not at all (B), or drops dentries; dc1 is the cache     *)
(* with p as the operation looked it up.                                   *)
(***************************************************************************)
Rewrites(p, B, dc1, dc2, f2) ==
    /\ \A q \in Paths \ {p} :
         /\ dc1[q] = dcache[q]
         /\ dc2[q] = NoDentry \/ dc2[q] = ParentDentries(dcache, p, B)[q]
         /\ f2[0].node[q] = IF 0 \in B /\ q \in Missing(dcache, p, 0) THEN Dir
                            ELSE fs[0].node[q]
    /\ f2[0].wh \subseteq fs[0].wh \cup {p}
    /\ dc2[p] # NoDentry =>
         /\ Bounded(dc2[p])
         /\ KnownTop(dc2[p], Of(dc2, Parent[p]), p, f2)
         /\ \/ dc1[p] # NoDentry /\ Keeps(dc1[p], dc2[p])
            \/ dc1[p] = NoDentry /\ \A c \in Branches \ {0} : dc2[p].hid[c] = "null"

LEMMA KnownAfter ==
    ASSUME SoundInv, OneWritable, NEW p \in Paths, Reached(p), NEW B \in SUBSET {0},
           NEW dc1 \in Caches, Closed(dc1), Known(dc1, fs),
           NEW dc2 \in Caches, Closed(dc2), NEW f2, Safe(fs, f2),
           Rewrites(p, B, dc1, dc2, f2)
    PROVE  Known(dc2, f2)
<1> DEFINE pds == ParentDentries(dcache, p, B)
           M == Missing(dcache, p, 0)
<1>1. \A c \in Branches \ {0} : f2[c] = fs[c]
  BY ZeroBranch DEF Safe
<1>2. dcache \in Caches
  BY DEF SoundInv, Inv
\* away from p, a dentry that is still there
<1>3. ASSUME NEW q \in Paths \ {p}, dc2[q] # NoDentry
      PROVE  /\ dc1[q] # NoDentry /\ dc1[q] = dcache[q] /\ dc2[q] = pds[q]
             /\ Fits(dc1[q], Of(dc1, Parent[q]), q, fs)
             /\ Keeps(dc1[q], dc2[q]) /\ Bounded(dc2[q])
             /\ dc2[q].hid[0] = IF 0 \in B /\ q \in M THEN "live" ELSE dcache[q].hid[0]
  <2>1. dc1[q] = dcache[q] /\ dc2[q] = pds[q]
    BY <1>3 DEF Rewrites
  <2>2. dcache[q] # NoDentry
    <3>1. B \in SUBSET Branches /\ \A a \in Above[p] : dcache[a] # NoDentry
      BY ReachedAncestors, ZeroBranch DEF SoundInv
    <3>2. pds[q] = NoDentry <=> dcache[q] = NoDentry
      BY <1>2, <3>1, ParentDentriesGood
    <3> HIDE DEF pds
    <3> QED BY <1>3, <2>1, <3>2
  <2>3. Fits(dc1[q], Of(dc1, Parent[q]), q, fs)
    BY <2>1, <2>2 DEF Known
  <2>4. Bounded(dcache[q])
    BY <2>1, <2>3 DEF Fits
  <2> HIDE DEF pds, M
  <2>5. /\ Keeps(dcache[q], pds[q]) /\ Bounded(pds[q])
        /\ pds[q].hid[0] = IF 0 \in B /\ q \in M THEN "live" ELSE dcache[q].hid[0]
    BY <1>2, <2>2, <2>4, TopDentries DEF pds, M
  <2> QED BY <2>1, <2>2, <2>3, <2>5
\* what is left of its parent, and of p's
<1>4. ASSUME NEW q \in Paths, dc2[q] # NoDentry, Parent[q] # Root,
             dc1[q] # NoDentry \/ Parent[q] # p
      PROVE  /\ Parent[q] \in Paths /\ dc2[Parent[q]] # NoDentry
             /\ dc1[Parent[q]] # NoDentry
             /\ Keeps(dc1[Parent[q]], dc2[Parent[q]])
  <2>1. Parent[q] \in Paths /\ Parent[q] \in Above[q]
    BY <1>4, PathsAssumption
  <2>2. dc2[Parent[q]] # NoDentry
    BY <1>4, <2>1 DEF Closed
  <2>3. CASE Parent[q] # p
    BY <1>3, <2>1, <2>2, <2>3
  <2>4. CASE Parent[q] = p
    <3>1. dc1[p] # NoDentry
      BY <1>4, <2>1, <2>4 DEF Closed
    <3> QED BY <2>1, <2>2, <2>4, <3>1 DEF Rewrites
  <2> QED BY <2>3, <2>4
<1>5. ASSUME NEW q \in Paths, dc2[q] # NoDentry, dc1[q] # NoDentry
      PROVE  Keeps(Of(dc1, Parent[q]), Of(dc2, Parent[q]))
  <2>1. CASE Parent[q] = Root
    BY <2>1 DEF Of, Keeps
  <2>2. CASE Parent[q] # Root
    BY <1>4, <1>5, <2>2 DEF Of
  <2> QED BY <2>1, <2>2
<1>6. ASSUME NEW d, NEW e, NEW pd, NEW pe, NEW q \in Paths,
             KnownBelow(d, pd, q, fs), Keeps(d, e), Keeps(pd, pe)
      PROVE  KnownBelow(e, pe, q, f2)
  <2> SUFFICES ASSUME NEW c \in Branches \ {0}, e.hid[c] # "null"
               PROVE  /\ e.hid[c] = "live" /\ pe.hid[c] = "live"
                      /\ f2[c].node[q] # None /\ q \notin f2[c].wh
                      /\ \A m \in Branches \ {0} :
                            m < c /\ pe.hid[m] = "live" /\ (f2[m].node[q] # None \/ q \in f2[m].wh)
                              => e.hid[m] = "live"
    BY DEF KnownBelow
  <2>1. \A x \in Branches \ {0} : /\ e.hid[x] = d.hid[x] /\ pe.hid[x] = pd.hid[x]
                                  /\ f2[x] = fs[x]
    BY <1>1, <1>6 DEF Keeps
  <2> QED BY <1>6, <2>1 DEF KnownBelow
<1>7. ASSUME NEW q \in Paths \ {p}, dc2[q] # NoDentry
      PROVE  Fits(dc2[q], Of(dc2, Parent[q]), q, f2)
  <2>1. /\ dc1[q] # NoDentry /\ dc1[q] = dcache[q]
        /\ Fits(dc1[q], Of(dc1, Parent[q]), q, fs)
        /\ Keeps(dc1[q], dc2[q]) /\ Bounded(dc2[q])
        /\ dc2[q].hid[0] = IF 0 \in B /\ q \in M THEN "live" ELSE dcache[q].hid[0]
    BY <1>3, <1>7
  <2>2. Keeps(Of(dc1, Parent[q]), Of(dc2, Parent[q]))
    BY <1>5, <1>7, <2>1
  <2>3. KnownBelow(dc2[q], Of(dc2, Parent[q]), q, f2)
    BY <1>6, <2>1, <2>2 DEF Fits
  <2>4. KnownTop(dc1[q], Of(dc1, Parent[q]), q, fs)
    BY <2>1 DEF Fits
  <2>5. dc2[q].hid[0] = "null" => f2[0].node[q] = None
    <3>1. f2[0].node[q] = IF 0 \in B /\ q \in M THEN Dir ELSE fs[0].node[q]
      BY DEF Rewrites
    <3> HIDE DEF M
    <3> QED BY <2>1, <2>4, <3>1 DEF KnownTop
  <2>6. q \notin f2[0].wh
    BY <2>4 DEF KnownTop, Rewrites
  <2>7. ASSUME dc2[q].hid[0] # "null" PROVE Of(dc2, Parent[q]).hid[0] # "null"
    <3>1. CASE Parent[q] = Root
      BY <3>1, RootBounded DEF Of
    <3>2. CASE Parent[q] # Root /\ 0 \in B /\ q \in M
      <4>1. /\ Parent[q] \in Paths /\ Parent[q] \in Above[p]
            /\ Parent[q] \in M \/ dcache[Parent[q]].hid[0] # "null"
        BY <3>2, MissingUp
      <4>2. Parent[q] # p
        BY <4>1, PathsAssumption
      <4>3. dc2[Parent[q]] # NoDentry
        BY <1>4, <1>7, <3>2, <4>2
      <4>4. dc2[Parent[q]].hid[0] # "null"
        <5> HIDE DEF M
        <5> QED BY <1>3, <3>2, <4>1, <4>2, <4>3
      <4> QED BY <3>2, <4>4 DEF Of
    <3>3. CASE ~ (0 \in B /\ q \in M)
      <4>1. Of(dc1, Parent[q]).hid[0] # "null"
        BY <2>1, <2>4, <2>7, <3>3 DEF KnownTop
      <4> QED BY <2>2, <4>1 DEF Keeps
    <3> QED BY <3>1, <3>2, <3>3
  <2> QED BY <2>1, <2>3, <2>5, <2>6, <2>7 DEF Fits, KnownTop
<1>8. ASSUME dc2[p] # NoDentry PROVE Fits(dc2[p], Of(dc2, Parent[p]), p, f2)
  <2>1. /\ Bounded(dc2[p]) /\ KnownTop(dc2[p], Of(dc2, Parent[p]), p, f2)
        /\ \/ dc1[p] # NoDentry /\ Keeps(dc1[p], dc2[p])
           \/ dc1[p] = NoDentry /\ \A c \in Branches \ {0} : dc2[p].hid[c] = "null"
    BY <1>8 DEF Rewrites
  <2>2. CASE dc1[p] # NoDentry /\ Keeps(dc1[p], dc2[p])
    <3>1. KnownBelow(dc1[p], Of(dc1, Parent[p]), p, fs)
      BY <2>2 DEF Known, Fits
    <3>2. KnownBelow(dc2[p], Of(dc2, Parent[p]), p, f2)
      BY <1>5, <1>6, <1>8, <2>2, <3>1
    <3> QED BY <2>1, <3>2 DEF Fits
  <2>3. CASE \A c \in Branches \ {0} : dc2[p].hid[c] = "null"
    <3>1. KnownBelow(dc2[p], Of(dc2, Parent[p]), p, f2)
      BY <2>3 DEF KnownBelow
    <3> QED BY <2>1, <3>1 DEF Fits
  <2> QED BY <2>1, <2>2, <2>3
<1> QED BY <1>7, <1>8 DEF Known

\* What it must do to keep the first branch sound.
Places(p, B, br) ==
    /\ 0 \in B => ~NoParent(fs, dcache, p, 0)
    /\ br.opq \subseteq fs[0].opq \cup {p}
    /\ p \in br.wh => br.node[p] = None
    /\ p \in br.opq => br.node[p] = Dir
    /\ br.node[p] # None \/ p \in br.wh => 0 \in B \/ IsDir(fs, 0, Parent[p])
    /\ br.node[p] = Dir \/ \A c \in Children(p) : fs[0].node[c] = None /\ c \notin br.wh

(***************************************************************************)
(* What the steps on p come to, for what is proved from this.  Away from p *)
(* a step makes parents in the first branch (B = {0}) or nothing, and      *)
(* drops dentries.  At p, an object is made with its dentry or not         *)
(* (Grown), or one is removed and its dentry d is dropped, pointed at the  *)
(* first branch or kept, in which case no parents could be made (Removed). *)
(***************************************************************************)
Moves(p, B) ==
    /\ B \in SUBSET {0} /\ (0 \in B => ~NoParent(fs, dcache, p, 0))
    /\ \A q \in Paths \ {p} :
         /\ dcache'[q] = NoDentry \/ dcache'[q] = ParentDentries(dcache, p, B)[q]
         /\ fs'[0].node[q] = IF 0 \in B /\ q \in Missing(dcache, p, 0) THEN Dir
                             ELSE fs[0].node[q]

Grown(p) ==
    /\ dcache[p] = NoDentry
    /\ dcache'[p] # NoDentry => dcache'[p].hid[0] # "null"
    /\ \E B : Moves(p, B)

Removed(p, d) ==
    \E B : /\ Moves(p, B)
           /\ \/ dcache'[p] = NoDentry
              \/ 0 \in B /\ dcache'[p].hid[0] # "null" /\ d.hid[0] = "null"
              \/ /\ B = {} /\ dcache'[p] = d
                 /\ d.hid[0] = "null" => NoParent(fs, dcache, p, 0)

Tree(p) == {p} \cup Below(p)

\* Whiteouts and opaque markers of the first branch change in X only.
Marks(X) ==
    \A q \in Paths \ X : /\ q \in fs'[0].wh <=> q \in fs[0].wh
                         /\ q \in fs'[0].opq <=> q \in fs[0].opq

\* A removal has succeeded: the name is whited out in the first branch and no
\* longer cached; unless the whiteout could not be written.
Hidden(p) ==
    /\ last'.ret = "ok" /\ p \in fs'[0].wh /\ Marks(Tree(p))
    /\ \A q \in Tree(p) : dcache'[q] = NoDentry

Unwritten(p) == "whiteout" \in Faults \/ NoParent(fs, dcache, p, 0)

LEMMA PlacedSound ==
    ASSUME SoundInv, NEW p \in Paths, Reached(p), NEW B \in SUBSET {0},
           NEW br \in BranchStates, Places(p, B, br),
           \A q \in Paths \ {p} :
             br.node[q] = IF 0 \in B /\ q \in Missing(dcache, p, 0) THEN Dir ELSE fs[0].node[q],
           br.wh \subseteq fs[0].wh \cup {p}
    PROVE  br \in SoundBranches
<1> DEFINE M == Missing(dcache, p, 0)
           old == fs[0]
<1>1. old \in SoundBranches
  BY ZeroBranch DEF SoundInv, BranchesSound
<1>2. /\ \A q \in Paths : old.node[q] # None \/ q \in old.wh =>
                Parent[q] = Root \/ old.node[Parent[q]] = Dir
      /\ \A q \in old.opq : old.node[q] = Dir
      /\ \A q \in old.wh : old.node[q] = None
  BY <1>1, SoundType DEF LowerTree, Unambiguous
<1>3. /\ br = [node |-> br.node, wh |-> br.wh, opq |-> br.opq]
      /\ br.node \in [Paths -> Nodes] /\ br.wh \in SUBSET Paths /\ br.opq \in SUBSET Paths
  BY DEF BranchStates
<1>4. \A q \in Paths \ {p} : br.node[q] = IF 0 \in B /\ q \in M THEN Dir ELSE old.node[q]
  OBVIOUS
\* the missing ancestors are not there yet
<1>5. ASSUME NEW q \in M PROVE q \in Paths \ {p} /\ old.node[q] = None /\ q \notin old.wh
  <2>1. q \in Paths /\ q # p /\ q \in Above[p] /\ dcache[q].hid[0] = "null"
    BY PathsAssumption DEF Missing
  <2>2. dcache[q] # NoDentry
    BY <2>1, ReachedAncestors DEF SoundInv
  <2>3. KnownTop(dcache[q], Of(dcache, Parent[q]), q, fs)
    BY <2>1, <2>2 DEF SoundInv, Known, Fits
  <2> QED BY <2>1, <2>3 DEF KnownTop
\* each is made in a directory, and so is p
<1>6. ASSUME 0 \in B, NEW q \in M \cup {p} PROVE Parent[q] = Root \/ br.node[Parent[q]] = Dir
  <2> SUFFICES ASSUME Parent[q] # Root PROVE br.node[Parent[q]] = Dir
    OBVIOUS
  <2>1. /\ Parent[q] \in Above[p] /\ Parent[q] \in Paths
        /\ Parent[q] \in M \/ Parent[q] \in FirstPointed(dcache, p, 0)
    BY MissingUp
  <2>2. Parent[q] # p
    BY <2>1, PathsAssumption
  <2>3. CASE Parent[q] \in M
    BY <1>4, <1>6, <2>1, <2>2, <2>3
  <2>4. CASE Parent[q] \notin M
    <3>1. old.node[Parent[q]] = Dir
      BY <1>6, <2>1, <2>4 DEF Places, NoParent
    <3> QED BY <1>4, <2>1, <2>2, <2>4, <3>1
  <2> QED BY <2>3, <2>4
<1> HIDE DEF M, old
<1>7. ASSUME NEW q \in Paths, br.node[q] # None \/ q \in br.wh
      PROVE  Parent[q] = Root \/ br.node[Parent[q]] = Dir
  <2>1. CASE q = p
    <3>1. 0 \in B \/ IsDir(fs, 0, Parent[p])
      BY <1>7, <2>1 DEF Places
    <3>2. CASE 0 \in B
      BY <1>6, <2>1, <3>2
    <3>3. CASE Parent[p] # Root /\ old.node[Parent[p]] = Dir
      <4>1. Parent[p] \in Paths \ {p}
        BY <3>3, PathsAssumption
      <4> QED BY <1>4, <2>1, <3>3, <4>1
    <3> QED BY <2>1, <3>1, <3>2, <3>3 DEF IsDir, old
  <2>2. CASE q # p /\ 0 \in B /\ q \in M
    BY <1>6, <2>2
  <2>3. CASE q # p /\ ~ (0 \in B /\ q \in M)
    <3>1. old.node[q] # None \/ q \in old.wh
      BY <1>4, <1>7, <2>3 DEF old
    <3>2. Parent[q] = Root \/ old.node[Parent[q]] = Dir
      BY <1>2, <3>1
    <3>3. CASE Parent[q] = p
      <4>1. q \in Children(p)
        BY <3>3 DEF Children
      <4>2. br.node[q] = fs[0].node[q]
        BY <1>4, <2>3 DEF old
      <4> QED BY <1>7, <3>3, <4>1, <4>2 DEF Places
    <3>4. CASE Parent[q] # p /\ Parent[q] # Root
      <4>1. Parent[q] \in Paths \ {p}
        BY <3>4, PathsAssumption
      <4> QED BY <1>4, <3>2, <3>4, <4>1
    <3> QED BY <3>3, <3>4
  <2> QED BY <2>1, <2>2, <2>3
<1>8. ASSUME NEW q \in br.opq PROVE br.node[q] = Dir
  <2>1. CASE q = p
    BY <2>1 DEF Places
  <2>2. CASE q # p
    <3>1. q \in Paths /\ old.node[q] = Dir
      BY <1>2, <1>3, <2>2 DEF Places, old
    <3> QED BY <1>4, <2>2, <3>1
  <2> QED BY <2>1, <2>2
<1>9. ASSUME NEW q \in br.wh PROVE br.node[q] = None
  <2>1. CASE q = p
    BY <2>1 DEF Places
  <2>2. CASE q # p
    <3>1. q \in Paths /\ q \in old.wh /\ old.node[q] = None
      BY <1>2, <1>3, <2>2 DEF old
    <3>2. q \notin M
      BY <1>5, <3>1
    <3> QED BY <1>4, <2>2, <3>1, <3>2
  <2> QED BY <2>1, <2>2
<1>10. [node |-> br.node, wh |-> br.wh, opq |-> br.opq] \in SoundBranches
  BY <1>3, <1>7, <1>8, <1>9, SoundIf
<1> QED BY <1>3, <1>10

\* The two together.
LEMMA SoundBy ==
    ASSUME SoundInv, OneWritable, Kept, NEW p \in Paths, Reached(p), NEW B \in SUBSET {0},
           NEW dc1 \in Caches, Closed(dc1), Known(dc1, fs),
           Rewrites(p, B, dc1, dcache', fs'), Places(p, B, fs'[0])
    PROVE  SoundInv'
<1>1. Known(dcache', fs')
  BY KnownAfter DEF Kept, Inv
<1>2. fs'[0] \in SoundBranches
  <2>1. fs'[0] \in BranchStates
    BY ZeroBranch DEF Kept, Inv, Unions
  <2> QED BY <2>1, PlacedSound DEF Rewrites
<1>3. BranchesSound'
  <2>1. \A b \in Branches \ {0} : fs'[b] = fs[b]
    BY ZeroBranch DEF Kept, Safe
  <2>2. \A b \in Branches : fs'[b] \in SoundBranches
    BY <1>2, <2>1 DEF SoundInv, BranchesSound
  <2>3. fs' \in [Branches -> BranchStates]
    BY DEF Kept, Inv, Unions
  <2> QED BY <2>2, <2>3 DEF BranchesSound
<1> QED BY <1>1, <1>3 DEF SoundInv, Kept

-----------------------------------------------------------------------------
(* The actions, with one writable branch.                                  *)

LEMMA MadeIs ==
    ASSUME NEW f \in Unions, NEW dc, NEW p \in Paths, NEW B \in SUBSET {0},
           NEW g, g = ParentsMade(f, dc, p, B)
    PROVE  /\ g \in Unions
           /\ \A q \in Paths : g[0].node[q] = IF 0 \in B /\ q \in Missing(dc, p, 0)
                                              THEN Dir ELSE f[0].node[q]
           /\ g[0].wh = f[0].wh /\ g[0].opq = f[0].opq
<1> DEFINE m == [q \in Paths |-> IF q \in Missing(dc, p, 0) THEN Dir ELSE f[0].node[q]]
<1>1. B \in SUBSET Writable
  BY BranchAssumption
<1>2. g \in Unions
  BY <1>1, ParentsMadeSafe
<1>3. f[0] \in BranchStates
  BY ZeroBranch DEF Unions
<1>4. CASE 0 \in B
  <2>1. g[0] = [f[0] EXCEPT !.node = m]
    BY <1>4, ZeroBranch DEF ParentsMade
  <2> HIDE DEF m
  <2>2. g[0].node = m /\ g[0].wh = f[0].wh /\ g[0].opq = f[0].opq
    BY <1>3, <2>1 DEF BranchStates
  <2> QED BY <1>2, <1>4, <2>2 DEF m
<1>5. CASE 0 \notin B
  <2>1. g[0] = f[0]
    BY <1>5, ZeroBranch DEF ParentsMade
  <2> QED BY <1>2, <1>5, <2>1
<1> QED BY <1>4, <1>5

\* One write to the first branch.
LEMMA WriteIs ==
    ASSUME NEW f \in Unions, NEW p \in Paths
    PROVE  /\ \A n : /\ SetNode(f, 0, p, n)[0].node = [f[0].node EXCEPT ![p] = n]
                     /\ SetNode(f, 0, p, n)[0].wh = f[0].wh
                     /\ SetNode(f, 0, p, n)[0].opq = f[0].opq
           /\ AddWhiteout(f, 0, p)[0].node = f[0].node
           /\ AddWhiteout(f, 0, p)[0].wh = f[0].wh \cup {p}
           /\ AddWhiteout(f, 0, p)[0].opq = f[0].opq
           /\ DelWhiteout(f, 0, p)[0].node = f[0].node
           /\ DelWhiteout(f, 0, p)[0].wh = f[0].wh \ {p}
           /\ DelWhiteout(f, 0, p)[0].opq = f[0].opq
           /\ AddOpaque(f, 0, p)[0].node = f[0].node
           /\ AddOpaque(f, 0, p)[0].wh = f[0].wh
           /\ AddOpaque(f, 0, p)[0].opq = f[0].opq \cup {p}
<1>1. /\ f[0] \in BranchStates /\ f[0] = [node |-> f[0].node, wh |-> f[0].wh, opq |-> f[0].opq]
  BY ZeroBranch DEF Unions, BranchStates
<1>2. \A n : SetNode(f, 0, p, n)[0] = [f[0] EXCEPT !.node[p] = n]
  BY ZeroBranch DEF SetNode, Unions
<1>3. AddWhiteout(f, 0, p)[0] = [f[0] EXCEPT !.wh = @ \cup {p}]
  BY ZeroBranch DEF AddWhiteout, Unions
<1>4. DelWhiteout(f, 0, p)[0] = [f[0] EXCEPT !.wh = @ \ {p}]
  BY ZeroBranch DEF DelWhiteout, Unions
<1>5. AddOpaque(f, 0, p)[0] = [f[0] EXCEPT !.opq = @ \cup {p}]
  BY ZeroBranch DEF AddOpaque, Unions
<1>6. ASSUME NEW n
      PROVE  /\ SetNode(f, 0, p, n)[0].node = [f[0].node EXCEPT ![p] = n]
             /\ SetNode(f, 0, p, n)[0].wh = f[0].wh
             /\ SetNode(f, 0, p, n)[0].opq = f[0].opq
  <2>1. SetNode(f, 0, p, n)[0] = [f[0] EXCEPT !.node = [f[0].node EXCEPT ![p] = n]]
    BY <1>2
  <2> DEFINE m == [f[0].node EXCEPT ![p] = n]
  <2> HIDE DEF m
  <2>2. [f[0] EXCEPT !.node = m] = [node |-> m, wh |-> f[0].wh, opq |-> f[0].opq]
    BY <1>1
  <2>3. SetNode(f, 0, p, n)[0] = [node |-> m, wh |-> f[0].wh, opq |-> f[0].opq]
    BY <2>1, <2>2 DEF m
  <2> QED BY <2>3 DEF m
<1>7. /\ AddWhiteout(f, 0, p)[0].node = f[0].node
      /\ AddWhiteout(f, 0, p)[0].wh = f[0].wh \cup {p}
      /\ AddWhiteout(f, 0, p)[0].opq = f[0].opq
  BY <1>1, <1>3 DEF BranchStates
<1>8. /\ DelWhiteout(f, 0, p)[0].node = f[0].node
      /\ DelWhiteout(f, 0, p)[0].wh = f[0].wh \ {p}
      /\ DelWhiteout(f, 0, p)[0].opq = f[0].opq
  BY <1>1, <1>4 DEF BranchStates
<1>9. /\ AddOpaque(f, 0, p)[0].node = f[0].node
      /\ AddOpaque(f, 0, p)[0].wh = f[0].wh
      /\ AddOpaque(f, 0, p)[0].opq = f[0].opq \cup {p}
  BY <1>1, <1>5 DEF BranchStates
<1> QED BY <1>6, <1>7, <1>8, <1>9

\* Where parents are made: in the first branch, if p has no pointer there and
\* nothing stands in the way.
LEMMA ParentsFirst ==
    ASSUME OneWritable, NEW f, NEW g, NEW d, NEW p \in Paths, f[0].node = g[0].node
    PROVE  /\ ParentsIn(f, d, p, 0) \in SUBSET {0}
           /\ ParentsIn(f, d, p, 0) = ParentsIn(g, d, p, 0)
           /\ 0 \in ParentsIn(f, d, p, 0) => d.hid[0] = "null" /\ ~NoParent(f, dcache, p, 0)
           /\ Usable(f, d, p, 0) <=> 0 \in ParentsIn(f, d, p, 0) \/ d.hid[0] # "null"
           /\ \A b \in Branches : Usable(f, d, p, b) => b = 0
BY ZeroBranch DEF ParentsIn, Usable, NoParent

\* The parent's dentry then has a pointer there too.
LEMMA ParentPointed ==
    ASSUME SoundInv, NEW p \in Paths, Reached(p), NEW B \in SUBSET {0}, NEW dc,
           0 \in B \/ DentryOf(Parent[p]).hid[0] # "null",
           Parent[p] # Root => dc[Parent[p]] = ParentDentries(dcache, p, B)[Parent[p]]
    PROVE  Of(dc, Parent[p]).hid[0] # "null"
<1>1. CASE Parent[p] = Root
  BY <1>1, RootBounded DEF Of
<1>2. CASE Parent[p] # Root
  <2>1. /\ Parent[p] \in Paths /\ Parent[p] \in Above[p]
        /\ Parent[p] \in Missing(dcache, p, 0) \/ dcache[Parent[p]].hid[0] # "null"
    BY <1>2, MissingUp
  <2>2. dcache[Parent[p]] # NoDentry /\ dcache \in Caches
    BY <2>1, ReachedAncestors DEF SoundInv, Inv
  <2>3. Bounded(dcache[Parent[p]])
    BY <2>1, <2>2 DEF SoundInv, Known, Fits
  <2>4. dc[Parent[p]].hid[0] = IF 0 \in B /\ Parent[p] \in Missing(dcache, p, 0) THEN "live"
                               ELSE dcache[Parent[p]].hid[0]
    BY <1>2, <2>1, <2>2, <2>3, TopDentries
  <2> QED BY <1>2, <2>1, <2>4 DEF Of, DentryOf
<1> QED BY <1>1, <1>2

\* Nothing is in what is no directory.
LEMMA NoChildren ==
    ASSUME SoundInv, NEW p \in Paths, fs[0].node[p] # Dir
    PROVE  \A c \in Children(p) : fs[0].node[c] = None /\ c \notin fs[0].wh
<1>1. \A c \in Children(p) : c \in Paths /\ Parent[c] = p /\ p # Root
  BY PathsAssumption DEF Children
<1>2. fs[0] \in SoundBranches
  BY ZeroBranch DEF SoundInv, BranchesSound
<1> QED BY <1>1, <1>2, SoundType DEF LowerTree

\* A name that is not there: where its dentry points, and what its creation
\* finds.
LEMMA AbsentTop ==
    ASSUME SoundInv, OneWritable, NEW p \in Paths, Reached(p), Absent(p)
    PROVE  /\ dcache[p] = NoDentry /\ fs[0].node[p] = None /\ CreateBranch(Target(p), p) = 0
           /\ Target(p).hid[0] # "null" => /\ IsDir(fs, 0, Parent[p])
                                           /\ DentryOf(Parent[p]).hid[0] # "null"
           /\ LET f == WhiteoutGone(Target(p), p)
              IN  /\ f \in Unions /\ f[0].node = fs[0].node /\ f[0].opq = fs[0].opq
                  /\ f[0].wh = fs[0].wh \ {p}
           /\ LET c == Created(Target(p), p, 0)
              IN  /\ Bounded(c) /\ c.bstart = 0 /\ c.hid[0] = "live"
                  /\ \A b \in Branches \ {0} : c.hid[b] = "null"
<1> DEFINE pd == DentryOf(Parent[p])
           S  == Searched(fs, pd, p, pd.bstart, pd.bend)
           d  == Target(p)
           f  == WhiteoutGone(d, p)
           c  == Created(d, p, 0)
<1>1. dcache[p] = NoDentry /\ d = Lookup(fs, pd, p) /\ IsNegative(fs, d, p)
  BY DEF Absent, Cached, Target
<1>2. /\ pd.bstart \in S /\ (0 \in S \/ (fs[0].node[p] = None /\ p \notin fs[0].wh))
      /\ 0 \in S <=> pd.hid[0] # "null"
  BY ReachedParent
<1>3. fs \in [Branches -> SoundBranches] /\ fs \in Unions
  BY DEF SoundInv, BranchesSound, Inv
<1>4. /\ d.bstart \in S /\ d.bend = d.bstart /\ d.hid = LiveIn({d.bstart})
      /\ d.bopaque \in -1 .. NB - 1 /\ fs[d.bstart].node[p] = None
      /\ 0 \in S => d.bstart = 0
  <2> HIDE DEF pd, d, S
  <2> QED BY <1>1, <1>2, <1>3, LookupIs DEF S
<1>5. S \in SUBSET Branches /\ (0 \in S => IsDir(fs, 0, Parent[p]))
  BY DEF Searched
<1>6. CreateBranch(d, p) = 0
  BY WritableFromWritable DEF OneWritable, CreateBranch
<1> HIDE DEF pd, d, S
<1>7. d.bstart \in Branches /\ \A b \in Branches : d.hid[b] = IF b = d.bstart THEN "live" ELSE "null"
  BY <1>4, <1>5, LiveInType
<1>8. (d.bstart = 0 <=> 0 \in S) /\ (d.hid[0] # "null" => 0 \in S)
  BY <1>4, <1>7, ZeroBranch
<1>9. fs[0].node[p] = None
  BY <1>2, <1>4, <1>8
<1>10. f \in Unions /\ f[0].node = fs[0].node /\ f[0].opq = fs[0].opq /\ f[0].wh = fs[0].wh \ {p}
  <2>1. CASE d.bstart = 0
    <3>1. ~IsRobranch(0) /\ 0 \in Writable
      BY ZeroBranch DEF OneWritable
    <3>2. f = DelWhiteout(fs, 0, p)
      BY <2>1, <3>1 DEF WhiteoutGone
    <3> HIDE DEF f
    <3>3. f \in Unions
      BY <1>3, <3>1, <3>2, LowerWrites DEF Nodes
    <3> QED BY <1>3, <3>2, <3>3, WriteIs
  <2>2. CASE d.bstart # 0
    <3>1. IsRobranch(d.bstart)
      BY <1>7, <2>2, ZeroBranch
    <3>2. f = fs
      BY <3>1 DEF WhiteoutGone
    <3>3. p \notin fs[0].wh
      BY <1>2, <1>8, <2>2
    <3>4. fs[0].wh = fs[0].wh \ {p}
      BY <3>3
    <3> HIDE DEF f
    <3> QED BY <1>3, <3>2, <3>4
  <2> QED BY <2>1, <2>2
<1>11. Bounded(c) /\ c.bstart = 0 /\ c.hid[0] = "live" /\ \A b \in Branches \ {0} : c.hid[b] = "null"
  <2>1. CASE d.hid[0] # "null"
    <3>1. c = d /\ d.bstart = 0
      BY <1>4, <1>8, <2>1 DEF Created
    <3>2. Bounded(d)
      BY <1>4, <1>7, <3>1, ZeroBranch DEF Bounded
    <3> QED BY <1>7, <2>1, <3>1, <3>2
  <2>2. CASE d.hid[0] = "null"
    <3> DEFINE range == {x \in Branches : /\ Leftmost({d.bstart, 0}) =< x
                                         /\ x =< Rightmost({d.bend, 0})}
               kept == {0} \cup {x \in range :
                                   \/ d.hid[x] = "dead"
                                   \/ d.hid[x] = "live" /\ fs[x].node[p] # None}
    <3>1. c = [bstart |-> Leftmost(kept), bend |-> Rightmost(kept), bopaque |-> d.bopaque,
               hid |-> [x \in Branches |-> IF x = 0 THEN "live"
                                           ELSE IF x \in range \ kept THEN "null" ELSE d.hid[x]]]
      BY <2>2 DEF Created, Pointed
    <3>2. kept = {0}
      BY <1>4, <1>7
    <3>3. d.bstart \in range
      <4>1. {d.bstart, 0} \in SUBSET Branches
        BY <1>7, ZeroBranch
      <4>2. /\ Leftmost({d.bstart, 0}) =< d.bstart
            /\ d.bstart =< Rightmost({d.bstart, 0})
        BY <4>1, LeftmostIsLeast, RightmostIsGreatest
      <4> QED BY <1>4, <1>7, <4>2
    <3> HIDE DEF range, kept, c
    <3>4. \A x \in Branches \ {0} : c.hid[x] = "null"
      BY <1>7, <3>1, <3>2, <3>3
    <3>5. Leftmost({0}) = 0 /\ Rightmost({0}) = 0
      <4>1. {0} \in SUBSET Branches
        BY ZeroBranch
      <4> QED BY <4>1, LeftmostIsLeast, RightmostIsGreatest
    <3>6. c.bstart = 0 /\ c.bend = 0 /\ c.hid[0] = "live"
      BY <3>1, <3>2, <3>5, ZeroBranch
    <3>7. Bounded(c)
      <4>1. \A m \in Branches : ~ (m < 0)
        BY ZeroBranch
      <4> QED BY <3>6, <4>1 DEF Bounded
    <3> QED BY <3>4, <3>6, <3>7
  <2> QED BY <2>1, <2>2
<1> QED BY <1>1, <1>2, <1>5, <1>6, <1>8, <1>9, <1>10, <1>11 DEF d, pd

\* An object is made in the first branch, with its dentry.
LEMMA CreateDoneSound ==
    ASSUME SoundInv, OneWritable, Kept, NEW p \in Paths, Reached(p), Absent(p),
           NEW f \in Unions, f[0].node = fs[0].node, f[0].wh \subseteq fs[0].wh \ {p},
           f[0].opq \subseteq fs[0].opq \cup {p}, NEW n \in Nodes,
           p \in f[0].opq => n = Dir,
           NEW new, Bounded(new), new.hid[0] # "null",
           \A b \in Branches \ {0} : new.hid[b] = "null",
           NEW op, NEW ret, CreateDone(op, Target(p), p, 0, f, n, new, ret)
    PROVE  /\ SoundInv' /\ Grown(p) /\ fs'[0].node[p] = n /\ dcache'[p] = new
           /\ fs'[0].wh = f[0].wh /\ fs'[0].opq = f[0].opq
<1> DEFINE d == Target(p)
           B == ParentsIn(fs, d, p, 0)
           g == ParentsMade(f, dcache, p, B)
           pds == ParentDentries(dcache, p, B)
<1>1. /\ dcache[p] = NoDentry /\ fs[0].node[p] = None
      /\ d.hid[0] # "null" => /\ IsDir(fs, 0, Parent[p])
                              /\ DentryOf(Parent[p]).hid[0] # "null"
  BY AbsentTop
<1>2. /\ B \in SUBSET {0} /\ B = ParentsIn(f, d, p, 0)
      /\ 0 \in B => ~NoParent(fs, dcache, p, 0)
      /\ 0 \in B \/ d.hid[0] # "null"
  BY ParentsFirst DEF CreateDone
<1>3. fs' = SetNode(g, 0, p, n) /\ dcache' = [pds EXCEPT ![p] = new]
  BY <1>2 DEF CreateDone, CreateIn
<1> HIDE DEF d, B
<1>4. /\ g \in Unions /\ g[0].wh = f[0].wh /\ g[0].opq = f[0].opq
      /\ \A q \in Paths : g[0].node[q] = IF 0 \in B /\ q \in Missing(dcache, p, 0)
                                         THEN Dir ELSE f[0].node[q]
  <2>1. g = ParentsMade(f, dcache, p, B)
    OBVIOUS
  <2> HIDE DEF g
  <2> QED BY <1>2, <2>1, MadeIs
<1> HIDE DEF g
<1>5. /\ fs'[0].node = [g[0].node EXCEPT ![p] = n] /\ fs'[0].wh = f[0].wh
      /\ fs'[0].opq = f[0].opq
  BY <1>3, <1>4, WriteIs
<1>6. g[0].node \in [Paths -> Nodes]
  BY <1>4, ZeroBranch DEF Unions, BranchStates
<1>7. /\ \A q \in Paths \ {p} :
           fs'[0].node[q] = IF 0 \in B /\ q \in Missing(dcache, p, 0) THEN Dir ELSE fs[0].node[q]
      /\ fs'[0].node[p] = n
  <2>1. \A q \in Paths \ {p} : fs'[0].node[q] = g[0].node[q]
    BY <1>5, <1>6
  <2>2. fs'[0].node[p] = n
    BY <1>5, <1>6
  <2> QED BY <1>4, <2>1, <2>2
<1>8. dcache \in Caches /\ Closed(dcache) /\ Known(dcache, fs)
  BY DEF SoundInv, Inv
<1>9. pds \in Caches
  <2>1. B \in SUBSET Branches /\ \A a \in Above[p] : dcache[a] # NoDentry
    BY <1>2, ZeroBranch, ReachedAncestors DEF SoundInv
  <2> QED BY <1>8, <2>1, ParentDentriesGood
<1>10. (\A q \in Paths \ {p} : dcache'[q] = pds[q]) /\ dcache'[p] = new
  <2> HIDE DEF pds
  <2> QED BY <1>3, <1>9 DEF Caches
<1>11. Of(dcache', Parent[p]).hid[0] # "null"
  <2>1. Parent[p] # Root => dcache'[Parent[p]] = pds[Parent[p]]
    <3>1. Parent[p] # Root => Parent[p] \in Paths \ {p}
      BY PathsAssumption
    <3> HIDE DEF pds
    <3> QED BY <1>10, <3>1
  <2>2. 0 \in B \/ DentryOf(Parent[p]).hid[0] # "null"
    BY <1>1, <1>2
  <2> QED BY <1>2, <2>1, <2>2, ParentPointed
<1>12. Rewrites(p, B, dcache, dcache', fs')
  <2>1. KnownTop(new, Of(dcache', Parent[p]), p, fs')
    BY <1>5, <1>11 DEF KnownTop
  <2>2. \A q \in Paths \ {p} : dcache'[q] = ParentDentries(dcache, p, B)[q]
    BY <1>10
  <2>3. fs'[0].wh \subseteq fs[0].wh \cup {p}
    BY <1>5
  <2> HIDE DEF pds
  <2> QED BY <1>1, <1>7, <1>10, <2>1, <2>2, <2>3 DEF Rewrites
<1>13. Places(p, B, fs'[0])
  <2>1. \A c \in Children(p) : fs[0].node[c] = None /\ c \notin fs'[0].wh
    <3>1. fs[0].node[p] # Dir
      BY <1>1, ValuesAssumption
    <3> QED BY <1>5, <3>1, NoChildren
  <2>2. 0 \in B \/ IsDir(fs, 0, Parent[p])
    BY <1>1, <1>2
  <2> QED BY <1>2, <1>5, <1>7, <2>1, <2>2 DEF Places
<1>14. Moves(p, B)
  BY <1>2, <1>12 DEF Rewrites, Moves
<1>15. Grown(p)
  BY <1>1, <1>10, <1>14 DEF Grown
<1>16. SoundInv'
  BY <1>2, <1>8, <1>12, <1>13, SoundBy
<1> QED BY <1>5, <1>7, <1>10, <1>15, <1>16

\* Only its parents are made.
LEMMA CreateFailsSound ==
    ASSUME SoundInv, OneWritable, Kept, NEW p \in Paths, Reached(p), Absent(p),
           NEW f \in Unions, f[0].node = fs[0].node, f[0].wh \subseteq fs[0].wh,
           f[0].opq = fs[0].opq, NEW op, NEW fault,
           CreateFails(op, Target(p), p, 0, f, fault)
    PROVE  /\ SoundInv' /\ Grown(p) /\ fs'[0].node[p] = None /\ dcache'[p] = NoDentry
           /\ fs'[0].wh = f[0].wh /\ fs'[0].opq = f[0].opq
<1> DEFINE d == Target(p)
           B == ParentsIn(fs, d, p, 0)
           pds == ParentDentries(dcache, p, B)
<1>1. dcache[p] = NoDentry /\ fs[0].node[p] = None
  BY AbsentTop
<1>2. /\ B \in SUBSET {0}
      /\ 0 \in B => ~NoParent(fs, dcache, p, 0)
  BY ParentsFirst
<1>3. fs' = ParentsMade(f, dcache, p, B) /\ dcache' = pds
  BY DEF CreateFails
<1> HIDE DEF d, B
<1>4. /\ fs'[0].wh = f[0].wh /\ fs'[0].opq = f[0].opq
      /\ \A q \in Paths : fs'[0].node[q] = IF 0 \in B /\ q \in Missing(dcache, p, 0)
                                           THEN Dir ELSE f[0].node[q]
  <2> DEFINE g == ParentsMade(f, dcache, p, B)
  <2>1. f \in Unions /\ p \in Paths /\ B \in SUBSET {0} /\ g = ParentsMade(f, dcache, p, B)
    BY <1>2
  <2>2. fs' = g
    BY <1>3
  <2> HIDE DEF g
  <2>3. /\ g[0].wh = f[0].wh /\ g[0].opq = f[0].opq
        /\ \A q \in Paths : g[0].node[q] = IF 0 \in B /\ q \in Missing(dcache, p, 0)
                                            THEN Dir ELSE f[0].node[q]
    BY ONLY <2>1, MadeIs
  <2> QED BY <2>2, <2>3
<1>5. p \notin Missing(dcache, p, 0)
  BY PathsAssumption DEF Missing
<1>6. fs'[0].node[p] = None
  BY <1>1, <1>4, <1>5
<1>7. dcache \in Caches /\ Closed(dcache) /\ Known(dcache, fs)
  BY DEF SoundInv, Inv
<1>8. dcache'[p] = NoDentry
  <2>1. B \in SUBSET Branches /\ \A a \in Above[p] : dcache[a] # NoDentry
    BY <1>2, ZeroBranch, ReachedAncestors DEF SoundInv
  <2> QED BY <1>1, <1>3, <1>7, <2>1, ParentDentriesGood
<1>9. Rewrites(p, B, dcache, dcache', fs')
  BY <1>1, <1>3, <1>4, <1>8 DEF Rewrites
<1>10. fs[0] \in SoundBranches
  BY ZeroBranch DEF SoundInv, BranchesSound
<1>11. Places(p, B, fs'[0])
  <2>1. \A c \in Children(p) : fs[0].node[c] = None /\ c \notin fs'[0].wh
    <3>1. fs[0].node[p] # Dir
      BY <1>1, ValuesAssumption
    <3> QED BY <1>4, <3>1, NoChildren
  <2>2. p \in fs'[0].wh => IsDir(fs, 0, Parent[p])
    <3>1. p \in fs'[0].wh => p \in fs[0].wh
      BY <1>4
    <3> QED BY <3>1, InDirectory, ZeroBranch DEF SoundInv, BranchesSound
  <2>3. p \notin fs'[0].opq
    <3>1. p \notin fs[0].opq
      BY <1>1, <1>10, SoundType, ValuesAssumption DEF LowerTree
    <3> QED BY <1>4, <3>1
  <2> QED BY <1>2, <1>4, <1>6, <2>1, <2>2, <2>3 DEF Places
<1>12. Moves(p, B)
  BY <1>2, <1>9 DEF Rewrites, Moves
<1>13. Grown(p)
  BY <1>1, <1>8, <1>12 DEF Grown
<1>14. SoundInv'
  BY <1>2, <1>7, <1>9, <1>11, SoundBy
<1> QED BY <1>4, <1>6, <1>8, <1>13, <1>14

\* An oops leaves the branches with a whiteout less, or as they are.
LEMMA CrashesSound ==
    ASSUME SoundInv, OneWritable, Kept, NEW p \in Paths, Reached(p), Crashes(fs')
    PROVE  fs'[0].node = fs[0].node /\ fs'[0].opq = fs[0].opq /\ fs'[0].wh \subseteq fs[0].wh
             => SoundInv'
<1> SUFFICES ASSUME fs'[0].node = fs[0].node, fs'[0].opq = fs[0].opq, fs'[0].wh \subseteq fs[0].wh
             PROVE  SoundInv'
  OBVIOUS
<1>1. dcache' = dcache
  BY DEF Crashes
<1>2. \A b \in Branches \ {0} : fs'[b] = fs[b]
  BY ZeroBranch DEF Kept, Safe
<1>3. Known(dcache', fs')
  <2>1. ASSUME NEW q \in Paths, dcache[q] # NoDentry
        PROVE  Fits(dcache[q], Of(dcache, Parent[q]), q, fs')
    <3>1. Fits(dcache[q], Of(dcache, Parent[q]), q, fs)
      BY <2>1 DEF SoundInv, Known
    <3>2. KnownTop(dcache[q], Of(dcache, Parent[q]), q, fs')
      BY <3>1 DEF Fits, KnownTop
    <3>3. KnownBelow(dcache[q], Of(dcache, Parent[q]), q, fs')
      BY <1>2, <3>1 DEF Fits, KnownBelow
    <3> QED BY <3>1, <3>2, <3>3 DEF Fits
  <2> QED BY <1>1, <2>1 DEF Known
<1>4. fs'[0] \in SoundBranches
  <2>1. fs[0] \in SoundBranches /\ fs'[0] \in BranchStates
    BY ZeroBranch DEF SoundInv, BranchesSound, Kept, Inv, Unions
  <2> QED BY <2>1 DEF SoundBranches, LowerTree, Unambiguous
<1>5. BranchesSound'
  <2>1. \A b \in Branches : fs'[b] \in SoundBranches
    BY <1>2, <1>4 DEF SoundInv, BranchesSound
  <2>2. fs' \in [Branches -> BranchStates]
    BY DEF Kept, Inv, Unions
  <2> QED BY <2>1, <2>2 DEF BranchesSound
<1> QED BY <1>3, <1>5 DEF SoundInv, Kept

LEMMA CreateSound ==
    ASSUME SoundInv, OneWritable, Kept, NEW p \in Paths, unionfs_create(p)
    PROVE  SoundInv' /\ (oops' = TRUE \/ Grown(p))
<1> DEFINE d == Target(p)
           f == WhiteoutGone(d, p)
           c == Created(d, p, 0)
<1>1. Reached(p) /\ Absent(p) /\ fs \in Unions
  BY DEF unionfs_create, SoundInv, Inv
<1>2. /\ f \in Unions /\ f[0].node = fs[0].node /\ f[0].opq = fs[0].opq
      /\ f[0].wh = fs[0].wh \ {p} /\ CreateBranch(d, p) = 0 /\ fs[0].node[p] = None
      /\ Bounded(c) /\ c.hid[0] # "null" /\ \A b \in Branches \ {0} : c.hid[b] = "null"
  BY <1>1, AbsentTop
<1>3. p \notin fs[0].opq
  <2>1. fs[0] \in SoundBranches
    BY ZeroBranch DEF SoundInv, BranchesSound
  <2> QED BY <1>2, <2>1, SoundType, ValuesAssumption DEF LowerTree
<1>4. Empty \in Nodes
  BY ValuesAssumption DEF Nodes
<1>5. \/ Crashes(fs)
      \/ CreateDone("create", d, p, 0, f, Empty, c, "ok")
      \/ CreateFails("create", d, p, 0, fs, "create")
  BY <1>2 DEF unionfs_create
<1> HIDE DEF c, f
<1>6. CASE Crashes(fs)
  BY <1>1, <1>6, CrashesSound DEF Crashes
<1>7. CASE CreateDone("create", d, p, 0, f, Empty, c, "ok")
  BY <1>1, <1>2, <1>3, <1>4, <1>7, CreateDoneSound
<1>8. CASE CreateFails("create", d, p, 0, fs, "create")
  BY <1>1, <1>8, CreateFailsSound
<1> QED BY <1>5, <1>6, <1>7, <1>8

LEMMA NewNodeSound ==
    ASSUME SoundInv, OneWritable, Kept, NEW p \in Paths, NEW op, NEW n \in Values,
           NewNode(op, p, n)
    PROVE  SoundInv' /\ (oops' = TRUE \/ Grown(p))
<1> DEFINE d == Target(p)
           f == WhiteoutGone(d, p)
           c == Created(d, p, 0)
<1>1. Reached(p) /\ Absent(p)
  BY DEF NewNode
<1>2. /\ f \in Unions /\ f[0].node = fs[0].node /\ f[0].opq = fs[0].opq
      /\ f[0].wh = fs[0].wh \ {p} /\ CreateBranch(d, p) = 0 /\ fs[0].node[p] = None
      /\ Bounded(c) /\ c.hid[0] # "null" /\ \A b \in Branches \ {0} : c.hid[b] = "null"
  BY <1>1, AbsentTop
<1>3. p \notin fs[0].opq
  <2>1. fs[0] \in SoundBranches
    BY ZeroBranch DEF SoundInv, BranchesSound
  <2> QED BY <1>2, <2>1, SoundType, ValuesAssumption DEF LowerTree
<1>4. n \in Nodes
  BY DEF Nodes
<1>5. \/ Crashes(f)
      \/ CreateDone(op, d, p, 0, f, n, c, "ok")
      \/ CreateFails(op, d, p, 0, f, "mknod")
  BY <1>2 DEF NewNode
<1> HIDE DEF c, f
<1>6. CASE Crashes(f)
  <2>1. fs' = f /\ oops' = TRUE
    BY <1>6 DEF Crashes
  <2> QED BY <1>1, <1>2, <1>6, <2>1, CrashesSound
<1>7. CASE CreateDone(op, d, p, 0, f, n, c, "ok")
  BY <1>1, <1>2, <1>3, <1>4, <1>7, CreateDoneSound
<1>8. CASE CreateFails(op, d, p, 0, f, "mknod")
  BY <1>1, <1>2, <1>8, CreateFailsSound
<1> QED BY <1>5, <1>6, <1>7, <1>8

LEMMA MkdirSound ==
    ASSUME SoundInv, OneWritable, Kept, NEW p \in Paths, unionfs_mkdir(p)
    PROVE  SoundInv' /\ (oops' = TRUE \/ Grown(p))
<1> DEFINE d == Target(p)
           f == WhiteoutGone(d, p)
           g == AddOpaque(f, 0, p)
           c == Created(d, p, 0)
           new == EndingAt(c, 0, 0)
           left == EndingAt(c, 0, c.bopaque)
<1>1. Reached(p) /\ Absent(p)
  BY DEF unionfs_mkdir
<1>2. /\ f \in Unions /\ f[0].node = fs[0].node /\ f[0].opq = fs[0].opq
      /\ f[0].wh = fs[0].wh \ {p} /\ CreateBranch(d, p) = 0 /\ fs[0].node[p] = None
      /\ c.bstart = 0 /\ c.hid[0] # "null" /\ \A b \in Branches \ {0} : c.hid[b] = "null"
  BY <1>1, AbsentTop
<1> HIDE DEF c, f
<1>3. /\ g \in Unions /\ g[0].node = fs[0].node /\ g[0].wh = fs[0].wh \ {p}
      /\ g[0].opq = fs[0].opq \cup {p}
  <2>1. 0 \in Writable
    BY BranchAssumption
  <2>2. g \in Unions
    BY <1>2, <2>1, LowerWrites DEF Nodes
  <2>3. /\ g[0].node = f[0].node /\ g[0].wh = f[0].wh
        /\ g[0].opq = f[0].opq \cup {p}
    BY <1>2, WriteIs
  <2> HIDE DEF g
  <2> QED BY <1>2, <2>2, <2>3
<1>4. Dir \in Nodes
  BY DEF Nodes
<1>5. /\ Bounded(new) /\ new.hid = c.hid
      /\ Bounded(left) /\ left.hid = c.hid
  <2>1. \A m \in Branches : ~ (m < 0)
    BY ZeroBranch
  <2> QED BY <1>2, <2>1 DEF EndingAt, Bounded
<1> HIDE DEF g, new, left
<1>6. \/ Crashes(f)
      \/ CreateDone("mkdir", d, p, 0, g, Dir, new, "ok")
      \/ CreateDone("mkdir", d, p, 0, f, Dir, left, "error")
      \/ CreateFails("mkdir", d, p, 0, f, "mknod")
  BY <1>2 DEF unionfs_mkdir, f, g, c, new, left
<1>7. CASE Crashes(f)
  <2>1. fs' = f /\ oops' = TRUE
    BY <1>7 DEF Crashes
  <2> QED BY <1>1, <1>2, <1>7, <2>1, CrashesSound
<1>8. CASE CreateDone("mkdir", d, p, 0, g, Dir, new, "ok")
  BY <1>1, <1>2, <1>3, <1>4, <1>5, <1>8, CreateDoneSound
<1>9. CASE CreateDone("mkdir", d, p, 0, f, Dir, left, "error")
  BY <1>1, <1>2, <1>4, <1>5, <1>9, CreateDoneSound
<1>10. CASE CreateFails("mkdir", d, p, 0, f, "mknod")
  BY <1>1, <1>2, <1>10, CreateFailsSound
<1> QED BY <1>6, <1>7, <1>8, <1>9, <1>10

-----------------------------------------------------------------------------
(* The walk, and the removals.                                             *)

\* A dentry that a later lookup has completed to the right.
Extends(d, e) ==
    /\ e.hid[0] = d.hid[0]
    /\ \A c \in Branches \ {0} :
         /\ d.hid[c] # "null" => e.hid[c] = d.hid[c]
         /\ e.hid[c] # "null" /\ d.hid[c] = "null" =>
                \A x \in Branches : d.hid[x] # "null" => x < c

With(dc, p, e) == [dc EXCEPT ![p] = e]

LEMMA KnownWith ==
    ASSUME SoundInv, NEW p \in Paths, Reached(p), NEW e \in GoodDentries,
           Fits(e, DentryOf(Parent[p]), p, fs),
           dcache[p] # NoDentry => Extends(dcache[p], e),
           NEW dc1, dc1 = With(dcache, p, e)
    PROVE  /\ dc1 \in Caches /\ Closed(dc1) /\ Known(dc1, fs)
           /\ dc1[p] = e /\ e # NoDentry /\ \A q \in Paths \ {p} : dc1[q] = dcache[q]
<1>1. dcache \in Caches /\ Closed(dcache) /\ Known(dcache, fs)
  BY DEF SoundInv, Inv
<1>2. dc1 \in Caches /\ Closed(dc1)
  <2>1. \A a \in Above[p] : dcache[a] # NoDentry
    BY ReachedAncestors DEF SoundInv
  <2> QED BY <1>1, <2>1, CacheOne DEF With
<1>3. dc1[p] = e /\ \A q \in Paths \ {p} : dc1[q] = dcache[q]
  BY <1>1 DEF Caches, With
<1>4. e # NoDentry
  BY NoDentryIsNone DEF GoodDentries
<1>5. ASSUME NEW q \in Paths, dc1[q] # NoDentry PROVE Fits(dc1[q], Of(dc1, Parent[q]), q, fs)
  <2>1. CASE q = p
    <3>1. Parent[p] # Root => Parent[p] \in Paths \ {p}
      BY PathsAssumption
    <3>2. Of(dc1, Parent[p]) = DentryOf(Parent[p])
      BY <1>3, <3>1 DEF Of, DentryOf
    <3> QED BY <1>3, <2>1, <3>2
  <2>2. CASE q # p /\ Parent[q] # p
    <3>1. Parent[q] # Root => Parent[q] \in Paths \ {p}
      BY <2>2, PathsAssumption
    <3>2. Of(dc1, Parent[q]) = Of(dcache, Parent[q])
      BY <1>3, <3>1 DEF Of
    <3> QED BY <1>1, <1>3, <1>5, <2>2, <3>2 DEF Known
  <2>3. CASE q # p /\ Parent[q] = p
    <3>1. p # Root /\ p \in Above[q]
      BY <2>3, PathsAssumption
    <3>2. dcache[q] # NoDentry /\ dc1[q] = dcache[q]
      BY <1>3, <1>5, <2>3
    <3>3. dcache[p] # NoDentry
      BY <1>1, <3>1, <3>2 DEF Closed
    <3> DEFINE d == dcache[p]
               r == dcache[q]
    <3>4. Extends(d, e) /\ Of(dc1, Parent[q]) = e
      BY <1>3, <2>3, <3>1, <3>3 DEF Of
    <3>5. Bounded(r) /\ KnownTop(r, d, q, fs) /\ KnownBelow(r, d, q, fs)
      BY <1>1, <2>3, <3>1, <3>2 DEF Known, Fits, Of
    <3> HIDE DEF d, r
    <3>6. KnownTop(r, e, q, fs)
      BY <3>4, <3>5 DEF KnownTop, Extends
    <3>7. KnownBelow(r, e, q, fs)
      <4> SUFFICES ASSUME NEW c \in Branches \ {0}, r.hid[c] # "null"
                   PROVE  /\ r.hid[c] = "live" /\ e.hid[c] = "live"
                          /\ fs[c].node[q] # None /\ q \notin fs[c].wh
                          /\ \A m \in Branches \ {0} :
                                m < c /\ e.hid[m] = "live" /\ (fs[m].node[q] # None \/ q \in fs[m].wh)
                                  => r.hid[m] = "live"
        BY DEF KnownBelow
      <4>1. /\ r.hid[c] = "live" /\ d.hid[c] = "live"
            /\ fs[c].node[q] # None /\ q \notin fs[c].wh
            /\ \A m \in Branches \ {0} :
                  m < c /\ d.hid[m] = "live" /\ (fs[m].node[q] # None \/ q \in fs[m].wh)
                    => r.hid[m] = "live"
        BY <3>5 DEF KnownBelow
      <4>2. e.hid[c] = "live"
        BY <3>4, <4>1 DEF Extends
      <4>3. ASSUME NEW m \in Branches \ {0}, m < c, e.hid[m] = "live" PROVE d.hid[m] = "live"
        <5>1. CASE d.hid[m] = "null"
          <6>1. c < m
            BY <3>4, <4>1, <4>3, <5>1 DEF Extends
          <6> QED BY <4>3, <6>1, ZeroBranch
        <5>2. CASE d.hid[m] # "null"
          BY <3>4, <4>3, <5>2 DEF Extends
        <5> QED BY <5>1, <5>2
      <4> QED BY <4>1, <4>2, <4>3
    <3> QED BY <3>2, <3>4, <3>5, <3>6, <3>7 DEF Fits, r
  <2> QED BY <2>1, <2>2, <2>3
<1> QED BY <1>2, <1>3, <1>4, <1>5 DEF Known

\* The dentry of a name that is there, cached or looked up.
LEMMA TargetFits ==
    ASSUME SoundInv, NEW p \in Paths, Reached(p), Present(p)
    PROVE  /\ Target(p) \in GoodDentries
           /\ Fits(Target(p), DentryOf(Parent[p]), p, fs)
           /\ dcache[p] # NoDentry => Target(p) = dcache[p]
<1>1. CASE Cached(p)
  <2>1. Target(p) = dcache[p] /\ dcache[p] # NoDentry /\ dcache[p] \in GoodDentries
    BY <1>1 DEF Target, Cached, SoundInv, Inv, Caches
  <2>2. Of(dcache, Parent[p]) = DentryOf(Parent[p])
    BY DEF Of, DentryOf
  <2> QED BY <2>1, <2>2 DEF SoundInv, Known
<1>2. CASE ~Cached(p)
  BY <1>2, LookupFits DEF Cached
<1> QED BY <1>1, <1>2

LEMMA LookupSound ==
    ASSUME SoundInv, Kept, NEW p \in Paths, unionfs_lookup(p)
    PROVE  SoundInv'
<1>1. /\ Reached(p) /\ Present(p) /\ dcache[p] = NoDentry /\ fs' = fs
      /\ dcache' = [dcache EXCEPT ![p] = Target(p)]
  BY DEF unionfs_lookup, Cached
<1>2. Target(p) \in GoodDentries /\ Fits(Target(p), DentryOf(Parent[p]), p, fs)
  BY <1>1, TargetFits
<1>3. Known(dcache', fs)
  <2>1. dcache' = With(dcache, p, Target(p))
    BY <1>1 DEF With
  <2> QED BY <1>1, <1>2, <2>1, KnownWith
<1> QED BY <1>1, <1>3 DEF SoundInv, Kept, BranchesSound

LEMMA PruneSound ==
    ASSUME SoundInv, Kept, NEW p \in Paths, Prune(p)
    PROVE  SoundInv'
<1>1. /\ dcache' = [dcache EXCEPT ![p] = NoDentry] /\ fs' = fs
      /\ \A c \in Below(p) : dcache[c] = NoDentry
  BY DEF Prune, Cached
<1>2. /\ \A q \in Paths \ {p} : dcache'[q] = dcache[q]
      /\ dcache'[p] = NoDentry
  BY <1>1 DEF SoundInv, Inv, Caches
<1>3. ASSUME NEW q \in Paths, dcache'[q] # NoDentry
      PROVE  Fits(dcache'[q], Of(dcache', Parent[q]), q, fs)
  <2>1. q # p /\ dcache'[q] = dcache[q] /\ dcache[q] # NoDentry
    BY <1>2, <1>3
  <2>2. Parent[q] # p
    <3>1. Parent[q] = p /\ p # Root => q \in Below(p)
      BY PathsAssumption DEF Below
    <3> QED BY <1>1, <2>1, <3>1, PathsAssumption
  <2>3. Of(dcache', Parent[q]) = Of(dcache, Parent[q])
    <3>1. Parent[q] # Root => Parent[q] \in Paths \ {p}
      BY <2>2, PathsAssumption
    <3> QED BY <1>2, <3>1 DEF Of
  <2> QED BY <2>1, <2>3 DEF SoundInv, Known
<1>4. Known(dcache', fs)
  BY <1>3 DEF Known
<1> QED BY <1>1, <1>4 DEF SoundInv, Kept, BranchesSound

LEMMA PinSound ==
    ASSUME SoundInv, Kept, NEW p \in Paths, Pin(p) \/ Unpin(p)
    PROVE  SoundInv'
BY DEF Pin, Unpin, SoundInv, Kept, BranchesSound

\* What unlink and rmdir have done to p before the whiteout: its dentry d0 has
\* become d and the branches f.
Taken(p, d0, d, f) ==
    /\ Keeps(d0, d) /\ Bounded(d)
    /\ d.hid[0] = "null" => f = fs
    /\ d.hid[0] # "null" => DentryOf(Parent[p]).hid[0] # "null" /\ IsDir(fs, 0, Parent[p])
    /\ f[0].node[p] = None /\ \A q \in Paths \ {p} : f[0].node[q] = fs[0].node[q]
    /\ p \notin fs[0].wh /\ f[0].wh \subseteq fs[0].wh
    /\ f[0].opq \subseteq fs[0].opq \ {p}
    /\ \A q \in Paths \ Tree(p) : /\ q \in f[0].wh <=> q \in fs[0].wh
                                  /\ q \in f[0].opq <=> q \in fs[0].opq
    /\ \A c \in Branches \ {0} : d.hid[c] # "null" =>
          d.hid[c] = "live" /\ f[c].node[p] # None /\ p \notin f[c].wh
    /\ \A c \in Children(p) : fs[0].node[c] = None /\ c \notin f[0].wh

\* Then the whiteout goes into the first branch.
LEMMA TakenParents ==
    ASSUME SoundInv, OneWritable, NEW p \in Paths, NEW d0, NEW d, NEW f \in Unions,
           Taken(p, d0, d, f), NEW start
    PROVE  /\ WhiteoutBranch(f, d, p, start) = 0
           /\ ParentsIn(f, d, p, 0) \in SUBSET {0}
           /\ 0 \in ParentsIn(f, d, p, 0) => d.hid[0] = "null" /\ ~NoParent(fs, dcache, p, 0)
           /\ Whitable(f, d, p, 0) => 0 \in ParentsIn(f, d, p, 0) \/ d.hid[0] # "null"
           /\ p \notin Missing(dcache, p, 0)
<1>1. /\ ParentsIn(f, d, p, 0) \in SUBSET {0}
      /\ 0 \in ParentsIn(f, d, p, 0) => d.hid[0] = "null" /\ ~NoParent(f, dcache, p, 0)
      /\ Usable(f, d, p, 0) <=> 0 \in ParentsIn(f, d, p, 0) \/ d.hid[0] # "null"
      /\ \A b \in Branches : Usable(f, d, p, b) => b = 0
  BY ParentsFirst
<1>2. \A a \in FirstPointed(dcache, p, 0) : f[0].node[a] = fs[0].node[a]
  <2>1. FirstPointed(dcache, p, 0) \in SUBSET (Paths \ {p})
    BY PathsAssumption DEF FirstPointed
  <2> QED BY <2>1 DEF Taken
<1>3. NoParent(fs, dcache, p, 0) => NoParent(f, dcache, p, 0)
  BY <1>2 DEF NoParent
<1>4. \A b \in Branches \ {0} : ~Whitable(f, d, p, b)
  BY <1>1 DEF Whitable, Taken
<1>5. WhiteoutBranch(f, d, p, start) = 0
  <2> DEFINE S == {0} \cup {b \in Branches : b =< start /\ Whitable(f, d, p, b)}
  <2>1. S = {0}
    BY <1>4
  <2>2. Rightmost({0}) \in {0}
    <3>1. {0} \in SUBSET Branches
      BY ZeroBranch
    <3> QED BY <3>1, RightmostIsGreatest
  <2> HIDE DEF S
  <2> QED BY <2>1, <2>2 DEF WhiteoutBranch, S
<1>6. p \notin Missing(dcache, p, 0)
  BY PathsAssumption DEF Missing
<1> QED BY <1>1, <1>3, <1>5, <1>6 DEF Whitable

LEMMA WhitedOutSound ==
    ASSUME SoundInv, OneWritable, Kept, NEW p \in Paths, Reached(p), NEW d0, NEW d,
           NEW f \in Unions, Taken(p, d0, d, f), NEW op, WhitedOut(op, f, d, p, 0)
    PROVE  SoundInv' /\ Removed(p, d) /\ Hidden(p)
<1> DEFINE B == ParentsIn(f, d, p, 0)
           g == ParentsMade(f, dcache, p, B)
           pds == ParentDentries(dcache, p, B)
<1>1. /\ B \in SUBSET {0} /\ p \notin Missing(dcache, p, 0)
      /\ 0 \in B => ~NoParent(fs, dcache, p, 0)
      /\ 0 \in B \/ d.hid[0] # "null"
  BY TakenParents DEF WhitedOut
<1>2. fs' = AddWhiteout(g, 0, p) /\ dcache' = Dropped(pds, p)
  BY ZeroBranch DEF WhitedOut
<1> HIDE DEF B
<1>3. /\ g \in Unions /\ g[0].wh = f[0].wh /\ g[0].opq = f[0].opq
      /\ \A q \in Paths : g[0].node[q] = IF 0 \in B /\ q \in Missing(dcache, p, 0)
                                         THEN Dir ELSE f[0].node[q]
  <2>1. g = ParentsMade(f, dcache, p, B)
    OBVIOUS
  <2> HIDE DEF g
  <2> QED BY <1>1, <2>1, MadeIs
<1> HIDE DEF g
<1>4. fs'[0].node = g[0].node /\ fs'[0].wh = f[0].wh \cup {p} /\ fs'[0].opq = f[0].opq
  BY <1>2, <1>3, WriteIs
<1>5. \A q \in Paths \ {p} : fs'[0].node[q] = IF 0 \in B /\ q \in Missing(dcache, p, 0)
                                              THEN Dir ELSE fs[0].node[q]
  BY <1>3, <1>4 DEF Taken
<1>6. fs'[0].node[p] = None
  BY <1>1, <1>3, <1>4 DEF Taken
<1>7. dcache'[p] = NoDentry /\ \A q \in Paths \ {p} : dcache'[q] = NoDentry \/ dcache'[q] = pds[q]
  <2> HIDE DEF pds
  <2> QED BY <1>2 DEF Dropped
<1>8. Rewrites(p, B, dcache, dcache', fs')
  <2>1. fs'[0].wh \subseteq fs[0].wh \cup {p}
    BY <1>4 DEF Taken
  <2> QED BY <1>5, <1>7, <2>1 DEF Rewrites
<1>9. Places(p, B, fs'[0])
  <2>1. \A c \in Children(p) : fs[0].node[c] = None /\ c \notin fs'[0].wh
    <3>1. p \notin Children(p)
      BY PathsAssumption DEF Children
    <3> QED BY <1>4, <3>1 DEF Taken
  <2>2. p \notin fs'[0].opq /\ fs'[0].opq \subseteq fs[0].opq
    BY <1>4 DEF Taken
  <2>3. 0 \in B \/ IsDir(fs, 0, Parent[p])
    BY <1>1 DEF Taken
  <2> QED BY <1>1, <1>6, <2>1, <2>2, <2>3 DEF Places
<1>10. dcache \in Caches /\ Closed(dcache) /\ Known(dcache, fs)
  BY DEF SoundInv, Inv
<1>11. Moves(p, B)
  BY <1>1, <1>8 DEF Rewrites, Moves
<1>12. Removed(p, d)
  BY <1>7, <1>11 DEF Removed
<1>13. Hidden(p)
  <2>1. \A q \in Tree(p) : dcache'[q] = NoDentry
    <3> HIDE DEF pds
    <3> QED BY <1>2 DEF Dropped, Tree, Below
  <2>2. Marks(Tree(p))
    <3>1. \A q \in Paths \ Tree(p) : /\ q \in f[0].wh <=> q \in fs[0].wh
                                     /\ q \in f[0].opq <=> q \in fs[0].opq
      BY DEF Taken
    <3>2. p \in Tree(p)
      BY DEF Tree
    <3> HIDE DEF pds
    <3> QED BY <1>4, <3>1, <3>2 DEF Marks
  <2>3. last'.ret = "ok"
    BY DEF WhitedOut, Done
  <2> QED BY <1>4, <2>1, <2>2, <2>3 DEF Hidden
<1>14. SoundInv'
  BY <1>1, <1>8, <1>9, <1>10, SoundBy
<1> QED BY <1>12, <1>13, <1>14

\* The dentry that create_parents points at the first branch keeps what it had.
LEMMA PointedKeeps ==
    ASSUME NEW d \in GoodDentries, Bounded(d), d.hid[0] = "null", NEW p \in Paths, NEW f,
           \A c \in Branches \ {0} : d.hid[c] # "null" => d.hid[c] = "live" /\ f[c].node[p] # None,
           NEW e, e = Pointed(f, d, p, 0)
    PROVE  Bounded(e) /\ Keeps(d, e) /\ e.hid[0] # "null"
<1> DEFINE range == {c \in Branches : /\ Leftmost({d.bstart, 0}) =< c
                                      /\ c =< Rightmost({d.bend, 0})}
           kept == {0} \cup {c \in range :
                               \/ d.hid[c] = "dead"
                               \/ d.hid[c] = "live" /\ f[c].node[p] # None}
<1>1. e = [bstart  |-> Leftmost(kept), bend    |-> Rightmost(kept), bopaque |-> d.bopaque,
           hid     |-> [c \in Branches |-> IF c = 0 THEN "live"
                                           ELSE IF c \in range \ kept THEN "null" ELSE d.hid[c]]]
  BY DEF Pointed
<1>2. \A c \in range \ kept : c # 0 /\ c \in Branches /\ d.hid[c] = "null"
  OBVIOUS
<1>3. kept \in SUBSET Branches /\ 0 \in kept
  BY ZeroBranch
<1> HIDE DEF range, kept
<1>4. \A c \in Branches \ {0} : e.hid[c] = d.hid[c]
  BY <1>1, <1>2
<1>5. e.hid[0] = "live"
  BY <1>1, ZeroBranch
<1>6. e.bstart = 0 /\ 0 =< e.bend
  <2>1. /\ Leftmost(kept) \in Branches /\ Leftmost(kept) =< 0
        /\ 0 =< Rightmost(kept)
    BY <1>3, LeftmostIsLeast, RightmostIsGreatest
  <2> DEFINE l == Leftmost(kept)
             r == Rightmost(kept)
  <2>2. e.bstart = l /\ e.bend = r
    BY <1>1
  <2>3. l \in Branches /\ l =< 0 /\ 0 =< r
    BY <2>1
  <2> HIDE DEF l, r
  <2> QED BY <2>2, <2>3, ZeroBranch
<1>7. Bounded(e)
  <2>1. \A m \in Branches : ~ (m < 0)
    BY ZeroBranch
  <2> QED BY <1>6, <2>1 DEF Bounded
<1> QED BY <1>4, <1>5, <1>7 DEF Keeps

\* If the whiteout cannot be written, the dentry may have been pointed at the
\* first branch.
LEMMA WhiteoutFailsSound ==
    ASSUME SoundInv, OneWritable, Kept, NEW p \in Paths, Reached(p),
           NEW d0 \in GoodDentries, Fits(d0, DentryOf(Parent[p]), p, fs),
           dcache[p] # NoDentry => Extends(dcache[p], d0),
           NEW d \in GoodDentries, NEW f \in Unions, Taken(p, d0, d, f),
           NEW dc, \A q \in Paths \ {p} : dc[q] = NoDentry \/ dc[q] = dcache[q],
           \A a \in Above[p] : dc[a] = dcache[a], dc[p] \in {NoDentry, d},
           dc \in Caches, NEW op, WhiteoutFails(op, f, d, p, 0, dc)
    PROVE  SoundInv' /\ Removed(p, d)
<1> DEFINE B == ParentsIn(f, d, p, 0)
           pds == ParentDentries(dcache, p, B)
           pdc == ParentDentries(dc, p, B)
           e == Pointed(f, d, p, 0)
           dc1 == With(dcache, p, d0)
<1>1. /\ B \in SUBSET {0} /\ p \notin Missing(dcache, p, 0)
      /\ 0 \in B => d.hid[0] = "null" /\ ~NoParent(fs, dcache, p, 0)
  BY TakenParents
<1>2. /\ fs' = ParentsMade(f, dcache, p, B)
      /\ dcache' = [pdc EXCEPT ![p] = IF @ = NoDentry \/ B = {} THEN @ ELSE e]
  BY DEF WhiteoutFails
<1> HIDE DEF B, dc1
<1>3. /\ fs'[0].wh = f[0].wh /\ fs'[0].opq = f[0].opq
      /\ \A q \in Paths : fs'[0].node[q] = IF 0 \in B /\ q \in Missing(dcache, p, 0)
                                           THEN Dir ELSE f[0].node[q]
  BY <1>1, <1>2, MadeIs
<1>4. Missing(dc, p, 0) = Missing(dcache, p, 0)
  BY DEF Missing
<1>5. \A a \in Above[p] : dcache[a] # NoDentry
  BY ReachedAncestors DEF SoundInv
\* away from p, and at p
<1>6. ASSUME NEW q \in Paths \ {p} PROVE pdc[q] = NoDentry \/ pdc[q] = pds[q]
  <2>1. CASE dc[q] = dcache[q]
    <3>1. {b \in B : q \in Missing(dc, p, b)} = {b \in B : q \in Missing(dcache, p, b)}
      BY <1>1, <1>4
    <3> QED BY <2>1, <3>1 DEF ParentDentries
  <2>2. CASE dc[q] = NoDentry /\ dcache[q] # NoDentry
    <3>1. q \notin Above[p]
      BY <2>2
    <3>2. {b \in B : q \in Missing(dc, p, b)} = {}
      BY <3>1 DEF Missing
    <3> QED BY <2>2, <3>2 DEF ParentDentries
  <2> QED BY <2>1, <2>2
<1>7. pdc[p] = dc[p]
  <2>1. {b \in B : p \in Missing(dc, p, b)} = {}
    BY <1>1, <1>4
  <2> QED BY <2>1 DEF ParentDentries
<1>8. /\ \A q \in Paths \ {p} : dcache'[q] = pdc[q]
      /\ dcache'[p] = IF dc[p] = NoDentry \/ B = {} THEN dc[p] ELSE e
  <2>1. DOMAIN pdc = Paths
    BY DEF ParentDentries
  <2> HIDE DEF pdc, e
  <2> QED BY <1>2, <1>7, <2>1
<1>9. /\ dc1 \in Caches /\ Closed(dc1) /\ Known(dc1, fs)
      /\ dc1[p] = d0 /\ d0 # NoDentry /\ \A q \in Paths \ {p} : dc1[q] = dcache[q]
  <2>1. dc1 = With(dcache, p, d0)
    BY DEF dc1
  <2>2. /\ SoundInv /\ p \in Paths /\ Reached(p) /\ d0 \in GoodDentries
        /\ Fits(d0, DentryOf(Parent[p]), p, fs)
        /\ dcache[p] # NoDentry => Extends(dcache[p], d0)
    OBVIOUS
  <2> QED BY ONLY <2>1, <2>2, KnownWith
<1>10. fs'[0].node[p] = None /\ p \notin fs'[0].wh
  BY <1>1, <1>3 DEF Taken
<1> HIDE DEF pdc
\* what is left of the dentry
<1>11. ASSUME dcache'[p] # NoDentry
       PROVE  /\ Bounded(dcache'[p]) /\ Keeps(d0, dcache'[p])
              /\ dcache'[p].hid[0] # "null" => 0 \in B \/ DentryOf(Parent[p]).hid[0] # "null"
  <2>1. CASE B = {}
    <3>1. dcache'[p] = d
      BY <1>8, <1>11, <2>1
    <3> QED BY <3>1 DEF Taken
  <2>2. CASE B # {}
    <3>1. 0 \in B /\ dcache'[p] = e
      BY <1>1, <1>8, <1>11, <2>2
    <3>2. Bounded(e) /\ Keeps(d, e) /\ e.hid[0] # "null"
      <4>1. \A c \in Branches \ {0} : d.hid[c] # "null" => d.hid[c] = "live" /\ f[c].node[p] # None
        BY DEF Taken
      <4>2. Bounded(d) /\ d.hid[0] = "null"
        BY <1>1, <3>1 DEF Taken
      <4> QED BY <4>1, <4>2, PointedKeeps
    <3> HIDE DEF e
    <3>3. Keeps(d0, e)
      BY <3>2 DEF Taken, Keeps
    <3> QED BY <3>1, <3>2, <3>3
  <2> QED BY <2>1, <2>2
<1>12. ASSUME dcache'[p] # NoDentry PROVE KnownTop(dcache'[p], Of(dcache', Parent[p]), p, fs')
  <2>1. ASSUME Parent[p] # Root PROVE dcache'[Parent[p]] = ParentDentries(dcache, p, B)[Parent[p]]
    <3>1. Parent[p] \in Paths \ {p} /\ Parent[p] \in Above[p]
      BY <2>1, PathsAssumption
    <3>2. dc[Parent[p]] = dcache[Parent[p]]
      BY <3>1
    <3>3. {b \in B : Parent[p] \in Missing(dc, p, b)} = {b \in B : Parent[p] \in Missing(dcache, p, b)}
      BY <1>1, <1>4
    <3>4. pdc[Parent[p]] = pds[Parent[p]]
      BY <3>1, <3>2, <3>3 DEF ParentDentries, pdc
    <3> HIDE DEF pds
    <3> QED BY <1>8, <3>1, <3>4 DEF pds
  <2>2. dcache'[p].hid[0] # "null" => Of(dcache', Parent[p]).hid[0] # "null"
    BY <1>1, <1>11, <1>12, <2>1, ParentPointed
  <2> QED BY <1>10, <2>2 DEF KnownTop
<1>13. Rewrites(p, B, dc1, dcache', fs')
  <2>1. \A q \in Paths \ {p} : fs'[0].node[q] = IF 0 \in B /\ q \in Missing(dcache, p, 0)
                                                THEN Dir ELSE fs[0].node[q]
    BY <1>3 DEF Taken
  <2>2. fs'[0].wh \subseteq fs[0].wh \cup {p}
    BY <1>3 DEF Taken
  <2> HIDE DEF pds
  <2>3. \A q \in Paths \ {p} : dcache'[q] = NoDentry \/ dcache'[q] = ParentDentries(dcache, p, B)[q]
    BY <1>6, <1>8 DEF pds
  <2> QED BY <1>9, <1>11, <1>12, <2>1, <2>2, <2>3 DEF Rewrites
<1>14. Places(p, B, fs'[0])
  <2>1. \A c \in Children(p) : fs[0].node[c] = None /\ c \notin fs'[0].wh
    BY <1>3 DEF Taken
  <2>2. p \notin fs'[0].opq /\ fs'[0].opq \subseteq fs[0].opq
    BY <1>3 DEF Taken
  <2> QED BY <1>1, <1>10, <2>1, <2>2 DEF Places
<1>15. Moves(p, B)
  BY <1>1, <1>13 DEF Rewrites, Moves
<1>16. B = {} /\ d.hid[0] = "null" => NoParent(fs, dcache, p, 0)
  BY ZeroBranch DEF B, Taken, ParentsIn, Usable
<1>17. B # {} /\ dcache'[p] # NoDentry => dcache'[p].hid[0] # "null"
  <2> SUFFICES ASSUME B # {}, dcache'[p] # NoDentry PROVE dcache'[p].hid[0] # "null"
    OBVIOUS
  <2>1. dcache'[p] = e
    BY <1>8
  <2>2. e.hid[0] = "live"
    BY ZeroBranch DEF Pointed
  <2> HIDE DEF e
  <2> QED BY <2>1, <2>2
<1>18. Removed(p, d)
  <2>1. CASE dcache'[p] = NoDentry
    BY <1>15, <2>1 DEF Removed
  <2>2. CASE dcache'[p] # NoDentry /\ B = {}
    <3>1. dcache'[p] = d
      BY <1>8, <2>2
    <3> QED BY <1>15, <1>16, <2>2, <3>1 DEF Removed
  <2>3. CASE dcache'[p] # NoDentry /\ B # {}
    <3>1. 0 \in B /\ d.hid[0] = "null"
      BY <1>1, <2>3
    <3> QED BY <1>15, <1>17, <2>3, <3>1 DEF Removed
  <2> QED BY <2>1, <2>2, <2>3
<1> QED BY <1>1, <1>9, <1>13, <1>14, <1>18, SoundBy

\* The dentry that unlink and rmdir work on.
LEMMA RemovedFits ==
    ASSUME SoundInv, OneWritable, NEW p \in Paths, Reached(p), Present(p),
           Object(fs, Target(p), p) \in Values \cup {Dir},
           NEW d0, d0 = PartialLookup(fs, DentryOf(Parent[p]), Target(p), p)
    PROVE  /\ d0 \in GoodDentries /\ Fits(d0, DentryOf(Parent[p]), p, fs)
           /\ dcache[p] # NoDentry => Extends(dcache[p], d0)
           /\ \/ /\ d0.bstart = 0 /\ d0.hid[0] = "live"
                 /\ fs[0].node[p] = Object(fs, Target(p), p) /\ fs[0].node[p] # None
                 /\ IsDir(fs, 0, Parent[p]) /\ DentryOf(Parent[p]).hid[0] # "null"
              \/ d0.bstart # 0 /\ d0.hid[0] = "null" /\ fs[0].node[p] = None
           /\ p \notin fs[0].wh /\ (IsRobranch(d0.bstart) <=> d0.bstart # 0)
           /\ \A c \in Branches \ {0} : d0.hid[c] # "null" =>
                d0.hid[c] = "live" /\ fs[c].node[p] # None /\ p \notin fs[c].wh
<1> DEFINE t == Target(p)
           pd == DentryOf(Parent[p])
<1>1. t \in GoodDentries /\ Fits(t, pd, p, fs) /\ (dcache[p] # NoDentry => t = dcache[p])
  BY TargetFits
<1>2. pd \in GoodDentries /\ Bounded(pd)
  BY ReachedParent
<1>3. fs \in [Branches -> SoundBranches]
  BY DEF SoundInv, BranchesSound
<1>4. t.hid[t.bstart] = "live" /\ fs[t.bstart].node[p] = Object(fs, t, p)
  <2>1. Object(fs, t, p) # Lost
    BY LostAssumption DEF Nodes
  <2> HIDE DEF t
  <2> QED BY <1>1, <2>1, GoodFields DEF Object, Pointers
<1> HIDE DEF t, pd
<1>5. /\ d0 \in GoodDentries /\ Fits(d0, pd, p, fs)
      /\ d0.bstart = t.bstart /\ Extends(t, d0)
  <2>1. d0 = PartialLookup(fs, pd, t, p)
    BY DEF t, pd
  <2> QED BY <1>1, <1>2, <1>3, <2>1, PartialFits DEF Extends
<1>6. d0.bstart \in Branches
  BY <1>5, GoodFields
<1>7. CASE d0.bstart = 0
  <2>1. d0.hid[0] = "live" /\ fs[0].node[p] = Object(fs, t, p)
    BY <1>4, <1>5, <1>7 DEF Extends
  <2>2. fs[0].node[p] # None
    BY <2>1, ValuesAssumption DEF t
  <2>3. IsDir(fs, 0, Parent[p])
    BY <1>3, <2>2, InDirectory, ZeroBranch
  <2>4. pd.hid[0] # "null"
    BY <1>5, <2>1 DEF Fits, KnownTop
  <2>5. p \notin fs[0].wh
    BY <1>5 DEF Fits, KnownTop
  <2>6. \A c \in Branches \ {0} : d0.hid[c] # "null" =>
                d0.hid[c] = "live" /\ fs[c].node[p] # None /\ p \notin fs[c].wh
    BY <1>5 DEF Fits, KnownBelow
  <2>7. ~IsRobranch(d0.bstart)
    BY <1>7, ZeroBranch
  <2> QED BY <1>1, <1>5, <1>7, <2>1, <2>2, <2>3, <2>4, <2>5, <2>6, <2>7 DEF t, pd
<1>8. CASE d0.bstart # 0
  <2>1. d0.hid[0] = "null"
    BY <1>5, <1>6, <1>8, ZeroBranch DEF Fits, Bounded
  <2>2. fs[0].node[p] = None /\ p \notin fs[0].wh
    BY <1>5, <2>1 DEF Fits, KnownTop
  <2>3. \A c \in Branches \ {0} : d0.hid[c] # "null" =>
                d0.hid[c] = "live" /\ fs[c].node[p] # None /\ p \notin fs[c].wh
    BY <1>5 DEF Fits, KnownBelow
  <2>4. IsRobranch(d0.bstart)
    BY <1>6, <1>8, ZeroBranch
  <2> QED BY <1>1, <1>5, <1>8, <2>1, <2>2, <2>3, <2>4 DEF pd
<1> QED BY <1>7, <1>8

\* So whatever comes of the whiteout.
LEMMA RemovalSound ==
    ASSUME SoundInv, OneWritable, Kept, NEW p \in Paths, Reached(p),
           NEW d0 \in GoodDentries, Fits(d0, DentryOf(Parent[p]), p, fs),
           dcache[p] # NoDentry => Extends(dcache[p], d0),
           NEW d \in GoodDentries, NEW f \in Unions, Taken(p, d0, d, f),
           NEW dc \in Caches, \A q \in Paths \ {p} : dc[q] = NoDentry \/ dc[q] = dcache[q],
           \A a \in Above[p] : dc[a] = dcache[a], dc[p] \in {NoDentry, d},
           NEW start, NEW w, w = WhiteoutBranch(f, d, p, start), NEW op,
           \/ MayOops(f, d, p, w, start) /\ Crashes(f)
           \/ WhitedOut(op, f, d, p, w)
           \/ WhiteoutFails(op, f, d, p, w, dc)
    PROVE  SoundInv' /\ (oops' = TRUE \/ (Removed(p, d) /\ (Hidden(p) \/ Unwritten(p))))
<1>1. w = 0
  BY TakenParents
<1>2. CASE MayOops(f, d, p, 0, start) /\ Crashes(f)
  <2>1. d.hid[0] = "null"
    BY <1>2 DEF MayOops, MustOops, OneWritable
  <2>2. fs' = fs
    BY <1>2, <2>1 DEF Taken, Crashes
  <2>3. Crashes(fs') /\ oops' = TRUE
    BY <1>2, <2>2 DEF Crashes
  <2> QED BY <2>2, <2>3, CrashesSound
<1>3. CASE WhitedOut(op, f, d, p, 0)
  BY <1>3, WhitedOutSound
<1>4. CASE WhiteoutFails(op, f, d, p, 0, dc)
  <2>1. SoundInv' /\ Removed(p, d)
    BY <1>4, WhiteoutFailsSound
  <2>2. ASSUME "whiteout" \notin Faults PROVE NoParent(fs, dcache, p, 0)
    <3>1. ~Usable(f, d, p, 0)
      BY <1>4, <2>2 DEF WhiteoutFails, Whitable
    <3>2. NoParent(f, dcache, p, 0)
      BY <3>1, ZeroBranch DEF Usable
    <3>3. \A a \in FirstPointed(dcache, p, 0) : f[0].node[a] = fs[0].node[a]
      <4>1. FirstPointed(dcache, p, 0) \in SUBSET (Paths \ {p})
        BY PathsAssumption DEF FirstPointed
      <4> QED BY <4>1 DEF Taken
    <3> QED BY <3>2, <3>3 DEF NoParent
  <2> QED BY <2>1, <2>2 DEF Unwritten
<1> QED BY <1>1, <1>2, <1>3, <1>4

LEMMA KilledKeeps ==
    ASSUME NEW d \in GoodDentries, Bounded(d), d.bstart = 0
    PROVE  /\ Keeps(d, Killed(d, 0)) /\ Bounded(Killed(d, 0))
           /\ Killed(d, 0).hid[0] = "dead"
           /\ \A c \in Branches \ {0} : Killed(d, 0).hid[c] = d.hid[c]
<1> DEFINE e == Killed(d, 0)
<1>1. e = [bstart |-> d.bstart, bend |-> d.bend, bopaque |-> d.bopaque,
           hid |-> [d.hid EXCEPT ![0] = "dead"]]
  BY GoodFields DEF Killed
<1>2. d.hid \in [Branches -> Pointers] /\ 0 \in Branches
  BY GoodFields, ZeroBranch
<1>3. e.bstart = 0 /\ e.bend = d.bend /\ e.hid = [d.hid EXCEPT ![0] = "dead"]
  BY <1>1
<1> HIDE DEF e
<1>4. e.hid[0] = "dead" /\ \A c \in Branches \ {0} : e.hid[c] = d.hid[c]
  BY <1>2, <1>3
<1>5. Bounded(e)
  <2>1. \A m \in Branches : ~ (m < 0)
    BY ZeroBranch
  <2> QED BY <1>3, <2>1 DEF Bounded
<1> QED BY <1>4, <1>5 DEF Keeps, e

\* Nothing happens to a name of a read-only branch before its whiteout.
LEMMA TakenNothing ==
    ASSUME SoundInv, NEW p \in Paths, NEW d0, Bounded(d0), d0.hid[0] = "null",
           fs[0].node[p] = None, p \notin fs[0].wh,
           \A c \in Branches \ {0} : d0.hid[c] # "null" =>
                d0.hid[c] = "live" /\ fs[c].node[p] # None /\ p \notin fs[c].wh
    PROVE  Taken(p, d0, d0, fs)
<1>1. fs[0] \in SoundBranches
  BY ZeroBranch DEF SoundInv, BranchesSound
<1>2. p \notin fs[0].opq
  BY <1>1, SoundType, ValuesAssumption DEF LowerTree
<1>3. \A c \in Children(p) : fs[0].node[c] = None /\ c \notin fs[0].wh
  BY NoChildren, ValuesAssumption
<1> QED BY <1>2, <1>3 DEF Taken, Keeps

LEMMA UnlinkSound ==
    ASSUME SoundInv, OneWritable, Kept, NEW p \in Paths, unionfs_unlink(p)
    PROVE  /\ SoundInv'
           /\ LET d0 == PartialLookup(fs, DentryOf(Parent[p]), Target(p), p)
              IN  \/ oops' = TRUE
                  \/ /\ Removed(p, IF IsRobranch(d0.bstart) THEN d0 ELSE Killed(d0, d0.bstart))
                     /\ Hidden(p) \/ Unwritten(p)
<1> DEFINE d0 == PartialLookup(fs, DentryOf(Parent[p]), Target(p), p)
           b  == d0.bstart
           d  == IF IsRobranch(b) THEN d0 ELSE Killed(d0, b)
           f  == IF IsRobranch(b) THEN fs ELSE SetNode(fs, b, p, None)
           start == IF IsRobranch(b) THEN b - 1
                    ELSE IF d.bopaque # -1 THEN d.bopaque ELSE b
           w  == WhiteoutBranch(f, d, p, start)
           dc == With(dcache, p, d)
<1>1. Reached(p) /\ Present(p) /\ Object(fs, Target(p), p) \in Values
  BY DEF unionfs_unlink
<1>2. \/ MayOops(f, d, p, w, start) /\ Crashes(f)
      \/ WhitedOut("unlink", f, d, p, w)
      \/ WhiteoutFails("unlink", f, d, p, w, dc)
  BY DEF unionfs_unlink, With
<1> HIDE DEF w, start, dc
<1>3. /\ d0 \in GoodDentries /\ Fits(d0, DentryOf(Parent[p]), p, fs)
      /\ dcache[p] # NoDentry => Extends(dcache[p], d0)
      /\ \/ /\ b = 0 /\ d0.hid[0] = "live"
            /\ fs[0].node[p] = Object(fs, Target(p), p)
            /\ IsDir(fs, 0, Parent[p]) /\ DentryOf(Parent[p]).hid[0] # "null"
         \/ b # 0 /\ d0.hid[0] = "null" /\ fs[0].node[p] = None
      /\ p \notin fs[0].wh /\ (IsRobranch(b) <=> b # 0)
      /\ \A c \in Branches \ {0} : d0.hid[c] # "null" =>
           d0.hid[c] = "live" /\ fs[c].node[p] # None /\ p \notin fs[c].wh
  <2>1. d0 = PartialLookup(fs, DentryOf(Parent[p]), Target(p), p)
    OBVIOUS
  <2> HIDE DEF d0
  <2> QED BY <1>1, <2>1, RemovedFits
<1> HIDE DEF d0
<1>4. fs \in Unions /\ Bounded(d0)
  BY <1>3 DEF SoundInv, Inv, Fits
<1>5. d \in GoodDentries /\ f \in Unions /\ Taken(p, d0, d, f)
  <2>1. CASE b # 0
    BY <1>3, <1>4, <2>1, TakenNothing
  <2>2. CASE b = 0
    <3>1. d = Killed(d0, 0) /\ f = SetNode(fs, 0, p, None)
      BY <1>3, <2>2
    <3>2. d \in GoodDentries
      BY <1>3, <3>1, KilledGood
    <3>3. f \in Unions
      BY <1>4, <3>1, LowerWrites, BranchAssumption DEF Nodes
    <3>4. /\ Keeps(d0, d) /\ Bounded(d) /\ d.hid[0] = "dead"
          /\ \A c \in Branches \ {0} : d.hid[c] = d0.hid[c]
      BY <1>3, <1>4, <2>2, <3>1, KilledKeeps
    <3>5. /\ f[0].node = [fs[0].node EXCEPT ![p] = None]
          /\ f[0].wh = fs[0].wh /\ f[0].opq = fs[0].opq
      BY <1>4, <3>1, WriteIs
    <3>6. \A c \in Branches \ {0} : f[c] = fs[c]
      BY <1>4, <3>1 DEF SetNode, Unions
    <3>7. fs[0].node \in [Paths -> Nodes] /\ fs[0] \in SoundBranches
      BY <1>4, ZeroBranch DEF SoundInv, BranchesSound, Unions, BranchStates
    <3>8. fs[0].node[p] # Dir
      BY <1>1, <1>3, <2>2, ValuesAssumption
    <3>9. p \notin fs[0].opq
      BY <3>7, <3>8, SoundType DEF LowerTree
    <3>10. \A c \in Children(p) : fs[0].node[c] = None /\ c \notin fs[0].wh
      BY <3>8, NoChildren
    <3> HIDE DEF d, f
    <3>11. f[0].node[p] = None /\ \A q \in Paths \ {p} : f[0].node[q] = fs[0].node[q]
      BY <3>5, <3>7
    <3>12. \A c \in Branches \ {0} : d.hid[c] # "null" =>
              d.hid[c] = "live" /\ f[c].node[p] # None /\ p \notin f[c].wh
      BY <1>3, <3>4, <3>6
    <3>13. DentryOf(Parent[p]).hid[0] # "null" /\ IsDir(fs, 0, Parent[p])
      BY <1>3, <2>2
    <3>14. f[0].opq \subseteq fs[0].opq \ {p} /\ f[0].wh \subseteq fs[0].wh
      BY <3>5, <3>9
    <3>15. Taken(p, d0, d, f)
      BY <1>3, <3>4, <3>5, <3>10, <3>11, <3>12, <3>13, <3>14 DEF Taken
    <3> QED BY <3>2, <3>3, <3>15
  <2> QED BY <2>1, <2>2
<1> HIDE DEF d, f
<1>6. /\ dc \in Caches /\ \A q \in Paths \ {p} : dc[q] = dcache[q]
      /\ dc[p] = d
  BY <1>5 DEF dc, With, SoundInv, Inv, Caches
<1>7. \A a \in Above[p] : dc[a] = dcache[a]
  BY <1>6, PathsAssumption
<1>8. w = WhiteoutBranch(f, d, p, start)
  BY DEF w
<1>9. SoundInv' /\ (oops' = TRUE \/ (Removed(p, d) /\ (Hidden(p) \/ Unwritten(p))))
  BY <1>1, <1>2, <1>3, <1>5, <1>6, <1>7, <1>8, RemovalSound
<1> QED BY <1>9 DEF d, d0

LEMMA UnhashedIs ==
    ASSUME Inv, NEW p \in Paths, Reached(p), NEW d \in GoodDentries, NEW u, u = Unhashed(p, d)
    PROVE  /\ u \in Caches /\ Closed(u) /\ u[p] \in {NoDentry, d}
           /\ \A q \in Paths \ {p} : u[q] = NoDentry \/ u[q] = dcache[q]
           /\ \A a \in Above[p] : u[a] = dcache[a]
<1>1. u \in Caches /\ Closed(u)
  BY UnhashedGood
<1>2. u[p] \in {NoDentry, d} /\ \A q \in Paths \ {p} : u[q] = NoDentry \/ u[q] = dcache[q]
  BY DEF Unhashed
<1>3. \A a \in Above[p] : a \in Paths /\ a # p /\ p \notin Above[a]
  BY PathsAssumption
<1>4. \A a \in Above[p] : u[a] = dcache[a]
  BY <1>3 DEF Unhashed
<1> QED BY <1>1, <1>2, <1>4

\* A sound branch is as a step must leave it.
LEMMA StillPlaced ==
    ASSUME SoundInv, NEW p \in Paths
    PROVE  Places(p, {}, fs[0])
<1>1. fs[0] \in SoundBranches
  BY ZeroBranch DEF SoundInv, BranchesSound
<1>2. /\ p \in fs[0].wh => fs[0].node[p] = None
      /\ p \in fs[0].opq => fs[0].node[p] = Dir
  BY <1>1, SoundType DEF LowerTree, Unambiguous
<1>3. fs[0].node[p] # None \/ p \in fs[0].wh => IsDir(fs, 0, Parent[p])
  BY InDirectory, ZeroBranch DEF SoundInv, BranchesSound
<1>4. fs[0].node[p] = Dir \/ \A c \in Children(p) : fs[0].node[c] = None /\ c \notin fs[0].wh
  BY NoChildren
<1> QED BY <1>2, <1>3, <1>4 DEF Places

\* rmdir refuses: only the dentry is completed, and the cache shrunk.
LEMMA RefusedSound ==
    ASSUME SoundInv, OneWritable, Kept, NEW p \in Paths, Reached(p),
           NEW d0 \in GoodDentries, Fits(d0, DentryOf(Parent[p]), p, fs),
           dcache[p] # NoDentry => Extends(dcache[p], d0),
           fs' = fs, dcache' = Unhashed(p, d0)
    PROVE  SoundInv' /\ Moves(p, {}) /\ dcache'[p] \in {NoDentry, d0}
<1> DEFINE dc1 == With(dcache, p, d0)
<1>1. dc1 = With(dcache, p, d0)
  OBVIOUS
<1> HIDE DEF dc1
<1>2. /\ dc1 \in Caches /\ Closed(dc1) /\ Known(dc1, fs)
      /\ dc1[p] = d0 /\ d0 # NoDentry /\ \A q \in Paths \ {p} : dc1[q] = dcache[q]
  BY <1>1, KnownWith
<1>3. /\ dcache'[p] \in {NoDentry, d0}
      /\ \A q \in Paths \ {p} : dcache'[q] = NoDentry \/ dcache'[q] = dcache[q]
      /\ \A a \in Above[p] : dcache'[a] = dcache[a]
  BY UnhashedIs DEF SoundInv
<1>4. \A q \in Paths : ParentDentries(dcache, p, {})[q] = dcache[q]
  BY DEF ParentDentries
<1>5. Of(dcache', Parent[p]) = DentryOf(Parent[p])
  <2>1. Parent[p] # Root => Parent[p] \in Above[p]
    BY PathsAssumption
  <2> QED BY <1>3, <2>1 DEF Of, DentryOf
<1>6. dcache'[p] # NoDentry =>
        /\ Bounded(dcache'[p]) /\ Keeps(d0, dcache'[p])
        /\ KnownTop(dcache'[p], Of(dcache', Parent[p]), p, fs)
  BY <1>3, <1>5 DEF Fits, Keeps
<1>7. Rewrites(p, {}, dc1, dcache', fs')
  <2>1. \A q \in Paths \ {p} :
            dcache'[q] = NoDentry \/ dcache'[q] = ParentDentries(dcache, p, {})[q]
    BY <1>3, <1>4
  <2> QED BY <1>2, <1>6, <2>1 DEF Rewrites
<1>8. Places(p, {}, fs'[0])
  BY StillPlaced
<1>9. Moves(p, {})
  BY <1>7 DEF Rewrites, Moves
<1> QED BY <1>2, <1>3, <1>7, <1>8, <1>9, SoundBy

LEMMA RmdirSound ==
    ASSUME SoundInv, OneWritable, Kept, NEW p \in Paths, unionfs_rmdir(p)
    PROVE  /\ SoundInv'
           /\ LET d0 == PartialLookup(fs, DentryOf(Parent[p]), Target(p), p)
              IN  \/ oops' = TRUE
                  \/ /\ ~CheckEmpty(d0, p) /\ dcache'[p] \in {NoDentry, d0}
                     /\ Moves(p, {}) /\ fs' = fs
                  \/ /\ CheckEmpty(d0, p)
                     /\ Removed(p, IF IsRobranch(d0.bstart) THEN d0 ELSE Killed(d0, d0.bstart))
                     /\ Hidden(p) \/ Unwritten(p)
<1> DEFINE d0 == PartialLookup(fs, DentryOf(Parent[p]), Target(p), p)
           b  == d0.bstart
           d  == IF IsRobranch(b) THEN d0 ELSE Killed(d0, b)
           f  == IF IsRobranch(b) THEN fs ELSE rmdir_first(p, b)
           start == IF IsRobranch(b) THEN b - 1 ELSE b
           w  == WhiteoutBranch(f, d, p, start)
           dc == Unhashed(p, d)
<1>1. Reached(p) /\ Present(p) /\ Object(fs, Target(p), p) = Dir
  BY DEF unionfs_rmdir
<1>2. \/ ~CheckEmpty(d0, p) /\ dcache' = Unhashed(p, d0) /\ fs' = fs
      \/ /\ CheckEmpty(d0, p)
         /\ \/ MayOops(f, d, p, w, start) /\ Crashes(f)
            \/ WhitedOut("rmdir", f, d, p, w)
            \/ WhiteoutFails("rmdir", f, d, p, w, dc)
  BY DEF unionfs_rmdir
<1> HIDE DEF w, start, dc
<1>3. /\ d0 \in GoodDentries /\ Fits(d0, DentryOf(Parent[p]), p, fs)
      /\ dcache[p] # NoDentry => Extends(dcache[p], d0)
      /\ \/ /\ b = 0 /\ d0.hid[0] = "live"
            /\ fs[0].node[p] = Object(fs, Target(p), p)
            /\ IsDir(fs, 0, Parent[p]) /\ DentryOf(Parent[p]).hid[0] # "null"
         \/ b # 0 /\ d0.hid[0] = "null" /\ fs[0].node[p] = None
      /\ p \notin fs[0].wh /\ (IsRobranch(b) <=> b # 0)
      /\ \A c \in Branches \ {0} : d0.hid[c] # "null" =>
           d0.hid[c] = "live" /\ fs[c].node[p] # None /\ p \notin fs[c].wh
  <2>1. d0 = PartialLookup(fs, DentryOf(Parent[p]), Target(p), p)
    OBVIOUS
  <2> HIDE DEF d0
  <2> QED BY <1>1, <2>1, RemovedFits
<1> HIDE DEF d0
<1>4. fs \in Unions /\ Bounded(d0)
  BY <1>3 DEF SoundInv, Inv, Fits
<1>5. ASSUME CheckEmpty(d0, p)
      PROVE  d \in GoodDentries /\ f \in Unions /\ Taken(p, d0, d, f)
  <2>1. CASE b # 0
    BY <1>3, <1>4, <2>1, TakenNothing
  <2>2. CASE b = 0
    <3>1. d = Killed(d0, 0) /\ f = rmdir_first(p, 0)
      BY <1>3, <2>2
    <3>2. d \in GoodDentries
      BY <1>3, <3>1, KilledGood
    <3>3. fs[0].node \in [Paths -> Nodes] /\ fs[0].wh \in SUBSET Paths /\ fs[0].opq \in SUBSET Paths
      BY <1>4, ZeroBranch DEF Unions, BranchStates
    <3>4. /\ f[0] = [node |-> [fs[0].node EXCEPT ![p] = None], wh |-> fs[0].wh \ Children(p),
                     opq |-> fs[0].opq \ {p}]
          /\ \A c \in Branches \ {0} : f[c] = fs[c]
      BY <1>4, <3>1, ZeroBranch DEF rmdir_first, Unions
    <3>5. f \in Unions
      BY <1>4, <3>1, <3>3, ZeroBranch DEF rmdir_first, Unions, BranchStates, Nodes
    <3>6. /\ Keeps(d0, d) /\ Bounded(d) /\ d.hid[0] = "dead"
          /\ \A c \in Branches \ {0} : d.hid[c] = d0.hid[c]
      BY <1>3, <1>4, <2>2, <3>1, KilledKeeps
    <3>7. 0 \in ReadForEmpty(d0, p)
      <4>1. d0.bopaque = -1 \/ 0 =< d0.bopaque
        BY <1>3, GoodFields, BranchAssumption
      <4>2. 0 =< d0.bend
        BY <1>4, <2>2 DEF Bounded
      <4> QED BY <1>1, <1>3, <2>2, <4>1, <4>2, ZeroBranch DEF ReadForEmpty
    <3>8. \A c \in Children(p) : fs[0].node[c] = None
      <4> SUFFICES ASSUME NEW c \in Children(p), fs[0].node[c] # None PROVE FALSE
        OBVIOUS
      <4>1. PICK a \in ReadForEmpty(d0, p) : a < 0
        BY <1>5, <3>7 DEF CheckEmpty
      <4> QED BY <4>1, ZeroBranch DEF ReadForEmpty
    <3> HIDE DEF d, f
    <3>9. /\ f[0].node[p] = None /\ \A q \in Paths \ {p} : f[0].node[q] = fs[0].node[q]
          /\ f[0].wh = fs[0].wh \ Children(p) /\ f[0].opq = fs[0].opq \ {p}
      BY <3>3, <3>4
    <3>10. \A c \in Branches \ {0} : d.hid[c] # "null" =>
              d.hid[c] = "live" /\ f[c].node[p] # None /\ p \notin f[c].wh
      BY <1>3, <3>4, <3>6
    <3>11. DentryOf(Parent[p]).hid[0] # "null" /\ IsDir(fs, 0, Parent[p])
      BY <1>3, <2>2
    <3>12. Taken(p, d0, d, f)
      <4>1. Children(p) \subseteq Below(p) /\ p \in Tree(p) /\ Below(p) \subseteq Tree(p)
        <5>1. \A c \in Children(p) : c \in Paths /\ Parent[c] # Root /\ p \in Above[c]
          BY PathsAssumption DEF Children
        <5> QED BY <5>1 DEF Below, Tree
      <4>2. \A q \in Paths \ Tree(p) : /\ q \in f[0].wh <=> q \in fs[0].wh
                                       /\ q \in f[0].opq <=> q \in fs[0].opq
        BY <3>9, <4>1
      <4> QED BY <1>3, <3>6, <3>8, <3>9, <3>10, <3>11, <4>2 DEF Taken
    <3> QED BY <3>2, <3>5, <3>12
  <2> QED BY <2>1, <2>2
<1> HIDE DEF d, f
<1>6. CASE ~CheckEmpty(d0, p) /\ dcache' = Unhashed(p, d0) /\ fs' = fs
  <2>1. SoundInv' /\ Moves(p, {}) /\ dcache'[p] \in {NoDentry, d0}
    BY <1>1, <1>3, <1>6, RefusedSound
  <2> QED BY <1>6, <2>1 DEF d0
<1>7. CASE /\ CheckEmpty(d0, p)
           /\ \/ MayOops(f, d, p, w, start) /\ Crashes(f)
              \/ WhitedOut("rmdir", f, d, p, w)
              \/ WhiteoutFails("rmdir", f, d, p, w, dc)
  <2>1. dc = Unhashed(p, d) /\ Inv
    BY DEF dc, SoundInv
  <2>2. /\ dc \in Caches /\ dc[p] \in {NoDentry, d}
        /\ \A q \in Paths \ {p} : dc[q] = NoDentry \/ dc[q] = dcache[q]
        /\ \A a \in Above[p] : dc[a] = dcache[a]
    BY <1>1, <1>5, <1>7, <2>1, UnhashedIs
  <2>3. w = WhiteoutBranch(f, d, p, start)
    BY DEF w
  <2>4. SoundInv' /\ (oops' = TRUE \/ (Removed(p, d) /\ (Hidden(p) \/ Unwritten(p))))
    BY <1>1, <1>3, <1>5, <1>7, <2>2, <2>3, RemovalSound
  <2> QED BY <1>7, <2>4 DEF d, d0
<1> QED BY <1>2, <1>6, <1>7

-----------------------------------------------------------------------------
(* setattr and copyup.                                                     *)

\* Only the first branch is tried.
LEMMA TriedFirst ==
    ASSUME OneWritable, NEW d, NEW p \in Paths, NEW full
    PROVE  /\ Tried(d, p, full) \in SUBSET {0}
           /\ 0 \in Tried(d, p, full) /\ d.hid[0] = "null" => ~NoParent(fs, dcache, p, 0)
<1>1. \A i \in Branches : Usable(fs, d, p, i) => i = 0
  BY ParentsFirst
<1>2. \A i \in Tried(d, p, full) : i \in Branches /\ Usable(fs, d, p, i)
  BY DEF Tried
<1> QED BY <1>1, <1>2 DEF Usable

\* The dentry of a copied-up name: it starts at the copy, or where it did.
LEMMA CopiedUpIs ==
    ASSUME NEW d \in GoodDentries, Bounded(d), d.hid[0] = "null", NEW p \in Paths,
           NEW full, NEW how, Tried(d, p, full) \in SUBSET {0},
           NEW e, e = CopiedUp(d, p, d.bstart, full, how)
    PROVE  /\ Bounded(e) /\ Keeps(d, e)
           /\ e.hid[0] = "null" => 0 \notin Tried(d, p, full) \/ 0 \in full
           /\ e.hid[0] # "null" => 0 \in Tried(d, p, full)
<1> DEFINE b     == d.bstart
           tried == Tried(d, p, full)
           left  == IF how = "copyup" THEN tried \ full ELSE tried
           kept  == {c \in Branches : c =< d.bend /\ d.hid[c] # "null"}
           h     == [c \in Branches |->
                         IF c \notin tried THEN d.hid[c]
                         ELSE IF c \notin full THEN "live"
                         ELSE IF how = "copyup" THEN "null" ELSE "dead"]
           top   == Leftmost(left \cup {b})
           end   == IF left = {} THEN d.bend ELSE Rightmost(left \cup kept)
<1>1. e = [bstart |-> top, bend |-> end, bopaque |-> d.bopaque, hid |-> h]
  BY DEF CopiedUp
<1>2. b \in Branches /\ d.bend \in Branches /\ b =< d.bend /\ left \in SUBSET tried
  BY GoodFields DEF Bounded
<1> HIDE DEF tried, kept
<1>3. /\ \A c \in Branches \ {0} : h[c] = d.hid[c]
      /\ h[0] = "null" => 0 \notin tried \/ 0 \in full
      /\ h[0] # "null" => 0 \in left
      /\ left \in SUBSET {0}
  BY ZeroBranch DEF tried
<1>4. /\ left = {} => top = b /\ end = d.bend
      /\ left = {0} => top = 0 /\ 0 =< end
  <2>1. /\ top \in left \cup {b} /\ \A c \in left \cup {b} : top =< c
    <3>1. left \cup {b} \in SUBSET Branches
      BY <1>2, <1>3, ZeroBranch
    <3> HIDE DEF left, b
    <3> QED BY <3>1, LeftmostIsLeast
  <2>2. ASSUME left = {0} PROVE 0 =< end
    <3>1. left \cup kept \in SUBSET Branches /\ 0 \in left \cup kept
      BY <2>2, ZeroBranch DEF kept
    <3>2. 0 =< Rightmost(left \cup kept)
      <4> HIDE DEF left
      <4> QED BY <3>1, RightmostIsGreatest
    <3> HIDE DEF left
    <3> QED BY <2>2, <3>2
  <2> HIDE DEF left, top, end
  <2>3. left = {} => top = b
    BY <2>1
  <2>4. left = {} => end = d.bend
    BY DEF end
  <2>5. left = {0} => top = 0
    <3>1. left = {0} => top =< 0 /\ top \in Branches
      BY <1>2, <2>1, ZeroBranch
    <3> QED BY <3>1, ZeroBranch
  <2> QED BY <2>2, <2>3, <2>4, <2>5
<1>5. left = {} \/ left = {0}
  BY <1>3
<1> HIDE DEF h, top, end, left
<1>6. e.bstart = top /\ e.bend = end /\ e.hid = h
  BY <1>1
<1>7. Bounded(e)
  <2>1. CASE left = {0}
    <3>1. \A m \in Branches : ~ (m < 0)
      BY ZeroBranch
    <3> QED BY <1>4, <1>6, <2>1, <3>1 DEF Bounded
  <2>2. CASE left = {}
    <3>1. \A m \in Branches : m < b => h[m] = "null"
      BY <1>3, <2>2 DEF Bounded
    <3> QED BY <1>2, <1>4, <1>6, <2>2, <3>1 DEF Bounded
  <2> QED BY <1>5, <2>1, <2>2
<1>8. h[0] # "null" => 0 \in tried
  BY <1>2, <1>3
<1> QED BY <1>3, <1>6, <1>7, <1>8 DEF Keeps, tried

LEMMA CopyupSound ==
    ASSUME SoundInv, OneWritable, Kept, NEW p \in Paths, Reached(p), Present(p),
           NEW v \in Values, NEW full, NEW how, Target(p).bstart # 0,
           Copyup(p, v, Target(p), full, how)
    PROVE  LET d == Target(p)
               B == Tried(d, p, full)
           IN  /\ SoundInv' /\ Moves(p, B)
               /\ dcache'[p] = CopiedUp(d, p, d.bstart, full, how)
               /\ 0 \in B \ full =>
                      fs'[0].node[p] = Attributed(fs[d.bstart].node[p], v)
               /\ 0 \notin B \ full => fs'[0].node[p] = None
               /\ fs[0].node[p] = None /\ p \notin fs[0].wh /\ Marks({})
<1> DEFINE d == Target(p)
           B == Tried(d, p, full)
           g == ParentsMade(fs, dcache, p, B)
           pds == ParentDentries(dcache, p, B)
           e == CopiedUp(d, p, d.bstart, full, how)
           n == Attributed(fs[d.bstart].node[p], v)
           dc1 == With(dcache, p, d)
<1>1. /\ d \in GoodDentries /\ Fits(d, DentryOf(Parent[p]), p, fs)
      /\ dcache[p] # NoDentry => d = dcache[p]
  BY TargetFits
<1>2. /\ dcache' = [pds EXCEPT ![p] = e]
      /\ fs' = [c \in Branches |-> IF c \in B \ full THEN [g[c] EXCEPT !.node[p] = n] ELSE g[c]]
  BY DEF Copyup
<1> HIDE DEF d
<1>3. d.hid[0] = "null" /\ fs[0].node[p] = None /\ p \notin fs[0].wh
  <2>1. d.bstart \in Branches /\ d.bstart # 0
    BY <1>1, GoodFields DEF d
  <2>2. d.hid[0] = "null"
    BY <1>1, <2>1, ZeroBranch DEF Fits, Bounded
  <2> QED BY <1>1, <2>2 DEF Fits, KnownTop
<1>4. B \in SUBSET {0} /\ (0 \in B => ~NoParent(fs, dcache, p, 0))
  BY <1>3, TriedFirst
<1>5. /\ Bounded(e) /\ Keeps(d, e)
      /\ e.hid[0] = "null" => 0 \notin B \/ 0 \in full
      /\ e.hid[0] # "null" => 0 \in B
  <2>1. /\ d \in GoodDentries /\ Bounded(d) /\ d.hid[0] = "null" /\ p \in Paths
        /\ Tried(d, p, full) \in SUBSET {0} /\ e = CopiedUp(d, p, d.bstart, full, how)
    BY <1>1, <1>3, <1>4 DEF Fits
  <2> HIDE DEF e
  <2> QED BY ONLY <2>1, CopiedUpIs
<1> HIDE DEF B, e
<1>6. /\ g \in Unions /\ g[0].wh = fs[0].wh /\ g[0].opq = fs[0].opq
      /\ \A q \in Paths : g[0].node[q] = IF 0 \in B /\ q \in Missing(dcache, p, 0)
                                         THEN Dir ELSE fs[0].node[q]
  <2>1. /\ g = ParentsMade(fs, dcache, p, B) /\ fs \in Unions /\ B \in SUBSET {0}
        /\ p \in Paths
    BY <1>4 DEF SoundInv, Inv
  <2> HIDE DEF g
  <2> QED BY ONLY <2>1, MadeIs
<1> HIDE DEF g, n
<1>7. p \notin Missing(dcache, p, 0)
  BY PathsAssumption DEF Missing
<1>8. /\ fs'[0].wh = fs[0].wh /\ fs'[0].opq = fs[0].opq
      /\ \A q \in Paths \ {p} : fs'[0].node[q] = g[0].node[q]
      /\ 0 \notin B \/ 0 \in full => fs'[0].node[p] = None
      /\ 0 \in B \ full => fs'[0].node[p] = n
  <2>1. g[0] = [node |-> g[0].node, wh |-> g[0].wh, opq |-> g[0].opq]
        /\ g[0].node \in [Paths -> Nodes]
    BY <1>6, ZeroBranch DEF Unions, BranchStates
  <2>2. CASE 0 \in B \ full
    <3>1. fs'[0] = [g[0] EXCEPT !.node = [g[0].node EXCEPT ![p] = n]]
      BY <1>2, <2>2, ZeroBranch
    <3> DEFINE m == [g[0].node EXCEPT ![p] = n]
    <3>2. m[p] = n /\ \A q \in Paths \ {p} : m[q] = g[0].node[q]
      BY <2>1
    <3> HIDE DEF m
    <3>3. [g[0] EXCEPT !.node = m] = [node |-> m, wh |-> g[0].wh, opq |-> g[0].opq]
      BY <2>1
    <3>4. fs'[0] = [node |-> m, wh |-> g[0].wh, opq |-> g[0].opq]
      BY <3>1, <3>3 DEF m
    <3>5. fs'[0].node = m /\ fs'[0].wh = g[0].wh /\ fs'[0].opq = g[0].opq
      BY <3>4
    <3> QED BY <1>6, <2>2, <3>2, <3>5
  <2>3. CASE 0 \notin B \ full
    <3>1. fs'[0] = g[0]
      BY <1>2, <2>3, ZeroBranch
    <3> QED BY <1>3, <1>6, <1>7, <2>3, <3>1
  <2> QED BY <2>2, <2>3
<1>9. /\ dc1 \in Caches /\ Closed(dc1) /\ Known(dc1, fs)
      /\ dc1[p] = d /\ d # NoDentry /\ \A q \in Paths \ {p} : dc1[q] = dcache[q]
  <2>1. dcache[p] # NoDentry => Extends(dcache[p], d)
    BY <1>1 DEF Extends
  <2>2. dc1 = With(dcache, p, d)
    OBVIOUS
  <2> HIDE DEF dc1
  <2> QED BY <1>1, <2>1, <2>2, KnownWith
<1> HIDE DEF dc1
<1>10. dcache'[p] = e /\ \A q \in Paths \ {p} : dcache'[q] = pds[q]
  <2>1. DOMAIN pds = Paths
    BY DEF ParentDentries
  <2> HIDE DEF pds
  <2> QED BY <1>2, <2>1
<1>11. KnownTop(e, Of(dcache', Parent[p]), p, fs')
  <2>1. ASSUME e.hid[0] # "null" PROVE Of(dcache', Parent[p]).hid[0] # "null"
    <3>1. 0 \in B
      BY <1>5, <2>1
    <3>2. Parent[p] # Root => dcache'[Parent[p]] = ParentDentries(dcache, p, B)[Parent[p]]
      <4>1. Parent[p] # Root => Parent[p] \in Paths \ {p}
        BY PathsAssumption
      <4>2. \A q \in Paths \ {p} : dcache'[q] = ParentDentries(dcache, p, B)[q]
        BY <1>10
      <4> QED BY <4>1, <4>2
    <3> QED BY <1>4, <3>1, <3>2, ParentPointed
  <2> QED BY <1>3, <1>5, <1>8, <2>1 DEF KnownTop
<1>12. Rewrites(p, B, dc1, dcache', fs')
  <2>1. \A q \in Paths \ {p} : dcache'[q] = ParentDentries(dcache, p, B)[q]
    BY <1>10
  <2>2. fs'[0].wh \subseteq fs[0].wh \cup {p}
    BY <1>8
  <2>3. \A q \in Paths \ {p} : fs'[0].node[q] = IF 0 \in B /\ q \in Missing(dcache, p, 0)
                                                THEN Dir ELSE fs[0].node[q]
    BY <1>6, <1>8
  <2> HIDE DEF pds
  <2> QED BY <1>5, <1>9, <1>10, <1>11, <2>1, <2>2, <2>3 DEF Rewrites
<1>13. Places(p, B, fs'[0])
  <2>1. \A c \in Children(p) : fs[0].node[c] = None /\ c \notin fs'[0].wh
    BY <1>3, <1>8, NoChildren, ValuesAssumption
  <2>2. p \notin fs[0].opq
    <3>1. fs[0] \in SoundBranches
      BY ZeroBranch DEF SoundInv, BranchesSound
    <3> QED BY <1>3, <3>1, SoundType, ValuesAssumption DEF LowerTree
  <2> QED BY <1>3, <1>4, <1>8, <2>1, <2>2 DEF Places
<1>14. Moves(p, B)
  BY <1>4, <1>12 DEF Rewrites, Moves
<1>15. SoundInv'
  BY <1>4, <1>9, <1>12, <1>13, SoundBy
<1>16. Marks({})
  BY <1>8 DEF Marks
<1> QED BY <1>3, <1>8, <1>10, <1>14, <1>15, <1>16 DEF B, d, e, n

\* The object of the first branch is changed where it is.
LEMMA InPlaceSound ==
    ASSUME SoundInv, OneWritable, Kept, NEW p \in Paths, Reached(p), Present(p),
           NEW v \in Values, Object(fs, Target(p), p) \in Values \cup {Dir},
           Target(p).bstart = 0,
           fs' = SetNode(fs, 0, p, Attributed(fs[0].node[p], v)),
           dcache' = [dcache EXCEPT ![p] = Target(p)]
    PROVE  /\ SoundInv' /\ Moves(p, {}) /\ dcache'[p] = Target(p)
           /\ fs'[0].node[p] = Attributed(fs[0].node[p], v) /\ Marks({})
<1> DEFINE d == Target(p)
           n == Attributed(fs[0].node[p], v)
<1>1. /\ d \in GoodDentries /\ Fits(d, DentryOf(Parent[p]), p, fs)
      /\ dcache[p] # NoDentry => d = dcache[p]
  BY TargetFits
<1>2. d.hid[0] # "null" /\ fs[0].node[p] # None /\ fs[0].node[p] \in Values \cup {Dir}
  <2>1. d.hid[0] = "live" /\ fs[0].node[p] = Object(fs, d, p)
    <3>1. Object(fs, d, p) # Lost
      BY LostAssumption DEF Nodes
    <3> HIDE DEF d
    <3> QED BY <1>1, <3>1, GoodFields DEF Object, Pointers, d
  <2> QED BY <2>1, ValuesAssumption
<1>3. fs \in Unions /\ fs[0].node \in [Paths -> Nodes] /\ fs[0] \in SoundBranches
  BY ZeroBranch DEF SoundInv, Inv, BranchesSound, Unions, BranchStates
<1>4. (n = Dir <=> fs[0].node[p] = Dir) /\ n # None
  BY <1>2, ValuesAssumption DEF Attributed
<1> HIDE DEF d, n
<1>5. /\ fs'[0].node = [fs[0].node EXCEPT ![p] = n]
      /\ fs'[0].wh = fs[0].wh /\ fs'[0].opq = fs[0].opq
  <2>1. fs' = SetNode(fs, 0, p, n)
    BY DEF n
  <2> QED BY <1>3, <2>1, WriteIs
<1>6. fs'[0].node[p] = n /\ \A q \in Paths \ {p} : fs'[0].node[q] = fs[0].node[q]
  BY <1>3, <1>5
<1>7. /\ dcache' \in Caches /\ Closed(dcache') /\ Known(dcache', fs)
      /\ dcache'[p] = d /\ d # NoDentry /\ \A q \in Paths \ {p} : dcache'[q] = dcache[q]
  <2>1. dcache[p] # NoDentry => Extends(dcache[p], d)
    BY <1>1 DEF Extends
  <2>2. dcache' = With(dcache, p, d)
    BY DEF d, With
  <2>3. /\ SoundInv /\ p \in Paths /\ Reached(p) /\ d \in GoodDentries
        /\ Fits(d, DentryOf(Parent[p]), p, fs)
    BY <1>1
  <2> QED BY ONLY <2>1, <2>2, <2>3, KnownWith
<1>8. Of(dcache', Parent[p]) = DentryOf(Parent[p])
  <2>1. Parent[p] # Root => Parent[p] \in Paths \ {p}
    BY PathsAssumption
  <2> QED BY <1>7, <2>1 DEF Of, DentryOf
<1>9. Rewrites(p, {}, dcache', dcache', fs')
  <2>1. \A q \in Paths : ParentDentries(dcache, p, {})[q] = dcache[q]
    BY DEF ParentDentries
  <2>2. KnownTop(d, Of(dcache', Parent[p]), p, fs')
    BY <1>1, <1>2, <1>5, <1>8 DEF Fits, KnownTop
  <2>3. Bounded(d) /\ Keeps(d, d)
    BY <1>1 DEF Fits, Keeps
  <2> QED BY <1>5, <1>6, <1>7, <2>1, <2>2, <2>3 DEF Rewrites
<1>10. Places(p, {}, fs'[0])
  <2>1. Places(p, {}, fs[0])
    BY StillPlaced
  <2> QED BY <1>2, <1>4, <1>5, <1>6, <2>1 DEF Places
<1>11. Moves(p, {})
  BY <1>9 DEF Rewrites, Moves
<1>12. SoundInv' /\ Marks({})
  BY <1>5, <1>7, <1>9, <1>10, SoundBy DEF Marks
<1> QED BY <1>6, <1>7, <1>11, <1>12 DEF d, n

LEMMA SetattrSound ==
    ASSUME SoundInv, OneWritable, Kept, NEW p \in Paths, NEW v \in Values, unionfs_setattr(p, v)
    PROVE  SoundInv'
<1> DEFINE d == Target(p)
           b == d.bstart
<1>1. Reached(p) /\ Present(p) /\ Object(fs, Target(p), p) \in Values \cup {Dir}
  BY DEF unionfs_setattr
<1>2. b \in Branches
  BY <1>1, TargetFits, GoodFields
<1>3. IsRobranch(b) <=> b # 0
  BY <1>2, ZeroBranch
<1>4. \/ /\ b = 0 /\ fs' = SetNode(fs, 0, p, Attributed(fs[0].node[p], v))
         /\ dcache' = [dcache EXCEPT ![p] = d]
      \/ Crashes(fs)
      \/ b # 0 /\ \E full, how : Copyup(p, v, d, full, how)
  BY <1>3 DEF unionfs_setattr
<1>5. CASE /\ b = 0 /\ fs' = SetNode(fs, 0, p, Attributed(fs[0].node[p], v))
           /\ dcache' = [dcache EXCEPT ![p] = d]
  BY <1>1, <1>5, InPlaceSound
<1>6. CASE Crashes(fs)
  BY <1>1, <1>6, CrashesSound DEF Crashes
<1>7. CASE b # 0 /\ \E full, how : Copyup(p, v, d, full, how)
  BY <1>1, <1>7, CopyupSound
<1> QED BY <1>4, <1>5, <1>6, <1>7

LEMMA InitSound == Init => SoundInv
BY InitInv DEF Init, SoundInv, BranchesSound, Known

LEMMA NextSound == ASSUME SoundInv, OneWritable, [Next]_vars PROVE SoundInv'
<1>1. CASE Next
  <2>1. Kept
    BY <1>1, NextKept DEF SoundInv
  <2>2. ASSUME NEW p \in Paths, unionfs_lookup(p) \/ Prune(p) \/ Pin(p) \/ Unpin(p)
        PROVE  SoundInv'
    BY <2>1, <2>2, LookupSound, PruneSound, PinSound
  <2>3. ASSUME NEW p \in Paths, unionfs_create(p) \/ unionfs_mkdir(p)
        PROVE  SoundInv'
    BY <2>1, <2>3, CreateSound, MkdirSound
  <2>4. ASSUME NEW p \in Paths, NEW v \in Values, unionfs_mknod(p, v) \/ unionfs_symlink(p, v)
        PROVE  SoundInv'
    BY <2>1, <2>4, NewNodeSound DEF unionfs_mknod, unionfs_symlink
  <2>5. ASSUME NEW p \in Paths, unionfs_unlink(p) \/ unionfs_rmdir(p)
        PROVE  SoundInv'
    BY <2>1, <2>5, UnlinkSound, RmdirSound
  <2>6. ASSUME NEW p \in Paths, NEW v \in Values, unionfs_setattr(p, v)
        PROVE  SoundInv'
    BY <2>1, <2>6, SetattrSound
  <2> QED BY <1>1, <2>2, <2>3, <2>4, <2>5, <2>6 DEF Next
<1>2. CASE UNCHANGED vars
  BY <1>2 DEF vars, SoundInv, Inv, BranchesSound, Known
<1> QED BY <1>1, <1>2

\* With one writable branch, whatever trees are mounted, whatever is cached and
\* held and whichever calls run out of space, Unionfs leaves no name both
\* present and whited out in a branch, and no entry outside its directory.
THEOREM UnionSound == ASSUME Writable = {0} PROVE Spec => []BranchesSound
<1>1. OneWritable
  BY DEF OneWritable
<1>2. SoundInv /\ [Next]_vars => SoundInv'
  BY <1>1, NextSound
<1>3. SoundInv => BranchesSound
  BY DEF SoundInv
<1> QED BY InitSound, <1>2, <1>3, PTL DEF Spec
=============================================================================
