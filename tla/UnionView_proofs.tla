-------------------------- MODULE UnionView_proofs --------------------------
(***************************************************************************)
(* What the operations on names do for their users, if the first branch    *)
(* alone is writable: the kernel follows no wrong pointer, a walk finds    *)
(* the view of the branches, and the union is one Unix name space.         *)
(*                                                                         *)
(* The first part is about create_parents, which shall never follow a      *)
(* pointer that is not a directory's: not the NULL pointer of an ancestor  *)
(* that is there after all, and not a file's.                              *)
(*                                                                         *)
(* The first is what SoundInv says of the dentries without a pointer in    *)
(* the first branch.  For the second, an ancestor of a name whose pointer  *)
(* in the first branch is live must have a directory there.  An ancestor   *)
(* without a pointer gets one from an operation on itself: copyup, which   *)
(* copies a directory, or an rmdir whose whiteout fails after              *)
(* create_parents has pointed the dentry of the directory at the name it   *)
(* does not have there.  So nothing that a walk can still pass through may *)
(* be found empty by check_empty, and Family says why it is not: the       *)
(* directory keeps an entry in the branches that check_empty reads, or     *)
(* create_parents is stopped by a removed directory further up.            *)
(*                                                                         *)
(* The second part compares the dentries with the view.  Sees says of each *)
(* one that it leads to the object that the view has for its name, and to  *)
(* every layer of it, and, where nothing is held, to nothing else.  A step *)
(* changes the first branch only; Opens and its lemmas say what that does  *)
(* to the layers and the view of all names.                                *)
(***************************************************************************)
EXTENDS UnionFS_proofs

\* check_empty, reading the directory p through its dentry d, finds an entry.
HoldsSome(d, p, f) ==
    \E c \in Children(p), b \in Branches :
        /\ b =< d.bend /\ (d.bopaque = -1 \/ b =< d.bopaque)
        /\ d.hid[b] = "live" /\ f[b].node[p] = Dir /\ f[b].node[c] # None
        /\ \A a \in Branches :
              a < b /\ d.hid[a] = "live" /\ f[a].node[p] = Dir => c \notin f[a].wh

\* The first directory above p that has a pointer in the first branch has been
\* removed there.
Blocked(dc, p) ==
    \E a \in Above[p] :
        /\ dc[a].hid[0] = "dead"
        /\ \A c \in Above[p] : a \in Above[c] => dc[c].hid[0] = "null"

\* Every pointer is to a branch that check_empty reads.
ReadsAll(d) ==
    d.bopaque = -1 \/ \A c \in Branches : d.hid[c] # "null" => c =< d.bopaque

\* The dentry of a directory that a walk has passed through.
Passed(dc, f, p) ==
    /\ dc[p].hid[0] = "live" => f[0].node[p] = Dir
    /\ dc[p].hid[0] = "null" => /\ Object(f, dc[p], p) = Dir
                                /\ HoldsSome(dc[p], p, f) \/ Blocked(dc, p)

Parents(dc, f) ==
    \A p \in Paths : (\E c \in Children(p) : dc[c] # NoDentry) => Passed(dc, f, p)

\* The dentry of a directory that a walk may yet pass through.
Ends(dc, f) ==
    \A p \in Paths :
        dc[p] # NoDentry /\ dc[p].hid[0] = "null" /\ Object(f, dc[p], p) = Dir
            => ReadsAll(dc[p]) \/ HoldsSome(dc[p], p, f) \/ Blocked(dc, p)

Family == Parents(dcache, fs) /\ Ends(dcache, fs)

-----------------------------------------------------------------------------
(* Dentries and ancestors.                                                 *)

\* Between a name and an ancestor of it there is a child of the ancestor.
LEMMA ChildOnTheWay ==
    ASSUME NEW p \in Paths, NEW c \in Paths, p \in Above[c]
    PROVE  \E x \in Children(p) : x = c \/ x \in Above[c]
<1> DEFINE Q == {q \in Paths : p \in Above[q] /\ ~ \E x \in Children(p) : x = q \/ x \in Above[q]}
<1>1. ASSUME NEW q \in Q PROVE Parent[q] \in Q
  <2> DEFINE t == Parent[q]
  <2>1. q \in Paths /\ p \in Above[q] /\ \A x \in Children(p) : x # q /\ x \notin Above[q]
    OBVIOUS
  <2>2. t \in Paths /\ Above[q] = {t} \cup Above[t]
    BY <2>1, PathsAssumption
  <2>3. t # p
    BY <2>1 DEF Children
  <2>4. p \in Above[t] /\ \A x \in Children(p) : x # t /\ x \notin Above[t]
    BY <2>1, <2>2, <2>3
  <2> QED BY <2>2, <2>4
<1>2. Q = {}
  <2>1. Q \in SUBSET Paths
    OBVIOUS
  <2> HIDE DEF Q
  <2> QED BY <1>1, <2>1, NoEndlessClimb
<1> QED BY <1>2

\* A dentry with a pointer in the first branch starts there.
LEMMA StartsAt ==
    ASSUME NEW d \in GoodDentries, Bounded(d)
    PROVE  d.hid[0] # "null" <=> d.bstart = 0
<1>1. d.bstart \in Branches /\ d.hid[d.bstart] # "null"
  BY GoodFields
<1>2. d.bstart # 0 => 0 < d.bstart
  BY <1>1, ZeroBranch
<1> QED BY <1>1, <1>2, ZeroBranch DEF Bounded

\* The cached dentries.
LEMMA CachedIs ==
    ASSUME SoundInv, NEW p \in Paths, dcache[p] # NoDentry
    PROVE  /\ dcache[p] \in GoodDentries /\ Bounded(dcache[p])
           /\ Fits(dcache[p], Of(dcache, Parent[p]), p, fs)
           /\ \A a \in Above[p] : dcache[a] # NoDentry
BY DEF SoundInv, Inv, Caches, Closed, Known, Fits

\* check_empty finds nothing exactly if there is nothing to be found.
LEMMA CheckEmptyIs ==
    ASSUME NEW d \in GoodDentries, Bounded(d), NEW p \in Paths
    PROVE  CheckEmpty(d, p) <=> ~HoldsSome(d, p, fs)
<1>1. \A b \in Branches : d.hid[b] = "live" => d.bstart =< b
  BY GoodFields, ZeroBranch DEF Bounded
<1>2. \A b \in Branches : b \in ReadForEmpty(d, p) <=>
        /\ b =< d.bend /\ (d.bopaque = -1 \/ b =< d.bopaque)
        /\ d.hid[b] = "live" /\ fs[b].node[p] = Dir
  BY <1>1 DEF ReadForEmpty
<1>3. ReadForEmpty(d, p) \subseteq Branches
  BY DEF ReadForEmpty
<1>4. ASSUME NEW a \in Branches, NEW b \in Branches, a < b, b \in ReadForEmpty(d, p),
             d.hid[a] = "live", fs[a].node[p] = Dir
      PROVE  a \in ReadForEmpty(d, p)
  <2>1. b =< d.bend /\ (d.bopaque = -1 \/ b =< d.bopaque)
    BY <1>2, <1>4
  <2>2. a =< d.bend /\ (d.bopaque = -1 \/ a =< d.bopaque)
    <3>1. d.bend \in Int /\ d.bopaque \in Int /\ a \in Int /\ b \in Int
      BY GoodFields, ZeroBranch, BranchAssumption
    <3> QED BY <1>4, <2>1, <3>1
  <2> QED BY <1>2, <1>4, <2>2
<1>5. ASSUME HoldsSome(d, p, fs) PROVE ~CheckEmpty(d, p)
  <2>1. PICK c \in Children(p), b \in Branches :
          /\ b =< d.bend /\ (d.bopaque = -1 \/ b =< d.bopaque)
          /\ d.hid[b] = "live" /\ fs[b].node[p] = Dir /\ fs[b].node[c] # None
          /\ \A a \in Branches :
                a < b /\ d.hid[a] = "live" /\ fs[a].node[p] = Dir => c \notin fs[a].wh
    BY <1>5 DEF HoldsSome
  <2>2. b \in ReadForEmpty(d, p)
    BY <1>2, <2>1
  <2>3. \A a \in ReadForEmpty(d, p) : a < b => c \notin fs[a].wh
    BY <1>2, <1>3, <2>1
  <2> QED BY <2>1, <2>2, <2>3 DEF CheckEmpty
<1>6. ASSUME ~CheckEmpty(d, p) PROVE HoldsSome(d, p, fs)
  <2>1. PICK c \in Children(p), b \in ReadForEmpty(d, p) :
          /\ fs[b].node[c] # None
          /\ \A a \in ReadForEmpty(d, p) : a < b => c \notin fs[a].wh
    BY <1>6 DEF CheckEmpty
  <2>2. b \in Branches
    BY <1>3, <2>1
  <2>3. \A a \in Branches :
          a < b /\ d.hid[a] = "live" /\ fs[a].node[p] = Dir => c \notin fs[a].wh
    BY <1>4, <2>1, <2>2
  <2> QED BY <1>2, <2>1, <2>2, <2>3 DEF HoldsSome
<1> QED BY <1>5, <1>6

\* A partial lookup hides nothing that could be read before.
LEMMA PartialHolds ==
    ASSUME NEW f \in [Branches -> SoundBranches], NEW p \in Paths,
           NEW pd \in GoodDentries, Bounded(pd), NEW d \in GoodDentries, Fits(d, pd, p, f),
           d.hid[0] = "null", HoldsSome(d, p, f)
    PROVE  HoldsSome(PartialLookup(f, pd, d, p), p, f)
<1> DEFINE e == PartialLookup(f, pd, d, p)
<1>1. /\ e.hid[0] = d.hid[0]
      /\ \A c \in Branches \ {0} :
           /\ d.hid[c] # "null" => e.hid[c] = d.hid[c]
           /\ e.hid[c] # "null" /\ d.hid[c] = "null" =>
                \A x \in Branches : d.hid[x] # "null" => x < c
      /\ \A c \in Branches : d.hid[c] # "null" =>
           /\ c =< d.bend => c =< e.bend
           /\ d.bopaque = -1 \/ c =< d.bopaque => e.bopaque = -1 \/ c =< e.bopaque
  BY PartialFits
<1> HIDE DEF e
<1>2. PICK c \in Children(p), b \in Branches :
        /\ b =< d.bend /\ (d.bopaque = -1 \/ b =< d.bopaque)
        /\ d.hid[b] = "live" /\ f[b].node[p] = Dir /\ f[b].node[c] # None
        /\ \A a \in Branches :
              a < b /\ d.hid[a] = "live" /\ f[a].node[p] = Dir => c \notin f[a].wh
  BY DEF HoldsSome
<1>3. /\ b =< e.bend /\ (e.bopaque = -1 \/ b =< e.bopaque) /\ e.hid[b] = "live"
  BY <1>1, <1>2
<1>4. ASSUME NEW a \in Branches, a < b, e.hid[a] = "live", f[a].node[p] = Dir
      PROVE  c \notin f[a].wh
  <2>1. d.hid[a] # "null"
    <3> SUFFICES ASSUME d.hid[a] = "null" PROVE FALSE
      OBVIOUS
    <3>1. a # 0
      BY <1>1, <1>4
    <3>2. b < a
      BY <1>1, <1>2, <1>4, <3>1
    <3> QED BY <1>4, <3>2, ZeroBranch
  <2>2. d.hid[a] = "live"
    BY <1>1, <1>4, <2>1
  <2> QED BY <1>2, <1>4, <2>2
<1> QED BY <1>2, <1>3, <1>4 DEF HoldsSome, e

\* A lookup points to nothing that check_empty would not read.
LEMMA LookupReadsAll ==
    ASSUME NEW f, NEW pd, NEW p \in Paths
    PROVE  ReadsAll(Lookup(f, pd, p))
<1> DEFINE S     == Searched(f, pd, p, pd.bstart, pd.bend)
           marks == WhiteoutIn(f, p, S) \cup OpaqueIn(f, p, S)
           ends  == marks \cup FirstFileIn(f, p, S)
           seen  == UpTo(S, ends)
           found == FoundIn(f, p, seen)
           hit   == marks \cap seen
           plain == {b \in seen : p \notin f[b].wh}
           first == IF plain = {} THEN Leftmost(hit) ELSE Leftmost(plain)
           o     == IF hit = {} THEN -1 ELSE Leftmost(hit)
           d     == Lookup(f, pd, p)
<1>1. seen \subseteq Branches /\ hit \subseteq seen /\ plain \subseteq seen
  BY DEF UpTo, Searched
<1>2. \A b \in seen, m \in hit : b =< m
  BY DEF UpTo
<1>3. found \subseteq seen
  BY DEF FoundIn
<1>4. CASE found # {}
  <2>1. d.bopaque = o /\ d.hid = LiveIn(found)
    BY <1>4 DEF Lookup
  <2> HIDE DEF seen, found, hit, d
  <2>2. hit # {} => Leftmost(hit) \in hit
    BY <1>1, LeftmostIsLeast
  <2>3. \A c \in Branches : d.hid[c] # "null" => c \in found
    BY <2>1, LiveInType
  <2> QED BY <1>2, <1>3, <2>1, <2>2, <2>3 DEF ReadsAll, d
<1>5. CASE found = {}
  <2>1. d.bopaque = o /\ d.hid = LiveIn({first})
    BY <1>5 DEF Lookup
  <2> HIDE DEF seen, found, hit, d, plain
  <2>2. hit # {} => Leftmost(hit) \in hit
    BY <1>1, LeftmostIsLeast
  <2>3. plain # {} => Leftmost(plain) \in plain
    BY <1>1, LeftmostIsLeast
  <2>4. hit # {} => first \in seen
    BY <1>1, <2>2, <2>3
  <2> HIDE DEF first
  <2>5. \A c \in Branches : d.hid[c] # "null" => c = first
    BY <2>1, LiveInType
  <2> QED BY <1>2, <2>1, <2>2, <2>4, <2>5 DEF ReadsAll, d
<1> QED BY <1>4, <1>5

\* So a name found in a directory without a pointer in the first branch is an
\* entry that check_empty would find.
LEMMA ChildHeld ==
    ASSUME SoundInv, Family, NEW p \in Paths, Reached(p), Present(p), dcache[p] = NoDentry,
           Parent[p] # Root, dcache[Parent[p]].hid[0] = "null"
    PROVE  LET r == Parent[p]
           IN  HoldsSome(dcache[r], r, fs) \/ Blocked(dcache, r)
<1> DEFINE r  == Parent[p]
           pd == dcache[r]
           S  == Searched(fs, pd, p, pd.bstart, pd.bend)
           d  == Lookup(fs, pd, p)
<1>1. r \in Paths /\ pd # NoDentry /\ Object(fs, pd, r) = Dir /\ DentryOf(Parent[p]) = pd
  BY PathsAssumption DEF Reached, Cached, DentryOf
<1>2. ReadsAll(pd) \/ HoldsSome(pd, r, fs) \/ Blocked(dcache, r)
  BY <1>1 DEF Family, Ends
<1>3. CASE ReadsAll(pd)
  <2>1. pd \in GoodDentries /\ Bounded(pd) /\ pd.bstart \in S
    BY <1>1, ReachedParent
  <2>2. ~IsNegative(fs, d, p)
    BY <1>1 DEF Present, Absent, Cached, Target
  <2>3. fs \in [Branches -> SoundBranches]
    BY DEF SoundInv, BranchesSound
  <2> HIDE DEF pd, d, r
  <2>4. d \in GoodDentries /\ Complete(d, p, fs, S)
    BY <2>1, <2>2, <2>3, LookupIs DEF d
  <2> DEFINE b == d.bstart
  <2>5. b \in Branches /\ d.hid[b] # "null"
    BY <2>4, GoodFields
  <2>6. /\ b \in S /\ fs[b].node[p] # None
        /\ \A m \in S : m =< b => p \notin fs[m].wh
    BY <2>4, <2>5 DEF Complete
  <2> HIDE DEF b
  <2>7. b =< pd.bend /\ pd.hid[b] = "live" /\ fs[b].node[r] = Dir
    BY <1>1, <2>6, PathsAssumption DEF Searched, IsDir, r
  <2>8. pd.bopaque = -1 \/ b =< pd.bopaque
    BY <1>3, <2>5, <2>7 DEF ReadsAll
  <2>9. ASSUME NEW a \in Branches, a < b, pd.hid[a] = "live", fs[a].node[r] = Dir
        PROVE  p \notin fs[a].wh
    <3>1. pd.bstart =< a /\ a =< pd.bend /\ a =< b
      <4>1. pd.bend \in Branches /\ pd.bstart \in Branches /\ ~ (a < pd.bstart)
        BY <2>1, <2>9, GoodFields DEF Bounded
      <4> QED BY <2>5, <2>7, <2>9, <4>1, ZeroBranch
    <3>2. a \in S
      BY <2>9, <3>1 DEF Searched, IsDir, r
    <3> QED BY <2>6, <3>1, <3>2
  <2>10. p \in Children(r)
    BY DEF Children, r
  <2> QED BY <2>5, <2>6, <2>7, <2>8, <2>9, <2>10 DEF HoldsSome, pd, r
<1> QED BY <1>2, <1>3

-----------------------------------------------------------------------------
(* No oops.                                                                *)

\* What a walk has passed through, on its way to p.
LEMMA PassedAbove ==
    ASSUME SoundInv, Family, NEW p \in Paths, Reached(p), NEW a \in Above[p]
    PROVE  /\ dcache[a].hid[0] = "live" => fs[0].node[a] = Dir
           /\ dcache[a].hid[0] = "null" => fs[0].node[a] = None
<1>1. a \in Paths /\ dcache[a] # NoDentry
  BY PathsAssumption, ReachedAncestors DEF SoundInv
<1>2. /\ dcache[a] \in GoodDentries /\ Bounded(dcache[a])
      /\ dcache[a].hid[0] = "null" => fs[0].node[a] = None
  BY <1>1, CachedIs DEF Fits, KnownTop
<1>3. ASSUME dcache[a].hid[0] = "live" PROVE fs[0].node[a] = Dir
  <2>1. PICK x \in Children(a) : x = p \/ x \in Above[p]
    BY <1>1, ChildOnTheWay
  <2>2. CASE x = p
    <3>1. Parent[p] = a /\ a # Root
      BY <1>1, <2>2, PathsAssumption DEF Children
    <3>2. Object(fs, dcache[a], a) = Dir
      BY <3>1 DEF Reached
    <3>3. dcache[a].bstart = 0
      BY <1>2, <1>3, StartsAt
    <3> QED BY <1>3, <3>2, <3>3 DEF Object
  <2>3. CASE x \in Above[p]
    <3>1. dcache[x] # NoDentry
      BY <2>3, ReachedAncestors DEF SoundInv
    <3> QED BY <1>1, <1>3, <3>1 DEF Family, Parents, Passed
  <2> QED BY <2>1, <2>2, <2>3
<1> QED BY <1>2, <1>3

\* No file is searched like a directory.
LEMMA NoFileParent ==
    ASSUME SoundInv, Family, NEW p \in Paths, Reached(p),
           NEW f, \A q \in Paths \ {p} : f[0].node[q] = fs[0].node[q]
    PROVE  ~FileParent(f, dcache, p, 0) /\ ~NullParent(f, dcache, p, 0)
<1>1. \A a \in Above[p] : a \in Paths \ {p}
  BY PathsAssumption
<1>2. ~FileParent(f, dcache, p, 0)
  <2> SUFFICES ASSUME NEW a \in FirstPointed(dcache, p, 0),
                      dcache[a].hid[0] = "live", f[0].node[a] # Dir
               PROVE  FALSE
    BY DEF FileParent
  <2>1. a \in Above[p]
    BY DEF FirstPointed
  <2> QED BY <1>1, <2>1, PassedAbove
<1>3. ~NullParent(f, dcache, p, 0)
  <2> SUFFICES ASSUME NEW a \in Missing(dcache, p, 0), f[0].node[a] # None PROVE FALSE
    BY DEF NullParent
  <2>1. a \in Above[p] /\ dcache[a].hid[0] = "null"
    BY DEF Missing
  <2> QED BY <1>1, <2>1, PassedAbove
<1> QED BY <1>2, <1>3

LEMMA NeverOops ==
    ASSUME SoundInv, OneWritable, Family, NEW p \in Paths, Reached(p),
           NEW f, \A q \in Paths \ {p} : f[0].node[q] = fs[0].node[q], NEW d, NEW w, NEW start
    PROVE  ~MayOops(f, d, p, w, start)
<1>1. ~FileParent(f, dcache, p, 0) /\ ~NullParent(f, dcache, p, 0)
  BY NoFileParent
<1>2. ~IsRobranch(w) => w = 0
  BY DEF IsRobranch, OneWritable
<1> QED BY <1>1, <1>2 DEF MayOops, MustOops, OneWritable

\* What stops create_parents.
LEMMA BlockedIs ==
    ASSUME SoundInv, Family, NEW p \in Paths, Reached(p)
    PROVE  Blocked(dcache, p) <=> NoParent(fs, dcache, p, 0)
<1>1. ASSUME Blocked(dcache, p) PROVE NoParent(fs, dcache, p, 0)
  <2>1. PICK a \in Above[p] : /\ dcache[a].hid[0] = "dead"
                              /\ \A c \in Above[p] : a \in Above[c] => dcache[c].hid[0] = "null"
    BY <1>1 DEF Blocked
  <2>2. a \notin Missing(dcache, p, 0)
    BY <2>1 DEF Missing
  <2>3. ASSUME NEW c \in Above[p], a \in Above[c] PROVE c \in Missing(dcache, p, 0)
    <3>1. \A x \in Above[p] : x = c \/ c \in Above[x] => a \in Above[x]
      BY <2>3, PathsAssumption
    <3> QED BY <2>1, <2>3, <3>1 DEF Missing
  <2> QED BY <2>1, <2>2, <2>3 DEF NoParent, FirstPointed
<1>2. ASSUME NoParent(fs, dcache, p, 0) PROVE Blocked(dcache, p)
  <2>1. PICK a \in FirstPointed(dcache, p, 0) : dcache[a].hid[0] = "dead" \/ fs[0].node[a] # Dir
    BY <1>2 DEF NoParent
  <2>2. a \in Above[p] /\ a \notin Missing(dcache, p, 0) /\ a \in Paths
        /\ \A c \in Above[p] : a \in Above[c] => c \in Missing(dcache, p, 0)
    BY <2>1, PathsAssumption DEF FirstPointed
  <2>3. dcache[a].hid[0] # "null"
    <3> SUFFICES ASSUME dcache[a].hid[0] = "null" PROVE FALSE
      OBVIOUS
    <3>1. \A c \in Above[p] : c = a \/ a \in Above[c] => dcache[c].hid[0] = "null"
      BY <2>2 DEF Missing
    <3> QED BY <2>2, <3>1 DEF Missing
  <2>4. dcache[a].hid[0] = "dead"
    <3>1. dcache[a] \in GoodDentries
      BY <2>2, CachedIs, ReachedAncestors DEF SoundInv
    <3>2. dcache[a].hid[0] \in Pointers
      BY <3>1, GoodFields, ZeroBranch
    <3> QED BY <2>1, <2>2, <2>3, <3>2, PassedAbove DEF Pointers
  <2> QED BY <2>2, <2>4 DEF Blocked, Missing
<1> QED BY <1>1, <1>2

-----------------------------------------------------------------------------
(* What a step must do to keep the family.                                 *)

Left(p, B) ==
    dcache'[p] # NoDentry =>
        /\ dcache[p] # NoDentry =>
             /\ dcache[p].hid[0] = "dead" => dcache'[p].hid[0] = "dead"
             /\ dcache[p].hid[0] = "null" /\ dcache'[p].hid[0] # "null" => 0 \in B
        /\ dcache[p] = NoDentry => Present(p) \/ dcache'[p].hid[0] # "null"
        /\ (\E c \in Children(p) : dcache[c] # NoDentry) => Passed(dcache', fs', p)
        /\ dcache'[p].hid[0] = "null" /\ Object(fs', dcache'[p], p) = Dir =>
             ReadsAll(dcache'[p]) \/ HoldsSome(dcache'[p], p, fs') \/ Blocked(dcache', p)

\* The dentries away from p.
LEMMA AwayIs ==
    ASSUME SoundInv, NEW p \in Paths, Reached(p), NEW B, Moves(p, B),
           NEW q \in Paths \ {p}, dcache'[q] # NoDentry
    PROVE  /\ dcache[q] # NoDentry /\ Keeps(dcache[q], dcache'[q]) /\ Bounded(dcache'[q])
           /\ dcache'[q].bend = dcache[q].bend /\ dcache'[q].bopaque = dcache[q].bopaque
           /\ dcache'[q].hid[0] = IF 0 \in B /\ q \in Missing(dcache, p, 0) THEN "live"
                                  ELSE dcache[q].hid[0]
           /\ ~ (0 \in B /\ q \in Missing(dcache, p, 0)) => dcache'[q] = dcache[q]
<1>1. dcache'[q] = ParentDentries(dcache, p, B)[q] /\ B \in SUBSET {0}
  BY DEF Moves
<1>2. dcache[q] # NoDentry
  <2> SUFFICES ASSUME dcache[q] = NoDentry PROVE FALSE
    OBVIOUS
  <2>1. \A b \in B : q \notin Missing(dcache, p, b)
    BY ReachedAncestors DEF Missing, SoundInv
  <2>2. ParentDentries(dcache, p, B)[q] = dcache[q]
    BY <2>1 DEF ParentDentries
  <2> QED BY <1>1, <2>2
<1>3. dcache \in Caches /\ Bounded(dcache[q])
  BY <1>2, CachedIs DEF SoundInv, Inv
<1> QED BY <1>1, <1>2, <1>3, TopDentries

\* A directory that stops create_parents goes on doing so.
LEMMA BlockedStays ==
    ASSUME SoundInv, Kept, NEW p \in Paths, Reached(p), NEW B, Moves(p, B), Left(p, B),
           NEW q \in Paths, dcache'[q] # NoDentry, Blocked(dcache, q)
    PROVE  Blocked(dcache', q)
<1>1. PICK a \in Above[q] : /\ dcache[a].hid[0] = "dead"
                            /\ \A c \in Above[q] : a \in Above[c] => dcache[c].hid[0] = "null"
  BY DEF Blocked
<1>2. \A x \in Above[q] : x \in Paths /\ dcache'[x] # NoDentry /\ dcache[x] # NoDentry
  <2>1. \A x \in Above[q] : x \in Paths /\ dcache'[x] # NoDentry
    BY PathsAssumption DEF Kept, Inv, Closed
  <2>2. \A x \in Above[q] : dcache[x] # NoDentry
    <3>1. CASE q = p
      BY <3>1, ReachedAncestors DEF SoundInv
    <3>2. CASE q # p
      BY <3>2, AwayIs, CachedIs
    <3> QED BY <3>1, <3>2
  <2> QED BY <2>1, <2>2
\* create_parents cannot build through a
<1>3. ASSUME NEW c \in Above[p] \cup {p}, c \in Above[q], a \in Above[c], 0 \in B,
             c \in Missing(dcache, p, 0) \/ c = p
      PROVE  FALSE
  <2>1. a \in Above[p]
    BY <1>3, PathsAssumption
  <2>2. ASSUME NEW x \in Above[p], a \in Above[x]
        PROVE  dcache[x].hid[0] = "null"
    <3>1. CASE c = p
      <4>1. x \in Above[q]
        BY <1>3, <2>2, <3>1, PathsAssumption
      <4> QED BY <1>1, <2>2, <4>1
    <3>2. CASE c # p /\ (x = c \/ c \in Above[x])
      BY <1>3, <3>2 DEF Missing
    <3>3. CASE c # p /\ x \in Above[c]
      <4>1. x \in Above[q]
        BY <1>3, <3>3, <1>2, PathsAssumption
      <4> QED BY <1>1, <2>2, <4>1
    <3>4. c # p => x = c \/ c \in Above[x] \/ x \in Above[c]
      BY <1>3, Chain
    <3> QED BY <3>1, <3>2, <3>3, <3>4
  <2>3. a \notin Missing(dcache, p, 0)
    BY <1>1 DEF Missing
  <2>4. ASSUME NEW x \in Above[p], a \in Above[x] PROVE x \in Missing(dcache, p, 0)
    <3>1. \A y \in Above[p] : y = x \/ x \in Above[y] => a \in Above[y]
      BY <2>4, PathsAssumption
    <3> QED BY <2>2, <2>4, <3>1 DEF Missing
  <2>5. NoParent(fs, dcache, p, 0)
    BY <1>1, <2>1, <2>3, <2>4 DEF NoParent, FirstPointed
  <2> QED BY <1>3, <2>5 DEF Moves
<1>4. dcache'[a].hid[0] = "dead"
  <2>1. CASE a = p
    BY <1>1, <1>2, <2>1 DEF Left
  <2>2. CASE a # p
    <3>1. a \notin Missing(dcache, p, 0)
      BY <1>1 DEF Missing
    <3> QED BY <1>1, <1>2, <2>2, <3>1, AwayIs
  <2> QED BY <2>1, <2>2
<1>5. ASSUME NEW c \in Above[q], a \in Above[c] PROVE dcache'[c].hid[0] = "null"
  <2>1. dcache[c].hid[0] = "null"
    BY <1>1, <1>5
  <2>2. CASE c = p
    BY <1>2, <1>3, <1>5, <2>1, <2>2 DEF Left
  <2>3. CASE c # p
    <3>1. ~ (0 \in B /\ c \in Missing(dcache, p, 0))
      <4>1. c \in Missing(dcache, p, 0) => c \in Above[p]
        BY DEF Missing
      <4> QED BY <1>3, <1>5, <4>1
    <3> QED BY <1>2, <2>1, <2>3, <3>1, AwayIs
  <2> QED BY <2>2, <2>3
<1> QED BY <1>4, <1>5 DEF Blocked

\* Nor do the branches change that a dentry without a pointer in the first one
\* has pointers to.
LEMMA SameBelow ==
    ASSUME Safe(fs, fs'), OneWritable, NEW q \in Paths, NEW d \in GoodDentries, d.hid[0] = "null"
    PROVE  /\ Object(fs', d, q) = Object(fs, d, q)
           /\ HoldsSome(d, q, fs) => HoldsSome(d, q, fs')
<1>1. \A b \in Branches : d.hid[b] # "null" => fs'[b] = fs[b]
  BY ZeroBranch DEF Safe
<1>2. Object(fs', d, q) = Object(fs, d, q)
  BY <1>1, GoodFields DEF Object
<1>3. ASSUME HoldsSome(d, q, fs) PROVE HoldsSome(d, q, fs')
  <2>1. PICK c \in Children(q), b \in Branches :
          /\ b =< d.bend /\ (d.bopaque = -1 \/ b =< d.bopaque)
          /\ d.hid[b] = "live" /\ fs[b].node[q] = Dir /\ fs[b].node[c] # None
          /\ \A a \in Branches :
                a < b /\ d.hid[a] = "live" /\ fs[a].node[q] = Dir => c \notin fs[a].wh
    BY <1>3 DEF HoldsSome
  <2>2. fs'[b].node[q] = Dir /\ fs'[b].node[c] # None
    BY <1>1, <2>1
  <2>3. \A a \in Branches :
          a < b /\ d.hid[a] = "live" /\ fs'[a].node[q] = Dir => c \notin fs'[a].wh
    BY <1>1, <2>1
  <2> QED BY <2>1, <2>2, <2>3 DEF HoldsSome
<1> QED BY <1>2, <1>3

LEMMA FamilyBy ==
    ASSUME SoundInv, OneWritable, Kept, SoundInv', Family,
           NEW p \in Paths, Reached(p), NEW B, Moves(p, B), Left(p, B)
    PROVE  Family'
\* a directory that a walk had passed through
<1>1. ASSUME NEW r \in Paths \ {p}, dcache'[r] # NoDentry, Passed(dcache, fs, r)
      PROVE  Passed(dcache', fs', r)
  <2>1. /\ dcache[r] # NoDentry /\ dcache[r] \in GoodDentries
        /\ dcache'[r].hid[0] = IF 0 \in B /\ r \in Missing(dcache, p, 0) THEN "live"
                               ELSE dcache[r].hid[0]
        /\ ~ (0 \in B /\ r \in Missing(dcache, p, 0)) => dcache'[r] = dcache[r]
    BY <1>1, AwayIs, CachedIs
  <2>2. fs'[0].node[r] = IF 0 \in B /\ r \in Missing(dcache, p, 0) THEN Dir ELSE fs[0].node[r]
    BY DEF Moves
  <2>3. ASSUME dcache'[r].hid[0] = "null"
        PROVE  /\ Object(fs', dcache'[r], r) = Dir
               /\ HoldsSome(dcache'[r], r, fs') \/ Blocked(dcache', r)
    <3>1. dcache'[r] = dcache[r] /\ dcache[r].hid[0] = "null"
      BY <2>1, <2>3
    <3>2. /\ Object(fs', dcache[r], r) = Object(fs, dcache[r], r)
          /\ HoldsSome(dcache[r], r, fs) => HoldsSome(dcache[r], r, fs')
      BY <2>1, <3>1, SameBelow DEF Kept
    <3>3. Blocked(dcache, r) => Blocked(dcache', r)
      BY <1>1, BlockedStays
    <3> QED BY <1>1, <3>1, <3>2, <3>3 DEF Passed
  <2>4. dcache'[r].hid[0] = "live" => fs'[0].node[r] = Dir
    BY <1>1, <2>1, <2>2 DEF Passed
  <2> QED BY <2>3, <2>4 DEF Passed
\* and one that the walk to p has passed through
<1>2. ASSUME Parent[p] # Root, dcache[p] = NoDentry, dcache'[p] # NoDentry
      PROVE  Passed(dcache', fs', Parent[p])
  <2> DEFINE r == Parent[p]
  <2>1. /\ r \in Paths \ {p} /\ r \in Above[p] /\ dcache[r] # NoDentry /\ dcache'[r] # NoDentry
        /\ Object(fs, dcache[r], r) = Dir
    <3>1. r \in Paths \ {p} /\ r \in Above[p]
      BY <1>2, PathsAssumption
    <3> QED BY <1>2, <3>1, ReachedAncestors DEF Reached, SoundInv, Kept, Inv, Closed
  <2>2. dcache[r].hid[0] = "live" => fs[0].node[r] = Dir
    BY <2>1, PassedAbove
  <2>3. CASE dcache'[p].hid[0] = "null"
    <3>1. dcache[r].hid[0] = "null" => HoldsSome(dcache[r], r, fs) \/ Blocked(dcache, r)
      BY <1>2, <2>3, ChildHeld DEF Left
    <3>2. Passed(dcache, fs, r)
      BY <2>1, <2>2, <3>1 DEF Passed
    <3> QED BY <1>1, <2>1, <3>2
  <2>4. CASE dcache'[p].hid[0] # "null"
    <3>1. dcache'[r].hid[0] # "null"
      BY <1>2, <2>4 DEF SoundInv, Known, Fits, KnownTop, Of
    <3>2. /\ dcache'[r].hid[0] = IF 0 \in B /\ r \in Missing(dcache, p, 0) THEN "live"
                                 ELSE dcache[r].hid[0]
      BY <2>1, AwayIs
    <3>3. fs'[0].node[r] = IF 0 \in B /\ r \in Missing(dcache, p, 0) THEN Dir ELSE fs[0].node[r]
      BY <2>1 DEF Moves
    <3> QED BY <2>2, <3>1, <3>2, <3>3 DEF Passed
  <2> QED BY <2>3, <2>4
<1>3. ASSUME NEW r \in Paths, NEW c \in Children(r), dcache'[c] # NoDentry
      PROVE  Passed(dcache', fs', r)
  <2>1. c \in Paths /\ Parent[c] = r /\ r # Root /\ r \in Above[c] /\ c # r
    BY <1>3, PathsAssumption DEF Children
  <2>2. dcache'[r] # NoDentry
    BY <1>3, <2>1 DEF Kept, Inv, Closed
  <2>3. CASE c # p
    <3>1. dcache[c] # NoDentry
      BY <1>3, <2>1, <2>3, AwayIs
    <3>2. Passed(dcache, fs, r)
      BY <1>3, <3>1 DEF Family, Parents
    <3>3. r = p => Passed(dcache', fs', r)
      BY <1>3, <2>2, <3>1 DEF Left
    <3> QED BY <1>1, <2>2, <3>2, <3>3
  <2>4. CASE c = p /\ dcache[p] # NoDentry
    <3>1. Passed(dcache, fs, r)
      BY <1>3, <2>4 DEF Family, Parents
    <3> QED BY <1>1, <2>1, <2>2, <2>4, <3>1
  <2>5. CASE c = p /\ dcache[p] = NoDentry
    BY <1>2, <1>3, <2>1, <2>5
  <2> QED BY <2>3, <2>4, <2>5
<1>4. ASSUME NEW q \in Paths, dcache'[q] # NoDentry, dcache'[q].hid[0] = "null",
             Object(fs', dcache'[q], q) = Dir
      PROVE  ReadsAll(dcache'[q]) \/ HoldsSome(dcache'[q], q, fs') \/ Blocked(dcache', q)
  <2>1. CASE q = p
    BY <1>4, <2>1 DEF Left
  <2>2. CASE q # p
    <3>1. dcache[q] # NoDentry /\ dcache[q] \in GoodDentries /\ dcache'[q] = dcache[q]
      BY <1>4, <2>2, AwayIs, CachedIs
    <3>2. /\ Object(fs', dcache[q], q) = Object(fs, dcache[q], q)
          /\ HoldsSome(dcache[q], q, fs) => HoldsSome(dcache[q], q, fs')
      BY <1>4, <3>1, SameBelow DEF Kept
    <3>3. Blocked(dcache, q) => Blocked(dcache', q)
      BY <1>4, BlockedStays
    <3> QED BY <1>4, <3>1, <3>2, <3>3 DEF Family, Ends
  <2> QED BY <2>1, <2>2
<1>5. Parents(dcache', fs')
  BY <1>3 DEF Parents
<1>6. Ends(dcache', fs')
  BY <1>4 DEF Ends
<1> QED BY <1>5, <1>6 DEF Family

-----------------------------------------------------------------------------
(* The actions.                                                            *)

LEMMA LookupFamily ==
    ASSUME SoundInv, OneWritable, Kept, SoundInv', Family, NEW p \in Paths, unionfs_lookup(p)
    PROVE  Family'
<1>1. /\ Reached(p) /\ Present(p) /\ dcache[p] = NoDentry /\ fs' = fs
      /\ dcache' = [dcache EXCEPT ![p] = Target(p)]
      /\ Target(p) = Lookup(fs, DentryOf(Parent[p]), p)
  BY DEF unionfs_lookup, Cached, Target
<1>2. dcache'[p] = Target(p) /\ \A q \in Paths \ {p} : dcache'[q] = dcache[q]
  BY <1>1 DEF SoundInv, Inv, Caches
<1>3. Moves(p, {})
  BY <1>1, <1>2 DEF Moves, ParentDentries
<1>4. ReadsAll(dcache'[p])
  BY <1>1, <1>2, LookupReadsAll
<1>5. \A c \in Children(p) : dcache[c] = NoDentry
  BY <1>1, PathsAssumption DEF SoundInv, Inv, Closed, Children
<1>6. Left(p, {})
  BY <1>1, <1>4, <1>5 DEF Left
<1> QED BY <1>1, <1>3, <1>6, FamilyBy

LEMMA PruneFamily ==
    ASSUME SoundInv, Kept, Family, NEW p \in Paths, Prune(p)
    PROVE  Family'
<1>1. /\ dcache' = [dcache EXCEPT ![p] = NoDentry] /\ fs' = fs
      /\ \A c \in Below(p) : dcache[c] = NoDentry
  BY DEF Prune, Cached
<1>2. dcache'[p] = NoDentry /\ \A q \in Paths \ {p} : dcache'[q] = dcache[q]
  BY <1>1 DEF SoundInv, Inv, Caches
<1>3. ASSUME NEW q \in Paths, dcache'[q] # NoDentry
      PROVE  /\ q # p /\ dcache'[q] = dcache[q] /\ \A a \in Above[q] : dcache'[a] = dcache[a]
  <2>1. q # p /\ dcache'[q] = dcache[q]
    BY <1>2, <1>3
  <2>2. p \notin Above[q]
    BY <1>1, <1>3, <2>1 DEF Below
  <2> QED BY <1>2, <2>1, <2>2, PathsAssumption
<1>4. ASSUME NEW q \in Paths, dcache'[q] # NoDentry, Blocked(dcache, q)
      PROVE  Blocked(dcache', q)
  BY <1>3, <1>4 DEF Blocked
<1>5. ASSUME NEW r \in Paths, NEW c \in Children(r), dcache'[c] # NoDentry
      PROVE  Passed(dcache', fs', r)
  <2>1. c \in Paths /\ r \in Above[c]
    BY PathsAssumption DEF Children
  <2>2. dcache'[r] # NoDentry /\ dcache[c] # NoDentry /\ dcache'[r] = dcache[r]
    BY <1>3, <1>5, <2>1 DEF Kept, Inv, Closed
  <2>3. Passed(dcache, fs, r)
    BY <1>5, <2>2 DEF Family, Parents
  <2> QED BY <1>1, <1>4, <2>2, <2>3 DEF Passed
<1>6. Parents(dcache', fs')
  BY <1>5 DEF Parents
<1>7. Ends(dcache', fs')
  BY <1>1, <1>3, <1>4 DEF Ends, Family
<1> QED BY <1>6, <1>7 DEF Family

\* create, mknod, symlink and mkdir: a new dentry points to the first branch.
LEMMA GrownFamily ==
    ASSUME SoundInv, OneWritable, Kept, SoundInv', Family, NEW p \in Paths, Reached(p), Grown(p)
    PROVE  Family'
<1>1. PICK B : Moves(p, B)
  BY DEF Grown
<1>2. \A c \in Children(p) : dcache[c] = NoDentry
  BY PathsAssumption DEF Grown, SoundInv, Inv, Closed, Children
<1>3. Left(p, B)
  BY <1>2 DEF Grown, Left
<1> QED BY <1>1, <1>3, FamilyBy

\* The dentry of a name that is there and whose object has not been removed.
LEMMA TargetIs ==
    ASSUME SoundInv, Family, NEW p \in Paths, Reached(p), Present(p),
           Object(fs, Target(p), p) \in Values \cup {Dir}
    PROVE  LET t == Target(p)
           IN  /\ t \in GoodDentries /\ Bounded(t)
               /\ t.hid[t.bstart] = "live" /\ t.hid[0] # "dead"
               /\ t.hid[0] = "live" <=> t.bstart = 0
               /\ Object(fs, t, p) = fs[t.bstart].node[p]
               /\ dcache[p] # NoDentry => t = dcache[p]
               /\ (\E c \in Children(p) : dcache[c] # NoDentry) =>
                      dcache[p] # NoDentry /\ Object(fs, t, p) = Dir
<1> DEFINE t == Target(p)
<1>1. t \in GoodDentries /\ Bounded(t) /\ (dcache[p] # NoDentry => t = dcache[p])
  BY TargetFits DEF Fits
<1>2. Object(fs, t, p) # Lost
  BY LostAssumption DEF Nodes
<1> HIDE DEF t
<1>3. t.hid[t.bstart] = "live" /\ Object(fs, t, p) = fs[t.bstart].node[p]
  BY <1>1, <1>2, GoodFields DEF Object, Pointers
<1>4. t.hid[0] # "null" <=> t.bstart = 0
  BY <1>1, StartsAt
<1>5. t.hid[0] \in Pointers
  BY <1>1, GoodFields, ZeroBranch
<1>6. t.hid[0] # "dead" /\ (t.hid[0] = "live" <=> t.bstart = 0)
  BY <1>3, <1>4, <1>5 DEF Pointers
<1>7. ASSUME NEW c \in Children(p), dcache[c] # NoDentry
      PROVE  dcache[p] # NoDentry /\ Object(fs, t, p) = Dir
  <2>1. dcache[p] # NoDentry
    BY <1>7, PathsAssumption DEF SoundInv, Inv, Closed, Children
  <2>2. Passed(dcache, fs, p)
    BY <1>7 DEF Family, Parents
  <2> QED BY <1>1, <1>3, <1>5, <1>6, <2>1, <2>2 DEF Passed, Pointers
<1> QED BY <1>1, <1>3, <1>6, <1>7 DEF t

\* setattr where the object is.
LEMMA InPlaceFamily ==
    ASSUME SoundInv, OneWritable, Kept, SoundInv', Family, NEW p \in Paths, Reached(p),
           Present(p), NEW v \in Values, Object(fs, Target(p), p) \in Values \cup {Dir},
           Target(p).bstart = 0, Moves(p, {}), dcache'[p] = Target(p),
           fs'[0].node[p] = Attributed(fs[0].node[p], v)
    PROVE  Family'
<1>1. /\ Target(p).hid[0] = "live" /\ (dcache[p] # NoDentry => Target(p) = dcache[p])
      /\ (\E c \in Children(p) : dcache[c] # NoDentry) => fs[0].node[p] = Dir
  BY TargetIs
<1>2. Left(p, {})
  BY <1>1 DEF Left, Passed, Attributed
<1> QED BY <1>2, FamilyBy

\* Where no parents are made, what stopped create_parents still does.
LEMMA BlockedThen ==
    ASSUME SoundInv, Kept, NEW p \in Paths, Reached(p), NEW B, Moves(p, B), 0 \notin B,
           dcache'[p] # NoDentry, Blocked(dcache, p)
    PROVE  Blocked(dcache', p)
<1>1. \A a \in Above[p] : dcache'[a] = dcache[a]
  <2> SUFFICES ASSUME NEW a \in Above[p] PROVE dcache'[a] = dcache[a]
    OBVIOUS
  <2>1. a \in Paths \ {p} /\ dcache'[a] # NoDentry
    BY PathsAssumption DEF Kept, Inv, Closed
  <2> QED BY <2>1, AwayIs
<1> QED BY <1>1 DEF Blocked

\* A copyup without a copy leaves the dentry as it was.
LEMMA CopiedUpNull ==
    ASSUME NEW d \in GoodDentries, Bounded(d), d.hid[0] = "null", NEW p \in Paths,
           NEW full, NEW how, Tried(d, p, full) \in SUBSET {0},
           NEW e, e = CopiedUp(d, p, d.bstart, full, how)
    PROVE  /\ e.hid[0] = "null" => e = d
           /\ e.hid[0] = "live" => 0 \in Tried(d, p, full) \ full
<1> DEFINE b     == d.bstart
           tried == Tried(d, p, full)
           left  == IF how = "copyup" THEN tried \ full ELSE tried
           kept  == {c \in Branches : c =< d.bend /\ d.hid[c] # "null"}
           h     == [c \in Branches |->
                         IF c \notin tried THEN d.hid[c]
                         ELSE IF c \notin full THEN "live"
                         ELSE IF how = "copyup" THEN "null" ELSE "dead"]
           top   == Leftmost(left \cup {b})
           end   == IF left = {} THEN d.bend ELSE Rightmost(left \cup kept)
<1>1. e = [bstart |-> top, bend |-> end, bopaque |-> d.bopaque, hid |-> h]
  BY DEF CopiedUp
<1>2. /\ d = [bstart |-> d.bstart, bend |-> d.bend, bopaque |-> d.bopaque, hid |-> d.hid]
      /\ d.hid \in [Branches -> Pointers] /\ b \in Branches
  BY GoodFields
<1> HIDE DEF tried, kept, b
<1>3. e.hid = h
  BY <1>1
<1>4. e.hid[0] = "live" => 0 \in tried \ full
  BY <1>3, ZeroBranch DEF h
<1>5. ASSUME e.hid[0] = "null" PROVE e = d
  <2>1. 0 \notin tried \/ (0 \in full /\ how = "copyup")
    BY <1>3, <1>5, ZeroBranch
  <2>2. left = {}
    BY <2>1 DEF tried
  <2>3. top = b
    <3>1. {b} \in SUBSET Branches /\ left \cup {b} = {b}
      BY <1>2, <2>2
    <3>2. Leftmost({b}) \in {b}
      BY <3>1, LeftmostIsLeast
    <3> QED BY <3>1, <3>2
  <2>4. end = d.bend
    BY <2>2
  <2>5. h = d.hid
    <3>1. \A c \in Branches : h[c] = d.hid[c]
      BY <2>1 DEF tried
    <3>2. h = [c \in Branches |-> h[c]]
      OBVIOUS
    <3> HIDE DEF h
    <3> QED BY <1>2, <3>1, <3>2
  <2> HIDE DEF h, top, end
  <2> QED BY <1>1, <1>2, <2>3, <2>4, <2>5 DEF b
<1> QED BY <1>4, <1>5 DEF tried

LEMMA CopyupFamily ==
    ASSUME SoundInv, OneWritable, Kept, SoundInv', Family, NEW p \in Paths, Reached(p),
           Present(p), NEW v \in Values, Object(fs, Target(p), p) \in Values \cup {Dir},
           NEW full, NEW how, Target(p).bstart # 0, NEW B, B = Tried(Target(p), p, full),
           Moves(p, B), dcache'[p] = CopiedUp(Target(p), p, Target(p).bstart, full, how),
           0 \in B \ full =>
                fs'[0].node[p] = Attributed(fs[Target(p).bstart].node[p], v)
    PROVE  Family'
<1> DEFINE d == Target(p)
           e == dcache'[p]
<1>1. /\ d \in GoodDentries /\ Bounded(d) /\ d.hid[0] = "null"
      /\ Object(fs, d, p) = fs[d.bstart].node[p]
      /\ dcache[p] # NoDentry => d = dcache[p]
      /\ (\E c \in Children(p) : dcache[c] # NoDentry) =>
                      dcache[p] # NoDentry /\ Object(fs, d, p) = Dir
  <2>1. /\ d \in GoodDentries /\ Bounded(d) /\ d.hid[0] # "dead"
        /\ d.hid[0] = "live" <=> d.bstart = 0
        /\ Object(fs, d, p) = fs[d.bstart].node[p]
        /\ dcache[p] # NoDentry => d = dcache[p]
        /\ (\E c \in Children(p) : dcache[c] # NoDentry) =>
                      dcache[p] # NoDentry /\ Object(fs, d, p) = Dir
    BY TargetIs
  <2>2. d.hid[0] \in Pointers
    BY <2>1, GoodFields, ZeroBranch
  <2> QED BY <2>1, <2>2 DEF Pointers
<1>2. dcache[p] = NoDentry => ReadsAll(d)
  BY LookupReadsAll DEF Target, Cached
<1> HIDE DEF d
<1>3. B \in SUBSET {0} /\ B = Tried(d, p, full) /\ e = CopiedUp(d, p, d.bstart, full, how)
  BY DEF Moves, d
<1> HIDE DEF e
<1>4. /\ e.hid[0] # "null" => 0 \in B
      /\ e.hid[0] = "null" => e = d
      /\ e.hid[0] = "live" => 0 \in B \ full
  BY <1>1, <1>3, CopiedUpIs, CopiedUpNull
<1>5. /\ Object(fs', d, p) = Object(fs, d, p)
      /\ HoldsSome(d, p, fs) => HoldsSome(d, p, fs')
  BY <1>1, SameBelow DEF Kept
<1>6. dcache[p] # NoDentry /\ Object(fs, d, p) = Dir =>
        ReadsAll(d) \/ HoldsSome(d, p, fs) \/ Blocked(dcache, p)
  BY <1>1 DEF Family, Ends
<1>7. (\E c \in Children(p) : dcache[c] # NoDentry) =>
        HoldsSome(d, p, fs) \/ Blocked(dcache, p)
  BY <1>1 DEF Family, Parents, Passed
<1>8. ASSUME Blocked(dcache, p), e.hid[0] = "null" PROVE Blocked(dcache', p)
  <2>1. 0 \notin B
    <3> SUFFICES ASSUME 0 \in B PROVE FALSE
      OBVIOUS
    <3>1. NoParent(fs, dcache, p, 0)
      BY <1>8, BlockedIs
    <3> QED BY <3>1 DEF Moves
  <2>2. dcache'[p] # NoDentry
    BY <1>1, <1>4, <1>8, NoDentryIsNone DEF e, GoodDentries
  <2> QED BY <1>8, <2>1, <2>2, BlockedThen
<1>9. (\E c \in Children(p) : dcache[c] # NoDentry) => Passed(dcache', fs', p)
  <2> SUFFICES ASSUME \E c \in Children(p) : dcache[c] # NoDentry
               PROVE  Passed(dcache', fs', p)
    OBVIOUS
  <2>1. e.hid[0] = "live" => fs'[0].node[p] = Dir
    <3>1. fs[d.bstart].node[p] = Dir
      BY <1>1
    <3> QED BY <1>4, <3>1 DEF Attributed, d
  <2>2. e.hid[0] = "null" => /\ Object(fs', e, p) = Dir
                             /\ HoldsSome(e, p, fs') \/ Blocked(dcache', p)
    BY <1>1, <1>4, <1>5, <1>7, <1>8
  <2> QED BY <2>1, <2>2 DEF Passed, e
<1>10. e.hid[0] = "null" /\ Object(fs', e, p) = Dir =>
        ReadsAll(e) \/ HoldsSome(e, p, fs') \/ Blocked(dcache', p)
  BY <1>2, <1>4, <1>5, <1>6, <1>8
<1>11. Left(p, B)
  BY <1>1, <1>4, <1>9, <1>10 DEF Left, e
<1> QED BY <1>11, FamilyBy

\* unlink and rmdir, once an object has gone: a dentry that stays either had no
\* cached child or could not be given a pointer.
LEMMA RemovedFamily ==
    ASSUME SoundInv, OneWritable, Kept, SoundInv', Family, NEW p \in Paths, Reached(p),
           Present(p), Object(fs, Target(p), p) \in Values \cup {Dir},
           NEW d0, d0 = PartialLookup(fs, DentryOf(Parent[p]), Target(p), p),
           (\E c \in Children(p) : dcache[c] # NoDentry) => CheckEmpty(d0, p),
           Removed(p, IF IsRobranch(d0.bstart) THEN d0 ELSE Killed(d0, d0.bstart))
    PROVE  Family'
<1> DEFINE t == Target(p)
           pd == DentryOf(Parent[p])
           d == IF IsRobranch(d0.bstart) THEN d0 ELSE Killed(d0, d0.bstart)
           e == dcache'[p]
<1>1. /\ t \in GoodDentries /\ Bounded(t) /\ Fits(t, pd, p, fs)
      /\ t.hid[t.bstart] = "live" /\ t.hid[0] # "dead"
      /\ dcache[p] # NoDentry => t = dcache[p]
      /\ (\E c \in Children(p) : dcache[c] # NoDentry) =>
                      dcache[p] # NoDentry /\ Object(fs, t, p) = Dir
  BY TargetIs, TargetFits
<1>2. /\ d0 \in GoodDentries /\ Bounded(d0) /\ (d0.hid[0] = "null" \/ d0.hid[0] = "live")
      /\ d0.hid[0] = "live" <=> d0.bstart = 0
      /\ IsRobranch(d0.bstart) <=> d0.bstart # 0
  BY RemovedFits DEF Fits
<1>3. d0.bstart = t.bstart /\ (d0.hid[0] = "null" <=> t.hid[0] = "null")
      /\ (t.hid[0] = "null" => Object(fs, d0, p) = Object(fs, t, p))
  <2>1. /\ d0.bstart = t.bstart
        /\ \A b \in Branches : d0.hid[b] = t.hid[b] \/ d0.hid[b] = "live"
    BY DEF PartialLookup
  <2> HIDE DEF t
  <2>2. d0.hid[d0.bstart] = "live" /\ t.bstart \in Branches
    BY <1>1, <2>1, GoodFields
  <2>3. d0.hid[0] = "null" <=> t.hid[0] = "null"
    BY <1>1, <1>2, <2>1, StartsAt
  <2> QED BY <1>1, <2>1, <2>2, <2>3 DEF Object
<1>4. /\ d.hid[0] = "null" => d = d0 /\ d0.hid[0] = "null"
      /\ d.hid[0] # "null" => d.hid[0] = "dead" /\ d0.hid[0] = "live"
  BY <1>2, KilledKeeps
<1> HIDE DEF d, pd
<1>5. PICK B : /\ Moves(p, B)
               /\ \/ e = NoDentry
                  \/ 0 \in B /\ e.hid[0] # "null" /\ d.hid[0] = "null"
                  \/ /\ B = {} /\ e = d
                     /\ d.hid[0] = "null" => NoParent(fs, dcache, p, 0)
  BY DEF Removed, d
<1>6. CASE e = NoDentry
  <2>1. Left(p, B)
    BY <1>6 DEF Left
  <2> QED BY <1>5, <2>1, FamilyBy
\* create_parents has given the dentry a pointer to a name that is not there
<1>7. CASE e # NoDentry /\ 0 \in B /\ e.hid[0] # "null" /\ d.hid[0] = "null"
  <2>1. \A c \in Children(p) : dcache[c] = NoDentry
    <3> SUFFICES ASSUME NEW c \in Children(p), dcache[c] # NoDentry PROVE FALSE
      OBVIOUS
    <3>1. /\ dcache[p] = t /\ t.hid[0] = "null"
      BY <1>1, <1>3, <1>4, <1>7
    <3>2. HoldsSome(t, p, fs) \/ Blocked(dcache, p)
      BY <3>1 DEF Family, Parents, Passed
    <3>3. ~Blocked(dcache, p)
      BY <1>5, <1>7, BlockedIs DEF Moves
    <3>4. HoldsSome(d0, p, fs)
      <4>1. pd \in GoodDentries /\ Bounded(pd)
        BY ReachedParent DEF pd
      <4>2. fs \in [Branches -> SoundBranches]
        BY DEF SoundInv, BranchesSound
      <4>3. d0 = PartialLookup(fs, pd, t, p)
        BY DEF pd
      <4> HIDE DEF t
      <4> QED BY <1>1, <3>1, <3>2, <3>3, <4>1, <4>2, <4>3, PartialHolds
    <3> QED BY <1>2, <3>4, CheckEmptyIs
  <2>2. dcache[p] # NoDentry => dcache[p].hid[0] # "dead"
    BY <1>1
  <2>3. Left(p, B)
    BY <1>7, <2>1, <2>2 DEF Left
  <2> QED BY <1>5, <2>3, FamilyBy
<1>8. CASE e # NoDentry /\ B = {} /\ e = d /\ (d.hid[0] = "null" => NoParent(fs, dcache, p, 0))
  <2>1. d.hid[0] = "null" => Blocked(dcache', p)
    BY <1>5, <1>8, BlockedIs, BlockedThen
  <2>2. dcache[p] # NoDentry =>
          dcache[p].hid[0] # "dead" /\ (dcache[p].hid[0] = "null" => d.hid[0] = "null")
    BY <1>1, <1>3, <1>4
  <2>3. (\E c \in Children(p) : dcache[c] # NoDentry) => Passed(dcache', fs', p)
    <3> SUFFICES ASSUME \E c \in Children(p) : dcache[c] # NoDentry
                 PROVE  Passed(dcache', fs', p)
      OBVIOUS
    <3>1. Object(fs, t, p) = Dir
      BY <1>1
    <3>2. d.hid[0] = "null" => Object(fs', d, p) = Dir
      <4>1. d.hid[0] = "null" => d = d0 /\ d0.hid[0] = "null" /\ Object(fs, d0, p) = Dir
        BY <1>3, <1>4, <3>1
      <4> QED BY <1>2, <4>1, SameBelow DEF Kept
    <3> QED BY <1>4, <1>8, <2>1, <3>2 DEF Passed
  <2>4. Left(p, B)
    BY <1>8, <2>1, <2>2, <2>3 DEF Left
  <2> QED BY <1>5, <2>4, FamilyBy
<1> QED BY <1>5, <1>6, <1>7, <1>8

\* rmdir refuses: check_empty has found an entry.
LEMMA RefusedFamily ==
    ASSUME SoundInv, OneWritable, Kept, SoundInv', Family, NEW p \in Paths, Reached(p),
           Present(p), Object(fs, Target(p), p) = Dir,
           NEW d0, d0 = PartialLookup(fs, DentryOf(Parent[p]), Target(p), p),
           ~CheckEmpty(d0, p), dcache'[p] \in {NoDentry, d0}, Moves(p, {}), fs' = fs
    PROVE  Family'
<1> DEFINE t == Target(p)
<1>1. /\ t \in GoodDentries /\ Bounded(t) /\ t.hid[t.bstart] = "live" /\ t.hid[0] # "dead"
      /\ dcache[p] # NoDentry => t = dcache[p]
  BY TargetIs
<1>2. /\ d0 \in GoodDentries /\ Bounded(d0)
      /\ \/ d0.hid[0] = "live" /\ fs[0].node[p] = Dir
         \/ d0.hid[0] = "null"
  BY RemovedFits DEF Fits
<1>3. /\ d0.hid[0] = "null" <=> t.hid[0] = "null"
      /\ Object(fs, d0, p) = Dir
  <2>1. /\ d0.bstart = t.bstart
        /\ \A b \in Branches : d0.hid[b] = t.hid[b] \/ d0.hid[b] = "live"
    BY DEF PartialLookup
  <2>2. Object(fs, t, p) = Dir
    OBVIOUS
  <2> HIDE DEF t
  <2>3. d0.hid[d0.bstart] = "live" /\ t.bstart \in Branches
    BY <1>1, <2>1, GoodFields
  <2>4. d0.hid[0] = "null" <=> t.hid[0] = "null"
    BY <1>1, <1>2, <2>1, StartsAt
  <2> QED BY <1>1, <2>1, <2>2, <2>3, <2>4 DEF Object
<1>4. HoldsSome(d0, p, fs)
  BY <1>2, CheckEmptyIs
<1> HIDE DEF t
<1>5. Left(p, {})
  BY <1>1, <1>2, <1>3, <1>4 DEF Left, Passed
<1> QED BY <1>5, FamilyBy

-----------------------------------------------------------------------------
(* The theorem.                                                            *)

\* What unlink and rmdir have done before they look for a branch for the
\* whiteout, away from p.
LEMMA RemovedAway ==
    ASSUME SoundInv, OneWritable, NEW p \in Paths
    PROVE  /\ \A b : ~IsRobranch(b) => b = 0
           /\ \A q \in Paths \ {p} :
                /\ SetNode(fs, 0, p, None)[0].node[q] = fs[0].node[q]
                /\ rmdir_first(p, 0)[0].node[q] = fs[0].node[q]
<1>1. fs \in Unions /\ fs[0].node \in [Paths -> Nodes]
  BY ZeroBranch DEF SoundInv, Inv, Unions, BranchStates
<1>2. \A b : ~IsRobranch(b) => b = 0
  BY DEF IsRobranch, OneWritable
<1>3. SetNode(fs, 0, p, None)[0].node = [fs[0].node EXCEPT ![p] = None]
  BY <1>1, WriteIs
<1>4. rmdir_first(p, 0)[0].node = [fs[0].node EXCEPT ![p] = None]
  BY <1>1, ZeroBranch DEF rmdir_first, Unions
<1> QED BY <1>1, <1>2, <1>3, <1>4

LEMMA NextNoOops ==
    ASSUME SoundInv, OneWritable, Family, ~oops, Next
    PROVE  oops' = FALSE
<1>1. ASSUME NEW p \in Paths, Reached(p),
             NEW f, \A q \in Paths \ {p} : f[0].node[q] = fs[0].node[q], NEW d, NEW w, NEW start
      PROVE  ~MayOops(f, d, p, w, start)
  BY <1>1, NeverOops
<1>2. oops = FALSE
  BY DEF SoundInv, Inv
<1>3. ASSUME NEW p \in Paths, unionfs_lookup(p) \/ Prune(p) \/ Pin(p) \/ Unpin(p)
      PROVE  oops' = FALSE
  BY <1>2, <1>3 DEF unionfs_lookup, Prune, Pin, Unpin
<1>4. ASSUME NEW p \in Paths, unionfs_create(p) PROVE oops' = FALSE
  BY <1>1, <1>2, <1>4 DEF unionfs_create, CreateDone, CreateFails
<1>5. ASSUME NEW p \in Paths, NEW op, NEW n, NewNode(op, p, n) PROVE oops' = FALSE
  BY <1>1, <1>2, <1>5 DEF NewNode, CreateDone, CreateFails
<1>6. ASSUME NEW p \in Paths, unionfs_mkdir(p) PROVE oops' = FALSE
  BY <1>1, <1>2, <1>6 DEF unionfs_mkdir, CreateDone, CreateFails
<1>7. ASSUME NEW p \in Paths, unionfs_unlink(p) PROVE oops' = FALSE
  <2> DEFINE d0 == PartialLookup(fs, DentryOf(Parent[p]), Target(p), p)
             b  == d0.bstart
             d  == IF IsRobranch(b) THEN d0 ELSE Killed(d0, b)
             f  == IF IsRobranch(b) THEN fs ELSE SetNode(fs, b, p, None)
             start == IF IsRobranch(b) THEN b - 1
                      ELSE IF d.bopaque # -1 THEN d.bopaque ELSE b
             w  == WhiteoutBranch(f, d, p, start)
  <2>1. \A q \in Paths \ {p} : f[0].node[q] = fs[0].node[q]
    <3>1. f = fs \/ f = SetNode(fs, 0, p, None)
      BY RemovedAway
    <3> HIDE DEF f
    <3> QED BY <3>1, RemovedAway
  <2>2. /\ Reached(p)
        /\ \/ MayOops(f, d, p, w, start)
           \/ WhitedOut("unlink", f, d, p, w)
           \/ WhiteoutFails("unlink", f, d, p, w, [dcache EXCEPT ![p] = d])
    BY <1>7 DEF unionfs_unlink
  <2> HIDE DEF f, w, start, d
  <2> QED BY <1>1, <1>2, <2>1, <2>2 DEF WhitedOut, WhiteoutFails
<1>8. ASSUME NEW p \in Paths, unionfs_rmdir(p) PROVE oops' = FALSE
  <2> DEFINE d0 == PartialLookup(fs, DentryOf(Parent[p]), Target(p), p)
             b  == d0.bstart
             d  == IF IsRobranch(b) THEN d0 ELSE Killed(d0, b)
             f  == IF IsRobranch(b) THEN fs ELSE rmdir_first(p, b)
             start == IF IsRobranch(b) THEN b - 1 ELSE b
             w  == WhiteoutBranch(f, d, p, start)
  <2>1. \A q \in Paths \ {p} : f[0].node[q] = fs[0].node[q]
    <3>1. f = fs \/ f = rmdir_first(p, 0)
      BY RemovedAway
    <3> HIDE DEF f
    <3> QED BY <3>1, RemovedAway
  <2>2. /\ Reached(p)
        /\ \/ UNCHANGED oops
           \/ MayOops(f, d, p, w, start)
           \/ WhitedOut("rmdir", f, d, p, w)
           \/ WhiteoutFails("rmdir", f, d, p, w, Unhashed(p, d))
    BY <1>8 DEF unionfs_rmdir
  <2> HIDE DEF f, w, start, d
  <2> QED BY <1>1, <1>2, <2>1, <2>2 DEF WhitedOut, WhiteoutFails
<1>9. ASSUME NEW p \in Paths, NEW v \in Values, unionfs_setattr(p, v) PROVE oops' = FALSE
  BY <1>1, <1>2, <1>9 DEF unionfs_setattr, CopyupMayOops, Copyup
<1> QED BY <1>3, <1>4, <1>5, <1>6, <1>7, <1>8, <1>9 DEF Next, unionfs_mknod, unionfs_symlink

\* Every step keeps the family.
LEMMA SetattrFamily ==
    ASSUME SoundInv, OneWritable, Kept, SoundInv', Family, oops' = FALSE,
           NEW p \in Paths, NEW v \in Values, unionfs_setattr(p, v)
    PROVE  Family'
<1> DEFINE d == Target(p)
           b == d.bstart
<1>1. Reached(p) /\ Present(p) /\ Object(fs, d, p) \in Values \cup {Dir}
  BY DEF unionfs_setattr
<1>2. b \in Branches
  BY <1>1, TargetFits, GoodFields
<1>3. IsRobranch(b) <=> b # 0
  BY <1>2, ZeroBranch
<1>4. \/ /\ b = 0 /\ fs' = SetNode(fs, 0, p, Attributed(fs[0].node[p], v))
         /\ dcache' = [dcache EXCEPT ![p] = d]
      \/ b # 0 /\ \E full, how : Copyup(p, v, d, full, how)
  BY <1>3 DEF unionfs_setattr, Crashes
<1>5. CASE /\ b = 0 /\ fs' = SetNode(fs, 0, p, Attributed(fs[0].node[p], v))
           /\ dcache' = [dcache EXCEPT ![p] = d]
  <2>1. /\ Moves(p, {}) /\ dcache'[p] = d
        /\ fs'[0].node[p] = Attributed(fs[0].node[p], v)
    BY <1>1, <1>5, InPlaceSound
  <2> QED BY <1>1, <1>5, <2>1, InPlaceFamily
<1>6. ASSUME b # 0, NEW full, NEW how, Copyup(p, v, d, full, how)
      PROVE  Family'
  <2> DEFINE B == Tried(d, p, full)
  <2>1. /\ Moves(p, B)
        /\ dcache'[p] = CopiedUp(d, p, b, full, how)
        /\ 0 \in B \ full => fs'[0].node[p] = Attributed(fs[b].node[p], v)
    BY <1>1, <1>6, CopyupSound
  <2> QED BY <1>1, <1>6, <2>1, CopyupFamily
<1> QED BY <1>4, <1>5, <1>6

LEMMA UnlinkFamily ==
    ASSUME SoundInv, OneWritable, Kept, SoundInv', Family, oops' = FALSE,
           NEW p \in Paths, unionfs_unlink(p)
    PROVE  Family'
<1> DEFINE d0 == PartialLookup(fs, DentryOf(Parent[p]), Target(p), p)
<1>1. Reached(p) /\ Present(p) /\ Object(fs, Target(p), p) \in Values
  BY DEF unionfs_unlink
<1>2. ~ \E c \in Children(p) : dcache[c] # NoDentry
  BY <1>1, TargetIs, ValuesAssumption
<1>3. Removed(p, IF IsRobranch(d0.bstart) THEN d0 ELSE Killed(d0, d0.bstart))
  BY UnlinkSound
<1>4. d0 = PartialLookup(fs, DentryOf(Parent[p]), Target(p), p)
  OBVIOUS
<1> HIDE DEF d0
<1> QED BY <1>1, <1>2, <1>3, <1>4, RemovedFamily

LEMMA RmdirFamily ==
    ASSUME SoundInv, OneWritable, Kept, SoundInv', Family, oops' = FALSE,
           NEW p \in Paths, unionfs_rmdir(p)
    PROVE  Family'
<1> DEFINE d0 == PartialLookup(fs, DentryOf(Parent[p]), Target(p), p)
<1>1. Reached(p) /\ Present(p) /\ Object(fs, Target(p), p) = Dir
  BY DEF unionfs_rmdir
<1>2. \/ /\ ~CheckEmpty(d0, p) /\ dcache'[p] \in {NoDentry, d0}
         /\ Moves(p, {}) /\ fs' = fs
      \/ /\ CheckEmpty(d0, p)
         /\ Removed(p, IF IsRobranch(d0.bstart) THEN d0 ELSE Killed(d0, d0.bstart))
  BY RmdirSound
<1>3. d0 = PartialLookup(fs, DentryOf(Parent[p]), Target(p), p)
  OBVIOUS
<1> HIDE DEF d0
<1> QED BY <1>1, <1>2, <1>3, RemovedFamily, RefusedFamily

LEMMA NextFamily ==
    ASSUME SoundInv, OneWritable, Family, ~oops, Next
    PROVE  Family'
<1>1. Kept /\ SoundInv' /\ oops' = FALSE
  BY NextKept, NextSound, NextNoOops DEF SoundInv
<1>2. ASSUME NEW p \in Paths, unionfs_lookup(p) PROVE Family'
  BY <1>1, <1>2, LookupFamily
<1>3. ASSUME NEW p \in Paths, Prune(p) PROVE Family'
  BY <1>1, <1>3, PruneFamily
<1>4. ASSUME NEW p \in Paths, Pin(p) \/ Unpin(p) PROVE Family'
  BY <1>4 DEF Pin, Unpin, Family, Parents, Ends, Passed
<1>5. ASSUME NEW p \in Paths, Reached(p), Grown(p) PROVE Family'
  BY <1>1, <1>5, GrownFamily
<1>6. ASSUME NEW p \in Paths, unionfs_create(p) PROVE Family'
  BY <1>1, <1>5, <1>6, CreateSound DEF unionfs_create
<1>7. ASSUME NEW p \in Paths, unionfs_mkdir(p) PROVE Family'
  BY <1>1, <1>5, <1>7, MkdirSound DEF unionfs_mkdir
<1>8. ASSUME NEW p \in Paths, NEW v \in Values, unionfs_mknod(p, v) \/ unionfs_symlink(p, v)
      PROVE  Family'
  <2>1. PICK op : NewNode(op, p, v)
    BY <1>8 DEF unionfs_mknod, unionfs_symlink
  <2> QED BY <1>1, <1>5, <2>1, NewNodeSound DEF NewNode
<1>9. ASSUME NEW p \in Paths, unionfs_unlink(p) \/ unionfs_rmdir(p) PROVE Family'
  BY <1>1, <1>9, UnlinkFamily, RmdirFamily
<1>10. ASSUME NEW p \in Paths, NEW v \in Values, unionfs_setattr(p, v) PROVE Family'
  BY <1>1, <1>10, SetattrFamily
<1> QED BY <1>2, <1>3, <1>4, <1>6, <1>7, <1>8, <1>9, <1>10 DEF Next

\* With one writable branch, whatever trees are mounted, whatever is cached and
\* held and whichever calls run out of space, create_parents neither takes a
\* file for a directory nor uses the NULL pointer of an ancestor that exists.
THEOREM UnionNeverOopses == ASSUME Writable = {0} PROVE Spec => []NoOops
<1> DEFINE I == SoundInv /\ Family /\ ~oops
<1>1. OneWritable
  BY DEF OneWritable
<1>2. Init => I
  <2> SUFFICES ASSUME Init PROVE I
    OBVIOUS
  <2>1. oops = FALSE /\ \A p \in Paths : dcache[p] = NoDentry
    BY DEF Init
  <2>2. Family
    BY <2>1 DEF Family, Parents, Ends, Children
  <2> QED BY InitSound, <2>1, <2>2
<1>3. I /\ [Next]_vars => I'
  <2> SUFFICES ASSUME I, [Next]_vars PROVE I'
    OBVIOUS
  <2>1. SoundInv'
    BY <1>1, NextSound
  <2>2. CASE Next
    <3>1. Family' /\ oops' = FALSE
      BY <1>1, <2>2, NextFamily, NextNoOops
    <3> QED BY <2>1, <3>1
  <2>3. CASE UNCHANGED vars
    <3>1. dcache' = dcache /\ fs' = fs /\ oops' = oops
      BY <2>3 DEF vars
    <3>2. Family'
      BY <3>1 DEF Family, Parents, Ends, Passed
    <3> QED BY <2>1, <3>1, <3>2
  <2> QED BY <2>2, <2>3
<1>4. I => NoOops
  BY DEF NoOops
<1> QED BY <1>2, <1>3, <1>4, PTL DEF Spec

-----------------------------------------------------------------------------
(* The view.                                                               *)

\* What the layers l of its directory show of the name p.
ShownBy(f, p, l) ==
    IF Unhidden(f, p, l) = {} THEN None ELSE f[Leftmost(Unhidden(f, p, l))].node[p]

LEMMA ViewIs ==
    ASSUME NEW f, NEW p \in Paths
    PROVE  /\ Parent[p] \in AllPaths /\ Layers(f)[Parent[p]] \in SUBSET Branches
           /\ Layers(f)[Root] = Branches
           /\ Layers(f)[p] = LayerOf(f, p, Layers(f)[Parent[p]])
           /\ View(f)[p] = ShownBy(f, p, Layers(f)[Parent[p]])
<1>1. Parent[p] \in AllPaths /\ p \in AllPaths /\ p # Root /\ Root \in AllPaths
  BY PathsAssumption DEF AllPaths
<1>2. /\ Layers(f)[Root] = Branches
      /\ Layers(f)[p] = LayerOf(f, p, Layers(f)[Parent[p]])
  <2> DEFINE L == Layers(f)
  <2>1. L = [q \in AllPaths |-> IF q = Root THEN Branches ELSE LayerOf(f, q, L[Parent[q]])]
    BY LayersDef DEF AreLayers
  <2> HIDE DEF L
  <2>2. L[Root] = Branches /\ L[p] = LayerOf(f, p, L[Parent[p]])
    BY <1>1, <2>1
  <2> QED BY <2>2 DEF L
<1>3. View(f)[p] = ShownBy(f, p, Layers(f)[Parent[p]])
  BY DEF View, ShownBy
<1> QED BY <1>1, <1>2, <1>3, LayersAre

\* The layers of a directory, one by one.
LEMMA LayerIs ==
    ASSUME NEW f \in [Branches -> SoundBranches], NEW p \in Paths, NEW l \in SUBSET Branches
    PROVE  LET U == Unhidden(f, p, l)
           IN  /\ U \in SUBSET l /\ \A b \in U : f[b].node[p] # None
               /\ U # {} => /\ Leftmost(U) \in U /\ \A c \in U : Leftmost(U) =< c
                            /\ ShownBy(f, p, l) = f[Leftmost(U)].node[p]
               /\ ShownBy(f, p, l) = None <=> U = {}
               /\ ShownBy(f, p, l) # Dir => LayerOf(f, p, l) = {}
               /\ ShownBy(f, p, l) = Dir =>
                    /\ \A b \in Branches : b \in LayerOf(f, p, l) <=>
                          /\ b \in U /\ f[b].node[p] = Dir
                          /\ \A c \in U : c < b /\ f[c].node[p] = Dir => p \notin f[c].opq
                    /\ Leftmost(U) \in LayerOf(f, p, l)
               /\ LayerOf(f, p, l) \in SUBSET l
<1> DEFINE U == Unhidden(f, p, l)
           D == {b \in U : f[b].node[p] = Dir}
<1>1. U \in SUBSET l /\ \A b \in U : f[b].node[p] # None
  BY DEF Unhidden
<1>2. U # {} => Leftmost(U) \in U /\ \A c \in U : Leftmost(U) =< c
  <2> HIDE DEF U
  <2>1. U \in SUBSET Branches
    BY <1>1
  <2> QED BY <2>1, LeftmostIsLeast
<1>3. ShownBy(f, p, l) = IF U = {} THEN None ELSE f[Leftmost(U)].node[p]
  BY DEF ShownBy
<1>4. LayerOf(f, p, l) = IF U = {} THEN {}
                         ELSE IF Leftmost(U) \notin D THEN {}
                         ELSE {b \in D : \A c \in D : c < b => p \notin f[c].opq}
  BY DEF LayerOf
<1> HIDE DEF U
<1>5. ShownBy(f, p, l) = Dir => U # {} /\ Leftmost(U) \in D
  BY <1>2, <1>3, ValuesAssumption
<1>6. ShownBy(f, p, l) # Dir => LayerOf(f, p, l) = {}
  BY <1>3, <1>4
<1>7. ASSUME ShownBy(f, p, l) = Dir
      PROVE  /\ \A b \in Branches : b \in LayerOf(f, p, l) <=>
                  /\ b \in U /\ f[b].node[p] = Dir
                  /\ \A c \in U : c < b /\ f[c].node[p] = Dir => p \notin f[c].opq
             /\ Leftmost(U) \in LayerOf(f, p, l)
  <2>1. LayerOf(f, p, l) = {b \in D : \A c \in D : c < b => p \notin f[c].opq}
    BY <1>4, <1>5, <1>7
  <2>2. \A c \in D : ~ (c < Leftmost(U))
    <3> TAKE c \in D
    <3>1. Leftmost(U) =< c /\ Leftmost(U) \in Branches /\ c \in Branches
      BY <1>1, <1>2, <1>5
    <3> QED BY <3>1, ZeroBranch
  <2>3. Leftmost(U) \in LayerOf(f, p, l)
    BY <1>5, <1>7, <2>1, <2>2
  <2> QED BY <2>1, <2>3
<1>8. LayerOf(f, p, l) \in SUBSET l
  BY <1>1, <1>4
<1> QED BY <1>1, <1>2, <1>3, <1>6, <1>7, <1>8 DEF U

\* A directory that is none in the view has no layers, and nothing in it.
LEMMA NoLayers ==
    ASSUME NEW f \in [Branches -> SoundBranches], NEW p \in Paths
    PROVE  /\ View(f)[p] # Dir <=> Layers(f)[p] = {}
           /\ Layers(f)[Parent[p]] = {} => View(f)[p] = None
           /\ Layers(f)[p] \in SUBSET Layers(f)[Parent[p]]
<1> DEFINE l == Layers(f)[Parent[p]]
<1>1. /\ l \in SUBSET Branches /\ Layers(f)[p] = LayerOf(f, p, l)
      /\ View(f)[p] = ShownBy(f, p, l)
  BY ViewIs
<1> HIDE DEF l
<1>2. /\ ShownBy(f, p, l) # Dir => LayerOf(f, p, l) = {}
      /\ ShownBy(f, p, l) = Dir => LayerOf(f, p, l) # {}
      /\ LayerOf(f, p, l) \in SUBSET l
      /\ Unhidden(f, p, l) \in SUBSET l
      /\ ShownBy(f, p, l) = None <=> Unhidden(f, p, l) = {}
  BY <1>1, LayerIs
<1> QED BY <1>1, <1>2 DEF l

\* Nor has anything below it.
LEMMA NothingBelow ==
    ASSUME NEW f \in [Branches -> SoundBranches], NEW p \in Paths,
           \A c \in Children(p) : View(f)[c] = None
    PROVE  \A q \in Below(p) : View(f)[q] = None /\ Layers(f)[q] = {}
<1> DEFINE Q == {q \in Paths : p \in Above[q] /\ View(f)[q] # None}
<1>1. ASSUME NEW q \in Q PROVE Parent[q] \in Q
  <2>1. q \in Paths /\ p \in Above[q] /\ View(f)[q] # None
    OBVIOUS
  <2>2. Parent[q] # p
    BY <2>1 DEF Children
  <2>3. Parent[q] \in Paths /\ p \in Above[Parent[q]]
    BY <2>1, <2>2, PathsAssumption
  <2>4. Layers(f)[Parent[q]] # {}
    BY <2>1, NoLayers
  <2>5. View(f)[Parent[q]] # None
    BY <2>3, <2>4, NoLayers, ValuesAssumption
  <2> QED BY <2>3, <2>5
<1>2. Q = {}
  <2>1. Q \in SUBSET Paths
    OBVIOUS
  <2> HIDE DEF Q
  <2> QED BY <1>1, <2>1, NoEndlessClimb
<1>3. ASSUME NEW q \in Below(p) PROVE View(f)[q] = None /\ Layers(f)[q] = {}
  <2>1. q \in Paths /\ p \in Above[q]
    BY DEF Below
  <2>2. View(f)[q] = None
    BY <1>2, <2>1
  <2> QED BY <2>1, <2>2, NoLayers, ValuesAssumption
<1> QED BY <1>3

LEMMA NothingBelowOther ==
    ASSUME NEW f \in [Branches -> SoundBranches], NEW p \in Paths, View(f)[p] # Dir
    PROVE  \A q \in Below(p) : View(f)[q] = None /\ Layers(f)[q] = {}
<1>1. Layers(f)[p] = {}
  BY NoLayers
<1>2. ASSUME NEW c \in Children(p) PROVE View(f)[c] = None
  <2>1. c \in Paths /\ Layers(f)[Parent[c]] = {}
    BY <1>1 DEF Children
  <2> QED BY <2>1, NoLayers
<1> QED BY <1>2, NothingBelow

\* The first branch comes first.
LEMMA ZeroFirst ==
    ASSUME NEW S \in SUBSET Branches, 0 \in S
    PROVE  Leftmost(S) = 0
<1> DEFINE m == Leftmost(S)
<1>1. m \in Branches /\ m =< 0
  BY LeftmostIsLeast
<1> HIDE DEF m
<1>2. m = 0
  BY <1>1, ZeroBranch
<1> QED BY <1>2 DEF m

\* The first branch is never hidden.
LEMMA TopLayer ==
    ASSUME NEW f \in [Branches -> SoundBranches]
    PROVE  \A q \in AllPaths : IsDir(f, 0, q) => 0 \in Layers(f)[q]
<1> DEFINE Q == {q \in Paths : f[0].node[q] = Dir /\ 0 \notin Layers(f)[q]}
<1>1. ASSUME NEW q \in Q PROVE Parent[q] \in Q
  <2> DEFINE l == Layers(f)[Parent[q]]
  <2>1. q \in Paths /\ f[0].node[q] = Dir /\ 0 \notin Layers(f)[q]
    OBVIOUS
  <2>2. IsDir(f, 0, Parent[q]) /\ q \notin f[0].wh
    BY <2>1, InDirectory, SoundType, ZeroBranch, ValuesAssumption DEF Unambiguous
  <2>3. SUFFICES ASSUME 0 \in l PROVE FALSE
    <3>1. 0 \notin l => Parent[q] # Root
      BY <2>1, ViewIs, ZeroBranch
    <3> QED BY <2>1, <2>2, <2>3, <3>1, PathsAssumption DEF IsDir
  <2>4. /\ l \in SUBSET Branches /\ Layers(f)[q] = LayerOf(f, q, l)
    BY <2>1, ViewIs
  <2> HIDE DEF l
  <2> DEFINE U == Unhidden(f, q, l)
  <2>5. 0 \in U
    <3>1. \A c \in l : c =< 0 => c = 0
      BY <2>4, ZeroBranch
    <3> QED BY <2>1, <2>2, <2>3, <3>1, ValuesAssumption DEF Unhidden
  <2>6. /\ U \in SUBSET l /\ Leftmost(U) \in U /\ Leftmost(U) =< 0
        /\ ShownBy(f, q, l) = f[Leftmost(U)].node[q]
        /\ ShownBy(f, q, l) = Dir => Leftmost(U) \in LayerOf(f, q, l)
    BY <2>1, <2>4, <2>5, LayerIs
  <2> HIDE DEF U
  <2>7. Leftmost(U) = 0
    <3>1. U \in SUBSET Branches
      BY <2>4, <2>6
    <3> QED BY <2>5, <3>1, ZeroFirst
  <2> QED BY <2>1, <2>4, <2>6, <2>7
<1>2. Q = {}
  <2>1. Q \in SUBSET Paths
    OBVIOUS
  <2> HIDE DEF Q
  <2> QED BY <1>1, <2>1, NoEndlessClimb
<1>3. ASSUME NEW q \in AllPaths, IsDir(f, 0, q) PROVE 0 \in Layers(f)[q]
  <2>1. CASE q = Root
    <3>1. Layers(f)[Root] = Branches
      BY LayersDef DEF AreLayers, AllPaths
    <3> QED BY <2>1, <3>1, ZeroBranch
  <2>2. CASE q # Root
    BY <1>2, <1>3, <2>2 DEF AllPaths, IsDir
  <2> QED BY <2>1, <2>2
<1> QED BY <1>3

\* What is there or whited out in the first branch decides what is seen.
LEMMA TopDecides ==
    ASSUME NEW f \in [Branches -> SoundBranches], NEW p \in Paths
    PROVE  /\ f[0].node[p] # None => View(f)[p] = f[0].node[p]
           /\ p \in f[0].wh => View(f)[p] = None
           /\ f[0].node[p] = Dir /\ p \in f[0].opq => Layers(f)[p] = {0}
<1> DEFINE l == Layers(f)[Parent[p]]
           U == Unhidden(f, p, l)
<1>1. /\ l \in SUBSET Branches /\ Layers(f)[p] = LayerOf(f, p, l)
      /\ View(f)[p] = ShownBy(f, p, l)
  BY ViewIs
<1>2. IsDir(f, 0, Parent[p]) => 0 \in l
  <2>1. Parent[p] \in AllPaths
    BY ViewIs
  <2> QED BY <2>1, TopLayer
<1> HIDE DEF l
<1>3. /\ U \in SUBSET l
      /\ U # {} => ShownBy(f, p, l) = f[Leftmost(U)].node[p]
      /\ ShownBy(f, p, l) = None <=> U = {}
      /\ ShownBy(f, p, l) = Dir =>
           \A b \in Branches : b \in LayerOf(f, p, l) <=>
              /\ b \in U /\ f[b].node[p] = Dir
              /\ \A c \in U : c < b /\ f[c].node[p] = Dir => p \notin f[c].opq
      /\ LayerOf(f, p, l) \in SUBSET l
  BY <1>1, LayerIs
<1>4. \A c \in l : c =< 0 <=> c = 0
  BY <1>1, ZeroBranch
<1>5. ASSUME f[0].node[p] # None
      PROVE  0 \in U /\ View(f)[p] = f[0].node[p]
  <2>1. 0 \in l /\ p \notin f[0].wh
    BY <1>2, <1>5, InDirectory, SoundType, ZeroBranch DEF Unambiguous
  <2>2. 0 \in U
    BY <1>4, <1>5, <2>1 DEF Unhidden
  <2> HIDE DEF U
  <2>3. Leftmost(U) = 0
    <3>1. U \in SUBSET Branches
      BY <1>1, <1>3
    <3> QED BY <2>2, <3>1, ZeroFirst
  <2>4. View(f)[p] = f[Leftmost(U)].node[p]
    BY <1>1, <1>3, <2>2
  <2> QED BY <2>2, <2>3, <2>4
<1>6. ASSUME p \in f[0].wh PROVE View(f)[p] = None
  <2>1. 0 \in l
    BY <1>2, <1>6, InDirectory, ZeroBranch
  <2>2. \A b \in l : 0 =< b
    BY <1>1, ZeroBranch
  <2>3. U = {}
    BY <1>6, <2>1, <2>2 DEF Unhidden
  <2> QED BY <1>1, <1>3, <2>3
<1>7. ASSUME f[0].node[p] = Dir, p \in f[0].opq PROVE Layers(f)[p] = {0}
  <2>1. 0 \in U /\ ShownBy(f, p, l) = Dir
    BY <1>1, <1>5, <1>7, ValuesAssumption
  <2> HIDE DEF U
  <2>2. \A b \in Branches : b \in LayerOf(f, p, l) => ~ (0 < b)
    BY <1>3, <1>7, <2>1
  <2>3. \A b \in Branches : ~ (0 < b) => b = 0
    BY ZeroBranch
  <2>4. 0 \in LayerOf(f, p, l)
    <3>1. \A c \in U : ~ (c < 0)
      BY <1>1, <1>3, ZeroBranch
    <3> QED BY <1>3, <1>7, <2>1, <3>1, ZeroBranch
  <2> QED BY <1>1, <1>3, <2>2, <2>3, <2>4
<1> QED BY <1>5, <1>6, <1>7

\* One level of what a change to the first branch does to the layers: a name q
\* that stays as it was, or becomes a directory that does not hide anything.
Unchanged(f, g, q) ==
    /\ g[0].node[q] = f[0].node[q]
    /\ q \in g[0].wh <=> q \in f[0].wh
    /\ q \in g[0].opq <=> q \in f[0].opq

Opened(f, g, q) ==
    /\ f[0].node[q] = None /\ q \notin f[0].wh
    /\ g[0].node[q] = Dir /\ q \notin g[0].opq

LEMMA UnchangedLevel ==
    ASSUME NEW f \in [Branches -> SoundBranches], NEW g \in [Branches -> SoundBranches],
           \A b \in Branches \ {0} : g[b] = f[b],
           NEW q \in Paths, NEW lf \in SUBSET Branches, NEW lg \in SUBSET Branches,
           lg = lf \/ (lg = lf \cup {0} /\ f[0].node[q] = None /\ q \notin f[0].wh),
           Unchanged(f, g, q)
    PROVE  ShownBy(g, q, lg) = ShownBy(f, q, lf) /\ LayerOf(g, q, lg) = LayerOf(f, q, lf)
<1>1. \A b \in Branches : /\ g[b].node[q] = f[b].node[q]
                          /\ q \in g[b].wh <=> q \in f[b].wh
                          /\ q \in g[b].opq <=> q \in f[b].opq
  BY DEF Unchanged
<1>2. Unhidden(g, q, lg) = Unhidden(f, q, lf)
  <2>1. ASSUME NEW b \in Branches
        PROVE  b \in Unhidden(g, q, lg) <=> b \in Unhidden(f, q, lf)
    <3>1. b \in Unhidden(g, q, lg) <=>
            b \in lg /\ f[b].node[q] # None /\ \A c \in lg : c =< b => q \notin f[c].wh
      BY <1>1 DEF Unhidden
    <3>2. b \in Unhidden(f, q, lf) <=>
            b \in lf /\ f[b].node[q] # None /\ \A c \in lf : c =< b => q \notin f[c].wh
      BY DEF Unhidden
    <3> QED BY <3>1, <3>2
  <2>2. Unhidden(g, q, lg) \in SUBSET Branches /\ Unhidden(f, q, lf) \in SUBSET Branches
    BY DEF Unhidden
  <2> QED BY <2>1, <2>2
<1> DEFINE U == Unhidden(f, q, lf)
<1>3. U \in SUBSET Branches
  BY DEF Unhidden
<1> HIDE DEF U
<1>4. U # {} => Leftmost(U) \in Branches
  BY <1>3, LeftmostIsLeast
<1>5. ShownBy(g, q, lg) = ShownBy(f, q, lf)
  BY <1>1, <1>2, <1>4 DEF ShownBy, U
<1>6. {b \in U : g[b].node[q] = Dir} = {b \in U : f[b].node[q] = Dir}
  BY <1>1, <1>3
<1> DEFINE D == {b \in U : f[b].node[q] = Dir}
<1>7. {b \in D : \A c \in D : c < b => q \notin g[c].opq}
        = {b \in D : \A c \in D : c < b => q \notin f[c].opq}
  BY <1>1, <1>3
<1>8. /\ LayerOf(g, q, lg) = IF U = {} THEN {}
                             ELSE IF Leftmost(U) \notin {b \in U : g[b].node[q] = Dir} THEN {}
                             ELSE {x \in {b \in U : g[b].node[q] = Dir} :
                                     \A c \in {b \in U : g[b].node[q] = Dir} :
                                        c < x => q \notin g[c].opq}
      /\ LayerOf(f, q, lf) = IF U = {} THEN {}
                             ELSE IF Leftmost(U) \notin D THEN {}
                             ELSE {b \in D : \A c \in D : c < b => q \notin f[c].opq}
  BY <1>2 DEF LayerOf, U
<1> QED BY <1>5, <1>6, <1>7, <1>8

LEMMA OpenedLevel ==
    ASSUME NEW f \in [Branches -> SoundBranches], NEW g \in [Branches -> SoundBranches],
           \A b \in Branches \ {0} : g[b] = f[b],
           NEW q \in Paths, NEW lf \in SUBSET Branches, NEW lg \in SUBSET Branches,
           lg = lf \cup {0}, Opened(f, g, q), ShownBy(f, q, lf) \in {None, Dir}
    PROVE  ShownBy(g, q, lg) = Dir /\ LayerOf(g, q, lg) = LayerOf(f, q, lf) \cup {0}
<1> DEFINE U == Unhidden(f, q, lf)
           V == Unhidden(g, q, lg)
<1>1. /\ 0 \in Branches /\ q \notin g[0].wh /\ g[0].node[q] = Dir /\ f[0].node[q] = None
      /\ q \notin f[0].wh /\ q \notin g[0].opq
  BY ZeroBranch, SoundType, ValuesAssumption DEF Opened, Unambiguous
<1>2. V = U \cup {0}
  <2>1. ASSUME NEW b \in Branches \ {0} PROVE b \in V <=> b \in U
    <3>1. b \in V <=> b \in lf /\ f[b].node[q] # None /\ \A c \in lg : c =< b => q \notin g[c].wh
      BY <2>1 DEF Unhidden
    <3>2. b \in U <=> b \in lf /\ f[b].node[q] # None /\ \A c \in lf : c =< b => q \notin f[c].wh
      BY DEF Unhidden
    <3>3. \A c \in Branches : q \in g[c].wh <=> q \in f[c].wh
      BY <1>1
    <3> QED BY <1>1, <3>1, <3>2, <3>3
  <2>2. 0 \in V
    <3>1. \A c \in lg : c =< 0 => c = 0
      BY ZeroBranch
    <3> QED BY <1>1, <3>1, ValuesAssumption DEF Unhidden
  <2>3. U \in SUBSET Branches /\ V \in SUBSET Branches
    BY DEF Unhidden
  <2> HIDE DEF U, V
  <2> QED BY <2>1, <2>2, <2>3, ZeroBranch
<1>3. U \in SUBSET Branches /\ V \in SUBSET Branches /\ 0 \notin U
  BY <1>1 DEF Unhidden
<1>4. /\ V # {} => ShownBy(g, q, lg) = g[Leftmost(V)].node[q]
      /\ ShownBy(g, q, lg) = Dir =>
           /\ \A b \in Branches : b \in LayerOf(g, q, lg) <=>
                 /\ b \in V /\ g[b].node[q] = Dir
                 /\ \A c \in V : c < b /\ g[c].node[q] = Dir => q \notin g[c].opq
      /\ LayerOf(g, q, lg) \in SUBSET lg
  <2> HIDE DEF U
  <2> QED BY ONLY g \in [Branches -> SoundBranches], q \in Paths, lg \in SUBSET Branches, LayerIs
<1>5. /\ ShownBy(f, q, lf) = None <=> U = {}
      /\ ShownBy(f, q, lf) # Dir => LayerOf(f, q, lf) = {}
      /\ ShownBy(f, q, lf) = Dir =>
           /\ \A b \in Branches : b \in LayerOf(f, q, lf) <=>
                 /\ b \in U /\ f[b].node[q] = Dir
                 /\ \A c \in U : c < b /\ f[c].node[q] = Dir => q \notin f[c].opq
      /\ LayerOf(f, q, lf) \in SUBSET lf
  BY LayerIs
<1> HIDE DEF U, V
<1>6. ShownBy(g, q, lg) = Dir
  <2>1. Leftmost(V) = 0
    BY <1>2, <1>3, ZeroFirst
  <2> QED BY <1>1, <1>2, <1>4, <2>1
<1>7. ASSUME NEW b \in Branches
      PROVE  b \in LayerOf(g, q, lg) <=> b \in LayerOf(f, q, lf) \/ b = 0
  <2>1. CASE b = 0
    <3>1. \A c \in V : ~ (c < 0)
      BY <1>3, ZeroBranch
    <3> QED BY <1>1, <1>2, <1>4, <1>6, <2>1, <3>1
  <2>2. CASE b # 0
    <3>1. b \in LayerOf(g, q, lg) <=>
            /\ b \in U /\ f[b].node[q] = Dir
            /\ \A c \in U : c < b /\ f[c].node[q] = Dir => q \notin f[c].opq
      <4>1. b \in LayerOf(g, q, lg) <=>
                 /\ b \in V /\ g[b].node[q] = Dir
                 /\ \A c \in V : c < b /\ g[c].node[q] = Dir => q \notin g[c].opq
        BY <1>4, <1>6
      <4>2. \A c \in U : g[c] = f[c]
        BY <1>3
      <4> QED BY <1>1, <1>2, <2>2, <4>1, <4>2
    <3>2. CASE ShownBy(f, q, lf) = Dir
      BY <1>5, <2>2, <3>1, <3>2
    <3>3. CASE ShownBy(f, q, lf) = None
      BY <1>5, <2>2, <3>1, <3>3, ValuesAssumption
    <3> QED BY <3>2, <3>3
  <2> QED BY <2>1, <2>2
<1> QED BY <1>4, <1>5, <1>6, <1>7, ZeroBranch

\* The branches g differ from f in the first branch, where the names of M have
\* become directories that hide nothing, and in the names of X, which are
\* closed downwards.
Opens(f, g, M, X) ==
    /\ \A b \in Branches \ {0} : g[b] = f[b]
    /\ X \in SUBSET Paths /\ \A q \in Paths : Parent[q] \in X => q \in X
    /\ \A q \in Paths \ X :
          IF q \in M THEN Opened(f, g, q) /\ View(f)[q] \in {None, Dir}
          ELSE Unchanged(f, g, q)

\* Then that is all that is seen of it, away from X.
LEMMA LayersAfter ==
    ASSUME NEW f \in [Branches -> SoundBranches], NEW g \in [Branches -> SoundBranches],
           NEW M, NEW X, Opens(f, g, M, X)
    PROVE  \A q \in Paths \ X :
              /\ Layers(g)[q] = IF q \in M THEN Layers(f)[q] \cup {0} ELSE Layers(f)[q]
              /\ View(g)[q] = IF q \in M THEN Dir ELSE View(f)[q]
<1> DEFINE Alike(q) == Layers(g)[q] = IF q \in M THEN Layers(f)[q] \cup {0} ELSE Layers(f)[q]
           Bad == {q \in Paths : q \notin X /\ ~Alike(q)}
<1>1. ASSUME NEW q \in Paths \ X, Parent[q] = Root \/ Alike(Parent[q])
      PROVE  Alike(q) /\ View(g)[q] = IF q \in M THEN Dir ELSE View(f)[q]
  <2> DEFINE lf == Layers(f)[Parent[q]]
             lg == Layers(g)[Parent[q]]
  <2>1. /\ lf \in SUBSET Branches /\ Layers(f)[q] = LayerOf(f, q, lf)
        /\ View(f)[q] = ShownBy(f, q, lf)
        /\ lg \in SUBSET Branches /\ Layers(g)[q] = LayerOf(g, q, lg)
        /\ View(g)[q] = ShownBy(g, q, lg)
        /\ Parent[q] \in AllPaths
        /\ Parent[q] = Root => lf = Branches /\ lg = Branches
    BY ViewIs
  <2>2. lg = lf \/ (Parent[q] # Root /\ Parent[q] \in M /\ lg = lf \cup {0})
    BY <1>1, <2>1
  <2>3. Parent[q] # Root => Parent[q] \in Paths \ X
    BY PathsAssumption DEF Opens
  <2>4. ASSUME Parent[q] # Root, Parent[q] \in M
        PROVE  f[0].node[q] = None /\ q \notin f[0].wh
    <3>1. f[0].node[Parent[q]] = None
      BY <2>3, <2>4 DEF Opens, Opened
    <3>2. ~IsDir(f, 0, Parent[q])
      BY <2>4, <3>1, ValuesAssumption DEF IsDir
    <3> QED BY <3>2, InDirectory, ZeroBranch
  <2>5. \A b \in Branches \ {0} : g[b] = f[b]
    BY DEF Opens
  <2>6. CASE q \notin M
    <3>1. Unchanged(f, g, q)
      BY <2>6 DEF Opens
    <3> HIDE DEF lf, lg
    <3>2. ShownBy(g, q, lg) = ShownBy(f, q, lf) /\ LayerOf(g, q, lg) = LayerOf(f, q, lf)
      BY <2>1, <2>2, <2>4, <2>5, <3>1, UnchangedLevel
    <3> QED BY <2>1, <2>6, <3>2
  <2>7. CASE q \in M
    <3>1. Opened(f, g, q) /\ View(f)[q] \in {None, Dir}
      BY <2>7 DEF Opens
    <3>2. 0 \in lg
      <4>1. IsDir(g, 0, Parent[q])
        BY <3>1, InDirectory, ZeroBranch, ValuesAssumption DEF Opened
      <4> QED BY <2>1, <4>1, TopLayer
    <3> HIDE DEF lf, lg
    <3>3. lg = lf \cup {0}
      BY <2>2, <3>2
    <3>4. ShownBy(g, q, lg) = Dir /\ LayerOf(g, q, lg) = LayerOf(f, q, lf) \cup {0}
      BY <2>1, <2>5, <3>1, <3>3, OpenedLevel
    <3> QED BY <2>1, <2>7, <3>4
  <2> QED BY <2>6, <2>7
<1>2. ASSUME NEW q \in Bad PROVE Parent[q] \in Bad
  <2>1. q \in Paths \ X /\ ~Alike(q)
    OBVIOUS
  <2>2. Parent[q] # Root /\ ~Alike(Parent[q])
    BY <1>1, <2>1
  <2>3. Parent[q] \in Paths /\ Parent[q] \notin X
    BY <2>1, <2>2, PathsAssumption DEF Opens
  <2> QED BY <2>2, <2>3
<1>3. Bad = {}
  <2>1. Bad \in SUBSET Paths
    OBVIOUS
  <2> HIDE DEF Bad
  <2> QED BY <1>2, <2>1, NoEndlessClimb
<1>4. \A q \in Paths \ X : Alike(q)
  BY <1>3
<1>5. ASSUME NEW q \in Paths \ X PROVE Parent[q] = Root \/ Alike(Parent[q])
  BY <1>4, PathsAssumption DEF Opens
<1> HIDE DEF Alike
<1>6. \A q \in Paths \ X : Alike(q) /\ View(g)[q] = IF q \in M THEN Dir ELSE View(f)[q]
  BY <1>1, <1>5
<1> QED BY <1>6 DEF Alike

-----------------------------------------------------------------------------
(* Lookups.                                                                *)

\* What a lookup finds in the branches S: what is not hidden, up to an opaque
\* directory or a file that comes first.
LEMMA FoundIs ==
    ASSUME NEW f \in [Branches -> SoundBranches], NEW p \in Paths, NEW S \in SUBSET Branches,
           NEW b \in Branches
    PROVE  LET U == Unhidden(f, p, S)
               ends == WhiteoutIn(f, p, S) \cup OpaqueIn(f, p, S) \cup FirstFileIn(f, p, S)
           IN  b \in FoundIn(f, p, UpTo(S, ends)) <=>
                 /\ b \in U
                 /\ \A c \in U : c < b => /\ ~ (f[c].node[p] = Dir /\ p \in f[c].opq)
                                          /\ f[c].node[p] = Dir \/ \E x \in U : x < c
<1> DEFINE U == Unhidden(f, p, S)
           ends == WhiteoutIn(f, p, S) \cup OpaqueIn(f, p, S) \cup FirstFileIn(f, p, S)
           All == FoundIn(f, p, S)
<1>1. \A x \in All : x \in S /\ p \notin f[x].wh /\ f[x].node[p] # None
  BY DEF FoundIn
<1>2. U \in SUBSET All
  <2>1. \A x \in U : x \in S /\ x =< x /\ f[x].node[p] # None
    BY ZeroBranch DEF Unhidden
  <2>2. \A x \in U : p \notin f[x].wh
    BY <2>1 DEF Unhidden
  <2> QED BY <2>1, <2>2 DEF FoundIn
<1>3. ASSUME NEW x \in S, NEW y \in U, x =< y, f[x].node[p] # None
      PROVE  x \in U /\ x \in All
  <2>1. y \in S /\ \A c \in S : c =< y => p \notin f[c].wh
    BY DEF Unhidden
  <2>2. \A c \in S : c =< x => c =< y
    <3> TAKE c \in S
    <3>1. c \in Int /\ x \in Int /\ y \in Int
      BY <2>1, ZeroBranch
    <3> QED BY <1>3, <3>1
  <2> QED BY <1>3, <2>1, <2>2 DEF Unhidden, FoundIn
<1>4. b \in FoundIn(f, p, UpTo(S, ends)) <=>
        b \in S /\ p \notin f[b].wh /\ f[b].node[p] # None /\ \A e \in ends : b =< e
  BY DEF FoundIn, UpTo
<1>5. ends \in SUBSET S
  BY DEF WhiteoutIn, OpaqueIn, FirstFileIn, FoundIn
<1>6. ASSUME b \in FoundIn(f, p, UpTo(S, ends))
      PROVE  /\ b \in U
             /\ \A c \in U : c < b => /\ ~ (f[c].node[p] = Dir /\ p \in f[c].opq)
                                      /\ f[c].node[p] = Dir \/ \E x \in U : x < c
  <2>1. b \in S /\ p \notin f[b].wh /\ f[b].node[p] # None /\ \A e \in ends : b =< e
    BY <1>4, <1>6
  <2>2. \A e \in ends : ~ (e < b)
    BY <1>5, <2>1, ZeroBranch
  <2>3. \A c \in S : c =< b => p \notin f[c].wh
    <3> SUFFICES ASSUME NEW c \in S, c =< b, p \in f[c].wh PROVE FALSE
      OBVIOUS
    <3>1. c \in ends
      BY DEF WhiteoutIn
    <3>2. c = b
      BY <2>1, <3>1, ZeroBranch
    <3> QED BY <2>1, <3>2
  <2>4. b \in U
    BY <2>1, <2>3 DEF Unhidden
  <2>5. ASSUME NEW c \in U, c < b, f[c].node[p] = Dir, p \in f[c].opq
        PROVE  FALSE
    <3>1. c \in ends
      BY <1>2, <2>5 DEF OpaqueIn
    <3> QED BY <2>2, <2>5, <3>1
  <2>6. ASSUME NEW c \in U, c < b, f[c].node[p] # Dir
        PROVE  \E x \in U : x < c
    <3>1. c \notin FirstFileIn(f, p, S) /\ c \in All
      BY <1>2, <2>2, <2>6
    <3>2. PICK x \in All : ~ (c =< x)
      BY <2>6, <3>1 DEF FirstFileIn
    <3>3. x \in S /\ f[x].node[p] # None /\ x =< c /\ x < c
      <4>1. x \in S /\ c \in S
        BY <1>1, <3>1, <3>2
      <4>2. x \in Int /\ c \in Int
        BY <4>1, ZeroBranch
      <4> QED BY <1>1, <3>2, <4>1, <4>2
    <3> QED BY <1>3, <3>3
  <2> QED BY <2>4, <2>5, <2>6
<1>7. ASSUME b \in U,
             \A c \in U : c < b => /\ ~ (f[c].node[p] = Dir /\ p \in f[c].opq)
                                   /\ f[c].node[p] = Dir \/ \E x \in U : x < c
      PROVE  b \in FoundIn(f, p, UpTo(S, ends))
  <2>1. b \in S /\ p \notin f[b].wh /\ f[b].node[p] # None
    BY <1>1, <1>2, <1>7
  <2> SUFFICES ASSUME NEW e \in ends, ~ (b =< e) PROVE FALSE
    BY <1>4, <2>1
  <2>2. e \in S /\ e =< b /\ e < b
    <3>1. e \in S /\ b \in S
      BY <1>5, <2>1
    <3>2. e \in Int /\ b \in Int
      BY <3>1, ZeroBranch
    <3> QED BY <3>1, <3>2
  <2>3. p \notin f[e].wh
    BY <1>7, <2>2 DEF Unhidden
  <2>4. e \notin WhiteoutIn(f, p, S)
    BY <2>3 DEF WhiteoutIn
  <2>5. CASE e \in OpaqueIn(f, p, S)
    <3>1. e \in All /\ f[e].node[p] = Dir /\ p \in f[e].opq
      BY <2>5 DEF OpaqueIn
    <3>2. e \in U
      BY <1>1, <1>3, <1>7, <2>2, <3>1
    <3> QED BY <1>7, <2>2, <3>1, <3>2
  <2>6. CASE e \in FirstFileIn(f, p, S)
    <3>1. e \in All /\ f[e].node[p] # Dir /\ \A c \in All : e =< c
      BY <2>6 DEF FirstFileIn
    <3>2. e \in U
      BY <1>1, <1>3, <1>7, <2>2, <3>1
    <3>3. PICK x \in U : x < e
      BY <1>7, <2>2, <3>1, <3>2
    <3>4. e =< x /\ x \in S
      BY <1>1, <1>2, <3>1
    <3>5. e \in Int /\ x \in Int
      BY <2>2, <3>4, ZeroBranch
    <3> QED BY <3>3, <3>4, <3>5
  <2> QED BY <2>4, <2>5, <2>6
<1> QED BY <1>6, <1>7

\* The branches in which the dentry d of p leads to a directory.
DirsOf(d, p, f) ==
    {b \in Branches : b =< d.bend /\ d.hid[b] = "live" /\ f[b].node[p] = Dir}

\* A lookup takes what it searches for the layers of the directory, and is right
\* about the name if they are.
LEMMA LookupSees ==
    ASSUME NEW f \in [Branches -> SoundBranches], NEW pd, NEW p \in Paths,
           NEW S, S = Searched(f, pd, p, pd.bstart, pd.bend), pd.bstart \in S,
           NEW d, d = Lookup(f, pd, p)
    PROVE  LET U == Unhidden(f, p, S)
           IN  /\ IsNegative(f, d, p) <=> U = {}
               /\ U # {} => /\ d.bstart = Leftmost(U) /\ d.hid[d.bstart] = "live"
                            /\ \A b \in Branches : d.hid[b] # "dead"
                            /\ DirsOf(d, p, f) = LayerOf(f, p, S)
<1> DEFINE U == Unhidden(f, p, S)
           marks == WhiteoutIn(f, p, S) \cup OpaqueIn(f, p, S)
           ends  == marks \cup FirstFileIn(f, p, S)
           seen  == UpTo(S, ends)
           found == FoundIn(f, p, seen)
           hit   == marks \cap seen
           bend  == IF hit = {} THEN Rightmost(found) ELSE Leftmost(hit)
<1>1. S \in SUBSET Branches
  BY DEF Searched
<1>2. /\ U \in SUBSET S
      /\ U # {} => /\ Leftmost(U) \in U /\ \A c \in U : Leftmost(U) =< c
                   /\ ShownBy(f, p, S) = f[Leftmost(U)].node[p]
      /\ ShownBy(f, p, S) # Dir => LayerOf(f, p, S) = {}
      /\ ShownBy(f, p, S) = Dir =>
            \A b \in Branches : b \in LayerOf(f, p, S) <=>
                  /\ b \in U /\ f[b].node[p] = Dir
                  /\ \A c \in U : c < b /\ f[c].node[p] = Dir => p \notin f[c].opq
      /\ LayerOf(f, p, S) \in SUBSET S
  BY <1>1, LayerIs
<1>3. \A b \in Branches : b \in found <=>
         /\ b \in U
         /\ \A c \in U : c < b => /\ ~ (f[c].node[p] = Dir /\ p \in f[c].opq)
                                  /\ f[c].node[p] = Dir \/ \E x \in U : x < c
  BY <1>1, FoundIs
<1>4. found \in SUBSET seen /\ seen \in SUBSET S /\ \A b \in found : f[b].node[p] # None /\ p \notin f[b].wh
  BY DEF FoundIn, UpTo
<1>5. \A b \in seen, e \in ends : b =< e
  BY DEF UpTo
<1> DEFINE m == Leftmost(U)
<1>6. U # {} => m \in found
  <2> HIDE DEF U, found
  <2>1. ASSUME U # {} PROVE m \in Branches /\ \A c \in U : ~ (c < m)
    <3>1. m \in Branches /\ \A c \in U : m =< c /\ c \in Branches
      BY <1>1, <1>2, <2>1
    <3> HIDE DEF m
    <3> QED BY <3>1, ZeroBranch
  <2> QED BY <1>2, <1>3, <2>1
<1>7. CASE U = {}
  <2>1. IsNegative(f, d, p)
    <3> SUFFICES ASSUME ~IsNegative(f, d, p) PROVE FALSE
      OBVIOUS
    <3>1. d \in GoodDentries /\ Complete(d, p, f, S)
      BY LookupIs
    <3>2. d.bstart \in Branches /\ d.hid[d.bstart] # "null" /\ d.bstart =< d.bstart
      BY <3>1, GoodFields, ZeroBranch
    <3>3. d.bstart \in U
      BY <3>1, <3>2 DEF Complete, Unhidden
    <3> QED BY <1>7, <3>3
  <2> QED BY <1>7, <2>1
<1>8. CASE U # {}
  <2>1. d = [bstart |-> Leftmost(found), bend |-> bend,
             bopaque |-> IF hit = {} THEN -1 ELSE Leftmost(hit), hid |-> LiveIn(found)]
    <3>1. found # {}
      <4> HIDE DEF found, U
      <4> QED BY <1>6, <1>8
    <3> QED BY <3>1 DEF Lookup
  <2>2. found \in SUBSET U /\ found \in SUBSET Branches
    <3> HIDE DEF found, U, seen
    <3> QED BY <1>1, <1>3, <1>4
  <2>3. Leftmost(found) = m
    <3> HIDE DEF found, U
    <3>1. Leftmost(found) \in found /\ Leftmost(found) =< m
      BY <1>6, <1>8, <2>2, LeftmostIsLeast
    <3>2. m =< Leftmost(found) /\ Leftmost(found) \in Branches /\ m \in Branches
      BY <1>2, <1>6, <1>8, <2>2, <3>1
    <3> QED BY <3>1, <3>2, ZeroBranch
  <2>4. \A b \in Branches : d.hid[b] = IF b \in found THEN "live" ELSE "null"
    <3> HIDE DEF found
    <3> QED BY <2>1, LiveInType
  <2>5. d.bstart = m /\ d.bend = bend
    <3> HIDE DEF found, U, bend, m, hit
    <3> QED BY <2>1, <2>3
  <2>6. \A b \in found : b =< bend
    <3>1. CASE hit = {}
      <4> HIDE DEF found, hit
      <4>1. \A b \in found : b =< Rightmost(found)
        BY <2>2, RightmostIsGreatest
      <4> QED BY <3>1, <4>1
    <3>2. CASE hit # {}
      <4>1. Leftmost(hit) \in hit
        <5>1. hit \in SUBSET Branches
          BY <1>1, <1>4
        <5> HIDE DEF hit
        <5> QED BY <3>2, <5>1, LeftmostIsLeast
      <4>2. Leftmost(hit) \in ends
        BY <4>1
      <4> HIDE DEF hit, ends, seen, found
      <4> QED BY <1>4, <1>5, <3>2, <4>2
    <3> QED BY <3>1, <3>2
  <2> HIDE DEF found, U, seen, ends, bend, hit, marks
  <2>7. ~IsNegative(f, d, p)
    <3> HIDE DEF m
    <3>1. m \in Branches /\ d.hid[m] = "live" /\ f[m].node[p] # None /\ p \notin f[m].wh
      BY <1>4, <1>6, <1>8, <2>2, <2>4
    <3> QED BY <3>1 DEF IsNegative
  <2>8. \A b \in Branches : b \in DirsOf(d, p, f) <=> b \in found /\ f[b].node[p] = Dir
    BY <2>4, <2>5, <2>6 DEF DirsOf
  <2>9. ASSUME NEW b \in Branches
        PROVE  b \in DirsOf(d, p, f) <=> b \in LayerOf(f, p, S)
    <3>1. m \in U /\ m \in Branches /\ \A c \in U : m =< c /\ c \in Branches
      BY <1>1, <1>2, <1>8
    <3>2. ShownBy(f, p, S) = f[m].node[p]
      BY <1>2, <1>8
    <3> HIDE DEF m
    <3>3. CASE ShownBy(f, p, S) = Dir
      <4>1. ASSUME b \in LayerOf(f, p, S) PROVE b \in found /\ f[b].node[p] = Dir
        <5>1. /\ b \in U /\ f[b].node[p] = Dir
              /\ \A c \in U : c < b /\ f[c].node[p] = Dir => p \notin f[c].opq
          BY <1>2, <3>3, <4>1
        <5>2. \A c \in U : f[c].node[p] = Dir \/ \E x \in U : x < c
          <6> SUFFICES ASSUME NEW c \in U, f[c].node[p] # Dir PROVE m < c
            BY <3>1
          <6>1. c # m /\ m =< c
            BY <3>1, <3>2, <3>3
          <6> QED BY <3>1, <6>1, ZeroBranch
        <5> QED BY <1>3, <5>1, <5>2
      <4>2. ASSUME b \in found, f[b].node[p] = Dir PROVE b \in LayerOf(f, p, S)
        BY <1>2, <1>3, <3>3, <4>2
      <4> QED BY <2>8, <4>1, <4>2
    <3>4. CASE ShownBy(f, p, S) # Dir
      <4> SUFFICES ASSUME b \in found, f[b].node[p] = Dir PROVE FALSE
        BY <1>2, <2>8, <3>4
      <4>1. b \in U /\ b # m
        BY <2>2, <3>2, <3>4
      <4>2. m < b
        BY <3>1, <4>1, ZeroBranch
      <4>3. \E x \in U : x < m
        BY <1>3, <3>1, <3>2, <3>4, <4>2
      <4> QED BY <3>1, <4>3, ZeroBranch
    <3> QED BY <3>3, <3>4
  <2>10. DirsOf(d, p, f) = LayerOf(f, p, S)
    <3>1. DirsOf(d, p, f) \in SUBSET Branches
      BY DEF DirsOf
    <3> QED BY <1>1, <1>2, <2>9, <3>1
  <2>11. d.bstart = m /\ d.hid[m] = "live" /\ \A b \in Branches : d.hid[b] # "dead"
    <3>1. m \in Branches /\ m \in found
      BY <1>6, <1>8, <2>2
    <3> QED BY <2>4, <2>5, <3>1
  <2> QED BY <1>8, <2>7, <2>10, <2>11 DEF U
<1> QED BY <1>7, <1>8

\* What is seen of the layers l is seen if branches to their right are added.
LEMMA MoreLayers ==
    ASSUME NEW f \in [Branches -> SoundBranches], NEW p \in Paths,
           NEW S \in SUBSET Branches, NEW l \in SUBSET S,
           \A b \in S \ l, c \in l : c < b
    PROVE  /\ ShownBy(f, p, l) # None => ShownBy(f, p, S) = ShownBy(f, p, l)
           /\ LayerOf(f, p, l) \in SUBSET LayerOf(f, p, S)
           /\ \A b \in LayerOf(f, p, S) \ LayerOf(f, p, l), c \in LayerOf(f, p, l) : c < b
<1> DEFINE U == Unhidden(f, p, l)
           V == Unhidden(f, p, S)
<1>1. ASSUME NEW b \in S, NEW c \in l, b =< c PROVE b \in l
  <2> SUFFICES ASSUME c < b PROVE FALSE
    BY <1>1
  <2> QED BY <1>1, ZeroBranch
<1>2. ASSUME NEW b \in l PROVE b \in U <=> b \in V
  <2>1. \A c \in S : c =< b => c \in l
    BY <1>1
  <2> QED BY <2>1 DEF Unhidden
<1>3. /\ U \in SUBSET l
      /\ U # {} => /\ Leftmost(U) \in U /\ \A c \in U : Leftmost(U) =< c
                   /\ ShownBy(f, p, l) = f[Leftmost(U)].node[p]
      /\ ShownBy(f, p, l) = None <=> U = {}
      /\ ShownBy(f, p, l) # Dir => LayerOf(f, p, l) = {}
      /\ ShownBy(f, p, l) = Dir =>
            \A b \in Branches : b \in LayerOf(f, p, l) <=>
                  /\ b \in U /\ f[b].node[p] = Dir
                  /\ \A c \in U : c < b /\ f[c].node[p] = Dir => p \notin f[c].opq
      /\ LayerOf(f, p, l) \in SUBSET l
  <2>1. l \in SUBSET Branches
    OBVIOUS
  <2> QED BY <2>1, LayerIs
<1>4. /\ V \in SUBSET S
      /\ V # {} => /\ Leftmost(V) \in V /\ \A c \in V : Leftmost(V) =< c
                   /\ ShownBy(f, p, S) = f[Leftmost(V)].node[p]
      /\ ShownBy(f, p, S) = Dir =>
            \A b \in Branches : b \in LayerOf(f, p, S) <=>
                  /\ b \in V /\ f[b].node[p] = Dir
                  /\ \A c \in V : c < b /\ f[c].node[p] = Dir => p \notin f[c].opq
      /\ LayerOf(f, p, S) \in SUBSET S
  BY LayerIs
<1> HIDE DEF U, V
<1>5. CASE U = {}
  <2>1. LayerOf(f, p, l) = {} /\ ShownBy(f, p, l) = None
    BY <1>3, <1>5, ValuesAssumption
  <2> QED BY <2>1
<1>6. CASE U # {}
  <2> DEFINE m == Leftmost(U)
             n == Leftmost(V)
  <2>1. m \in U /\ m \in l /\ m \in V /\ \A c \in U : m =< c
    BY <1>2, <1>3, <1>6
  <2>2. V # {} /\ n \in V /\ n \in S /\ \A c \in V : n =< c
    BY <1>4, <2>1
  <2> HIDE DEF m, n
  <2>3. n =< m /\ n \in l /\ n \in U /\ m =< n
    BY <1>1, <1>2, <2>1, <2>2
  <2>4. m = n
    BY <2>1, <2>2, <2>3, ZeroBranch
  <2>5. ShownBy(f, p, S) = ShownBy(f, p, l)
    BY <1>3, <1>4, <1>6, <2>2, <2>4 DEF m, n
  <2>6. CASE ShownBy(f, p, l) # Dir
    BY <1>3, <2>5, <2>6
  <2>7. CASE ShownBy(f, p, l) = Dir
    <3>1. ASSUME NEW b \in l PROVE b \in LayerOf(f, p, l) <=> b \in LayerOf(f, p, S)
      <4>1. \A c \in S : c < b => c \in l
        <5> SUFFICES ASSUME NEW c \in S, c < b PROVE c =< b
          BY <1>1
        <5> QED BY ZeroBranch
      <4>2. b \in Branches /\ \A c \in V : c < b => c \in U
        BY <1>2, <1>4, <4>1
      <4>3. \A c \in U : c \in V
        BY <1>2, <1>3
      <4>4. b \in LayerOf(f, p, l) <=>
              /\ b \in U /\ f[b].node[p] = Dir
              /\ \A c \in U : c < b /\ f[c].node[p] = Dir => p \notin f[c].opq
        BY <1>3, <2>7, <4>2
      <4>5. b \in LayerOf(f, p, S) <=>
              /\ b \in V /\ f[b].node[p] = Dir
              /\ \A c \in V : c < b /\ f[c].node[p] = Dir => p \notin f[c].opq
        BY <1>4, <2>5, <2>7, <4>2
      <4> QED BY <1>2, <4>2, <4>3, <4>4, <4>5
    <3>2. \A b \in LayerOf(f, p, S) \ LayerOf(f, p, l) : b \in S \ l
      BY <1>4, <3>1
    <3>3. LayerOf(f, p, l) \in SUBSET LayerOf(f, p, S) /\ LayerOf(f, p, l) \in SUBSET l
      BY <1>3, <3>1
    <3> QED BY <2>5, <3>2, <3>3
  <2> QED BY <2>6, <2>7
<1> QED BY <1>5, <1>6

-----------------------------------------------------------------------------
(* What the cached dentries show.                                          *)

\* The dentry d of p starts at the object that is to be seen, and leads to the
\* layers of the directory before it leads to any that is hidden.
Shows(d, p, f) ==
    /\ \A b \in Branches : d.hid[b] # "dead"
    /\ View(f)[p] # None => f[d.bstart].node[p] = View(f)[p]
    /\ Layers(f)[p] \in SUBSET DirsOf(d, p, f)
    /\ \A b \in DirsOf(d, p, f) \ Layers(f)[p], c \in Layers(f)[p] : c < b

\* It leads to nothing else, check_empty reads all of it, and it knows of an
\* opaque directory in the first branch.
Agrees(d, p, f) ==
    /\ View(f)[p] # None
    /\ DirsOf(d, p, f) = Layers(f)[p]
    /\ \A b \in DirsOf(d, p, f) : d.bopaque = -1 \/ b =< d.bopaque
    /\ p \in f[0].opq => d.bopaque = 0

Right(d, p, f) == Shows(d, p, f) /\ (MaxPins = 0 => Agrees(d, p, f))

Sees(dc, f) == \A p \in Paths : dc[p] # NoDentry => Right(dc[p], p, f)

\* A dentry stays right if its name stays as it was,
LEMMA RightStill ==
    ASSUME NEW f, NEW g, \A b \in Branches \ {0} : g[b] = f[b],
           NEW p \in Paths, g[0].node[p] = f[0].node[p], p \in g[0].opq <=> p \in f[0].opq,
           View(g)[p] = View(f)[p], Layers(g)[p] = Layers(f)[p],
           NEW d \in GoodDentries, Right(d, p, f)
    PROVE  Right(d, p, g)
<1>1. \A b \in Branches : g[b].node[p] = f[b].node[p]
  OBVIOUS
<1>2. DirsOf(d, p, g) = DirsOf(d, p, f)
  BY <1>1 DEF DirsOf
<1>3. g[d.bstart].node[p] = f[d.bstart].node[p]
  BY <1>1, GoodFields
<1> QED BY <1>2, <1>3 DEF Right, Shows, Agrees

\* or if the directory is made in the first branch and the dentry told.
LEMMA RightOpened ==
    ASSUME NEW f, NEW g, \A b \in Branches \ {0} : g[b] = f[b],
           NEW p \in Paths, g[0].node[p] = Dir, p \notin g[0].opq,
           View(g)[p] = Dir, Layers(g)[p] = Layers(f)[p] \cup {0},
           NEW d \in GoodDentries, d.hid[0] = "null", Right(d, p, f),
           NEW e \in GoodDentries, Bounded(e), e.hid[0] = "live", e.bopaque = d.bopaque,
           \A c \in Branches \ {0} : /\ e.hid[c] = d.hid[c]
                                     /\ d.hid[c] = "live" => (c =< e.bend <=> c =< d.bend)
    PROVE  Right(e, p, g)
<1>1. e.bstart = 0
  BY StartsAt
<1>2. 0 \in Branches /\ 0 =< e.bend /\ (e.bopaque = -1 \/ 0 =< e.bopaque)
  BY GoodFields, ZeroBranch
<1>3. DirsOf(e, p, g) = DirsOf(d, p, f) \cup {0}
  <2>1. \A b \in Branches : b \in DirsOf(e, p, g) <=> b \in DirsOf(d, p, f) \/ b = 0
    BY <1>2 DEF DirsOf
  <2>2. DirsOf(e, p, g) \in SUBSET Branches /\ DirsOf(d, p, f) \in SUBSET Branches
    BY DEF DirsOf
  <2> QED BY <1>2, <2>1, <2>2
<1>4. Shows(e, p, g)
  <2>1. \A b \in Branches : e.hid[b] # "dead"
    BY DEF Right, Shows
  <2>2. g[e.bstart].node[p] = View(g)[p]
    BY <1>1
  <2>3. Layers(g)[p] \in SUBSET DirsOf(e, p, g)
    BY <1>3 DEF Right, Shows
  <2>4. ASSUME NEW b \in DirsOf(e, p, g) \ Layers(g)[p], NEW c \in Layers(g)[p]
        PROVE  c < b
    <3>1. b \in DirsOf(d, p, f) \ Layers(f)[p] /\ b \in Branches /\ b # 0
      BY <1>3 DEF DirsOf
    <3>2. c \in Layers(f)[p] \/ c = 0
      OBVIOUS
    <3> QED BY <3>1, <3>2, ZeroBranch DEF Right, Shows
  <2> QED BY <2>1, <2>2, <2>3, <2>4 DEF Shows
<1>5. ASSUME MaxPins = 0 PROVE Agrees(e, p, g)
  <2>1. Agrees(d, p, f)
    BY <1>5 DEF Right
  <2>2. View(g)[p] # None
    BY ValuesAssumption
  <2>3. \A b \in DirsOf(e, p, g) : e.bopaque = -1 \/ b =< e.bopaque
    BY <1>2, <1>3, <2>1 DEF Agrees
  <2> QED BY <1>3, <2>1, <2>2, <2>3 DEF Agrees
<1> QED BY <1>4, <1>5 DEF Right

\* What a walk searches for a name: the layers of the directory first.
LEMMA ParentSees ==
    ASSUME SoundInv, Sees(dcache, fs), NEW p \in Paths, Reached(p)
    PROVE  LET pd == DentryOf(Parent[p])
               S  == Searched(fs, pd, p, pd.bstart, pd.bend)
               l  == Layers(fs)[Parent[p]]
           IN  /\ S \in SUBSET Branches /\ pd.bstart \in S /\ l \in SUBSET S
               /\ \A b \in S \ l, c \in l : c < b
               /\ MaxPins = 0 => S = l
<1> DEFINE pd == DentryOf(Parent[p])
           S  == Searched(fs, pd, p, pd.bstart, pd.bend)
           l  == Layers(fs)[Parent[p]]
<1>1. S \in SUBSET Branches /\ pd.bstart \in S /\ Bounded(pd) /\ pd \in GoodDentries
  BY ReachedParent DEF Searched
<1>2. CASE Parent[p] = Root
  <2>1. pd = RootDentry
    BY <1>2 DEF DentryOf
  <2>2. S = Branches
    BY <1>2, <2>1, RootSearched
  <2>3. l = Branches
    BY <1>2, ViewIs
  <2> HIDE DEF S, l, pd
  <2>4. l \in SUBSET S /\ (\A b \in S \ l, c \in l : c < b) /\ S = l
    BY <2>2, <2>3
  <2> QED BY <1>1, <2>4 DEF S, l, pd
<1>3. CASE Parent[p] # Root
  <2> DEFINE q == Parent[p]
  <2>1. q \in Paths /\ pd = dcache[q] /\ pd # NoDentry
    BY <1>3, PathsAssumption DEF Reached, DentryOf, Cached
  <2>2. Right(pd, q, fs)
    BY <2>1 DEF Sees
  <2>3. S = DirsOf(pd, q, fs)
    <3> HIDE DEF pd
    <3>1. \A b \in Branches : pd.hid[b] = "live" => pd.bstart =< b
      BY <1>1, GoodFields, ZeroBranch DEF Bounded
    <3>2. \A b \in Branches : IsDir(fs, b, q) <=> fs[b].node[q] = Dir
      BY <1>3 DEF IsDir
    <3> QED BY <3>1, <3>2 DEF Searched, DirsOf
  <2>4. /\ l \in SUBSET S
        /\ \A b \in S \ l, c \in l : c < b
        /\ MaxPins = 0 => S = l
    <3> HIDE DEF S, pd
    <3> QED BY <2>2, <2>3 DEF Right, Shows, Agrees
  <2> QED BY <1>1, <2>4
<1> QED BY <1>2, <1>3

\* A lookup ends at an opaque directory of the first branch.
LEMMA LookupOpaque ==
    ASSUME NEW f \in [Branches -> SoundBranches], NEW pd, NEW p \in Paths,
           NEW S, S = Searched(f, pd, p, pd.bstart, pd.bend), 0 \in S,
           f[0].node[p] = Dir, p \in f[0].opq,
           NEW d, d = Lookup(f, pd, p)
    PROVE  d.bopaque = 0
<1> DEFINE marks == WhiteoutIn(f, p, S) \cup OpaqueIn(f, p, S)
           seen  == UpTo(S, marks \cup FirstFileIn(f, p, S))
           found == FoundIn(f, p, seen)
           hit   == marks \cap seen
           plain == {b \in seen : p \notin f[b].wh}
           first == IF plain = {} THEN Leftmost(hit) ELSE Leftmost(plain)
<1>1. p \notin f[0].wh /\ Dir # None /\ S \in SUBSET Branches /\ \A b \in Branches : 0 =< b
  BY SoundType, ZeroBranch, ValuesAssumption DEF Unambiguous, Searched
<1>2. 0 \in marks
  BY <1>1 DEF OpaqueIn, FoundIn
<1>3. marks \in SUBSET Branches /\ FirstFileIn(f, p, S) \in SUBSET Branches
  BY <1>1 DEF WhiteoutIn, OpaqueIn, FoundIn, FirstFileIn
<1> HIDE DEF marks
<1>4. 0 \in seen
  BY <1>1, <1>3 DEF UpTo
<1>5. 0 \in found
  BY <1>1, <1>4 DEF FoundIn
<1>6. 0 \in hit /\ hit \in SUBSET Branches
  BY <1>2, <1>3, <1>4
<1> HIDE DEF seen, hit
<1>7. Leftmost(hit) = 0
  BY <1>6, ZeroFirst
<1>8. d = IF found # {}
          THEN [bstart  |-> Leftmost(found),
                bend    |-> IF hit = {} THEN Rightmost(found) ELSE Leftmost(hit),
                bopaque |-> IF hit = {} THEN -1 ELSE Leftmost(hit),
                hid     |-> LiveIn(found)]
          ELSE [bstart  |-> first, bend |-> first,
                bopaque |-> IF hit = {} THEN -1 ELSE Leftmost(hit),
                hid     |-> LiveIn({first})]
  BY DEF Lookup, marks, seen, hit
<1> HIDE DEF found, first
<1> QED BY <1>5, <1>6, <1>7, <1>8

\* So a lookup finds what is there, and a right dentry for it.
LEMMA TargetRight ==
    ASSUME SoundInv, Sees(dcache, fs), NEW p \in Paths, Reached(p)
    PROVE  /\ View(fs)[p] # None => Present(p)
           /\ Present(p) => Right(Target(p), p, fs)
<1>1. CASE Cached(p)
  BY <1>1 DEF Present, Absent, Sees, Target, Cached
<1>2. CASE ~Cached(p)
  <2> DEFINE pd == DentryOf(Parent[p])
             S  == Searched(fs, pd, p, pd.bstart, pd.bend)
             l  == Layers(fs)[Parent[p]]
             d  == Lookup(fs, pd, p)
  <2>1. /\ S \in SUBSET Branches /\ pd.bstart \in S /\ l \in SUBSET S
        /\ \A b \in S \ l, c \in l : c < b
        /\ MaxPins = 0 => S = l
    BY ParentSees
  <2>2. S = Searched(fs, pd, p, pd.bstart, pd.bend) /\ d = Lookup(fs, pd, p)
    OBVIOUS
  <2>3. /\ Target(p) = d /\ (Absent(p) <=> IsNegative(fs, d, p))
        /\ Layers(fs)[p] = LayerOf(fs, p, l) /\ View(fs)[p] = ShownBy(fs, p, l)
    BY <1>2, ViewIs DEF Target, Absent
  <2>4. ReadsAll(d)
    BY LookupReadsAll
  <2>5. fs \in [Branches -> SoundBranches]
    BY DEF SoundInv, BranchesSound
  <2> HIDE DEF S, l, d, pd
  <2> DEFINE U == Unhidden(fs, p, S)
  <2>6. /\ IsNegative(fs, d, p) <=> U = {}
        /\ U # {} => /\ d.bstart = Leftmost(U) /\ d.hid[d.bstart] = "live"
                     /\ \A b \in Branches : d.hid[b] # "dead"
                     /\ DirsOf(d, p, fs) = LayerOf(fs, p, S)
    BY <2>1, <2>2, <2>5, LookupSees
  <2>7. /\ ShownBy(fs, p, l) # None => ShownBy(fs, p, S) = ShownBy(fs, p, l)
        /\ LayerOf(fs, p, l) \in SUBSET LayerOf(fs, p, S)
        /\ \A b \in LayerOf(fs, p, S) \ LayerOf(fs, p, l), c \in LayerOf(fs, p, l) : c < b
    BY <2>1, <2>5, MoreLayers
  <2>8. /\ ShownBy(fs, p, S) = None <=> U = {}
        /\ U # {} => ShownBy(fs, p, S) = fs[Leftmost(U)].node[p]
    BY <2>1, <2>5, LayerIs
  <2> HIDE DEF U
  <2>9. ASSUME U # {} PROVE Right(d, p, fs)
    <3>1. Shows(d, p, fs)
      BY <2>3, <2>6, <2>7, <2>8, <2>9 DEF Shows
    <3>2. ASSUME MaxPins = 0 PROVE Agrees(d, p, fs)
      <4>1. \A b \in DirsOf(d, p, fs) : b \in Branches /\ d.hid[b] # "null"
        BY DEF DirsOf
      <4>2. DirsOf(d, p, fs) = Layers(fs)[p] /\ View(fs)[p] # None
        BY <2>1, <2>3, <2>6, <2>8, <2>9, <3>2
      <4>3. ASSUME p \in fs[0].opq PROVE d.bopaque = 0
        <5>1. fs[0].node[p] = Dir
          BY <2>5, <4>3, SoundType, ZeroBranch DEF LowerTree
        <5>2. IsDir(fs, 0, Parent[p]) /\ Parent[p] \in AllPaths
          BY <2>5, <5>1, InDirectory, ZeroBranch, ValuesAssumption, ViewIs
        <5>3. 0 \in l
          BY <2>5, <5>2, TopLayer DEF l
        <5> QED BY <2>1, <2>2, <2>5, <4>3, <5>1, <5>3, LookupOpaque
      <4> QED BY <2>4, <4>1, <4>2, <4>3 DEF Agrees, ReadsAll
    <3> QED BY <3>1, <3>2 DEF Right
  <2> QED BY <2>3, <2>6, <2>7, <2>8, <2>9 DEF Present
<1> QED BY <1>1, <1>2

\* What a walk then finds.
LEMMA FoundIsSeen ==
    ASSUME SoundInv, Sees(dcache, fs), NEW p \in Paths, Reached(p)
    PROVE  /\ View(fs)[p] # None => Found(p) = View(fs)[p]
           /\ MaxPins = 0 => Found(p) = View(fs)[p]
<1> DEFINE d == Target(p)
<1>1. CASE Present(p)
  <2>1. Right(d, p, fs)
    BY <1>1, TargetRight
  <2>2. d \in GoodDentries
    BY <1>1, TargetFits
  <2> HIDE DEF d
  <2>3. Object(fs, d, p) = fs[d.bstart].node[p]
    BY <2>1, <2>2, GoodFields DEF Right, Shows, Object
  <2>4. Found(p) = Object(fs, d, p)
    BY <1>1 DEF Found, Present, d
  <2> QED BY <2>1, <2>3, <2>4 DEF Right, Shows, Agrees
<1>2. CASE ~Present(p)
  <2>1. View(fs)[p] = None
    BY <1>2, TargetRight
  <2>2. Found(p) = None
    BY <1>2 DEF Found, Present
  <2> QED BY <2>1, <2>2
<1> QED BY <1>1, <1>2

-----------------------------------------------------------------------------
(* What a step leaves right.                                               *)

\* What create_parents builds is not there yet in the first branch, and is a
\* directory of the union.
LEMMA MissingIs ==
    ASSUME SoundInv, Family, Sees(dcache, fs), NEW p \in Paths, Reached(p),
           NEW a \in Missing(dcache, p, 0)
    PROVE  /\ a \in Paths /\ a # p /\ a \notin Below(p)
           /\ dcache[a] # NoDentry /\ dcache[a].hid[0] = "null"
           /\ fs[0].node[a] = None /\ a \notin fs[0].wh /\ a \notin fs[0].opq
           /\ View(fs)[a] \in {None, Dir} /\ (MaxPins = 0 => View(fs)[a] = Dir)
<1>1. a \in Above[p] /\ a \in Paths /\ dcache[a] # NoDentry /\ dcache[a].hid[0] = "null"
  BY PathsAssumption, ReachedAncestors DEF SoundInv, Missing
<1>2. a # p /\ a \notin Below(p)
  BY <1>1, PathsAssumption DEF Below
<1>3. /\ dcache[a] \in GoodDentries
      /\ fs[0].node[a] = None /\ a \notin fs[0].wh
  BY <1>1, CachedIs DEF Fits, KnownTop
<1>4. a \notin fs[0].opq
  BY <1>3, SoundType, ZeroBranch, ValuesAssumption DEF SoundInv, BranchesSound, LowerTree
<1>5. Object(fs, dcache[a], a) = Dir
  <2>1. PICK x \in Children(a) : x = p \/ x \in Above[p]
    BY <1>1, ChildOnTheWay
  <2>2. CASE x = p
    BY <1>1, <2>2, PathsAssumption DEF Children, Reached
  <2>3. CASE x \in Above[p]
    <3>1. dcache[x] # NoDentry
      BY <2>3, ReachedAncestors DEF SoundInv
    <3> QED BY <1>1, <3>1 DEF Family, Parents, Passed
  <2> QED BY <2>1, <2>2, <2>3
<1>6. Right(dcache[a], a, fs)
  BY <1>1 DEF Sees
<1>7. Object(fs, dcache[a], a) = fs[dcache[a].bstart].node[a]
  BY <1>3, <1>6, GoodFields DEF Object, Right, Shows
<1>8. View(fs)[a] \in {None, Dir} /\ (MaxPins = 0 => View(fs)[a] = Dir)
  BY <1>5, <1>6, <1>7 DEF Right, Shows, Agrees
<1> QED BY <1>1, <1>2, <1>3, <1>4, <1>8

\* The ancestors that a step on p makes.
Made(p, B) == IF 0 \in B THEN Missing(dcache, p, 0) ELSE {}

\* So what it does to the branches: away from p and what is below,
LEMMA OpensAway ==
    ASSUME SoundInv, OneWritable, Kept, Family, Sees(dcache, fs), NEW p \in Paths, Reached(p),
           NEW B, Moves(p, B), Marks(Tree(p))
    PROVE  Opens(fs, fs', Made(p, B), Tree(p))
<1>1. \A b \in Branches \ {0} : fs'[b] = fs[b]
  BY ZeroBranch DEF Kept, Safe
<1>2. Tree(p) \in SUBSET Paths
  BY DEF Tree, Below
<1>3. ASSUME NEW q \in Paths, Parent[q] \in Tree(p) PROVE q \in Tree(p)
  <2>1. Parent[q] # Root /\ (Parent[q] = p \/ p \in Above[Parent[q]])
    BY <1>3, PathsAssumption DEF Tree, Below
  <2>2. p \in Above[q]
    BY <2>1, PathsAssumption
  <2> QED BY <2>2 DEF Tree, Below
<1>4. ASSUME NEW q \in Paths \ Tree(p)
      PROVE  IF q \in Made(p, B) THEN Opened(fs, fs', q) /\ View(fs)[q] \in {None, Dir}
             ELSE Unchanged(fs, fs', q)
  <2>1. q # p
    BY DEF Tree
  <2>2. fs'[0].node[q] = IF q \in Made(p, B) THEN Dir ELSE fs[0].node[q]
    BY <2>1 DEF Moves, Made
  <2>3. /\ q \in fs'[0].wh <=> q \in fs[0].wh
        /\ q \in fs'[0].opq <=> q \in fs[0].opq
    BY DEF Marks
  <2>4. CASE q \in Made(p, B)
    <3>1. q \in Missing(dcache, p, 0)
      BY <2>4 DEF Made
    <3>2. /\ fs[0].node[q] = None /\ q \notin fs[0].wh /\ q \notin fs[0].opq
          /\ View(fs)[q] \in {None, Dir}
      BY <3>1, MissingIs
    <3> QED BY <2>2, <2>3, <2>4, <3>2 DEF Opened
  <2>5. CASE q \notin Made(p, B)
    BY <2>2, <2>3, <2>5 DEF Unchanged
  <2> QED BY <2>4, <2>5
<1> QED BY <1>1, <1>2, <1>3, <1>4 DEF Opens

\* or altogether, if p stays or becomes a directory that hides nothing.
LEMMA OpensAll ==
    ASSUME SoundInv, OneWritable, Kept, Family, Sees(dcache, fs), NEW p \in Paths, Reached(p),
           NEW B, Moves(p, B), Marks({p}), NEW N \in SUBSET {p},
           IF p \in N THEN Opened(fs, fs', p) /\ View(fs)[p] \in {None, Dir}
           ELSE Unchanged(fs, fs', p)
    PROVE  Opens(fs, fs', Made(p, B) \cup N, {})
<1>1. \A b \in Branches \ {0} : fs'[b] = fs[b]
  BY ZeroBranch DEF Kept, Safe
<1>2. p \notin Made(p, B)
  BY PathsAssumption DEF Made, Missing
<1>4. ASSUME NEW q \in Paths \ {p}
      PROVE  IF q \in Made(p, B) THEN Opened(fs, fs', q) /\ View(fs)[q] \in {None, Dir}
             ELSE Unchanged(fs, fs', q)
  <2>2. fs'[0].node[q] = IF q \in Made(p, B) THEN Dir ELSE fs[0].node[q]
    BY DEF Moves, Made
  <2>3. /\ q \in fs'[0].wh <=> q \in fs[0].wh
        /\ q \in fs'[0].opq <=> q \in fs[0].opq
    BY DEF Marks
  <2>4. CASE q \in Made(p, B)
    <3>1. q \in Missing(dcache, p, 0)
      BY <2>4 DEF Made
    <3>2. /\ fs[0].node[q] = None /\ q \notin fs[0].wh /\ q \notin fs[0].opq
          /\ View(fs)[q] \in {None, Dir}
      BY <3>1, MissingIs
    <3> QED BY <2>2, <2>3, <2>4, <3>2 DEF Opened
  <2>5. CASE q \notin Made(p, B)
    BY <2>2, <2>3, <2>5 DEF Unchanged
  <2> QED BY <2>4, <2>5
<1>5. ASSUME NEW q \in Paths
      PROVE  IF q \in Made(p, B) \cup N THEN Opened(fs, fs', q) /\ View(fs)[q] \in {None, Dir}
             ELSE Unchanged(fs, fs', q)
  BY <1>2, <1>4
<1> QED BY <1>1, <1>5 DEF Opens

\* Then the dentries away from p are right as they are or as create_parents has
\* rewritten them.
LEMMA AwayRight ==
    ASSUME SoundInv, OneWritable, Kept, SoundInv', Family, Sees(dcache, fs),
           NEW p \in Paths, Reached(p), NEW B, Moves(p, B),
           NEW N \in SUBSET {p}, NEW X, Opens(fs, fs', Made(p, B) \cup N, X)
    PROVE  \A q \in Paths \ X : q # p =>
              /\ dcache'[q] # NoDentry => Right(dcache'[q], q, fs')
              /\ MaxPins = 0 => View(fs')[q] = View(fs)[q]
<1> SUFFICES ASSUME NEW q \in Paths \ X, q # p
             PROVE  /\ dcache'[q] # NoDentry => Right(dcache'[q], q, fs')
                    /\ MaxPins = 0 => View(fs')[q] = View(fs)[q]
  OBVIOUS
<1>1. fs \in [Branches -> SoundBranches] /\ fs' \in [Branches -> SoundBranches]
  BY DEF SoundInv, BranchesSound
<1>2. /\ Layers(fs')[q] = IF q \in Made(p, B) THEN Layers(fs)[q] \cup {0} ELSE Layers(fs)[q]
      /\ View(fs')[q] = IF q \in Made(p, B) THEN Dir ELSE View(fs)[q]
  BY <1>1, LayersAfter
<1>3. \A b \in Branches \ {0} : fs'[b] = fs[b]
  BY DEF Opens
<1>4. CASE q \notin Made(p, B)
  <2>1. fs'[0].node[q] = fs[0].node[q] /\ (q \in fs'[0].opq <=> q \in fs[0].opq)
    BY <1>4 DEF Opens, Unchanged
  <2>2. ASSUME dcache'[q] # NoDentry PROVE Right(dcache'[q], q, fs')
    <3>1. dcache[q] # NoDentry /\ dcache'[q] = dcache[q]
      BY <1>4, <2>2, AwayIs DEF Made
    <3>2. dcache[q] \in GoodDentries /\ Right(dcache[q], q, fs)
      BY <3>1, CachedIs DEF Sees
    <3> QED BY <1>2, <1>3, <1>4, <2>1, <3>1, <3>2, RightStill
  <2> QED BY <1>2, <1>4, <2>2
<1>5. CASE q \in Made(p, B)
  <2>1. 0 \in B /\ q \in Missing(dcache, p, 0)
    BY <1>5 DEF Made
  <2>2. dcache[q].hid[0] = "null" /\ dcache[q] # NoDentry /\ (MaxPins = 0 => View(fs)[q] = Dir)
    BY <2>1, MissingIs
  <2>3. ASSUME dcache'[q] # NoDentry PROVE Right(dcache'[q], q, fs')
    <3> DEFINE d == dcache[q]
               e == dcache'[q]
    <3>1. /\ Keeps(d, e) /\ Bounded(e)
          /\ e.bend = d.bend /\ e.bopaque = d.bopaque /\ e.hid[0] = "live"
      BY <2>1, <2>3, AwayIs
    <3>2. d \in GoodDentries /\ Right(d, q, fs)
      BY <2>2, CachedIs DEF Sees
    <3>3. e \in GoodDentries
      BY <2>3 DEF SoundInv, Inv, Caches
    <3>4. fs'[0].node[q] = Dir /\ q \notin fs'[0].opq
      BY <1>5 DEF Opens, Opened
    <3>5. View(fs')[q] = Dir /\ Layers(fs')[q] = Layers(fs)[q] \cup {0}
      BY <1>2, <1>5
    <3>6. d.hid[0] = "null"
      BY <2>2
    <3> HIDE DEF d, e
    <3>7. Right(e, q, fs')
      BY <1>3, <3>1, <3>2, <3>3, <3>4, <3>5, <3>6, RightOpened DEF Keeps
    <3> QED BY <3>7 DEF e
  <2> QED BY <1>2, <1>5, <2>2, <2>3
<1> QED BY <1>4, <1>5

\* No step is kept from making parents in the first branch.
LEMMA NeverBlocked ==
    ASSUME SoundInv, Family, Sees(dcache, fs), NEW p \in Paths, Reached(p)
    PROVE  ~NoParent(fs, dcache, p, 0)
<1> SUFFICES ASSUME NoParent(fs, dcache, p, 0) PROVE FALSE
  OBVIOUS
<1>1. PICK a \in Above[p] : dcache[a].hid[0] = "dead"
  BY BlockedIs DEF Blocked
<1>2. a \in Paths /\ dcache[a] # NoDentry
  BY PathsAssumption, ReachedAncestors DEF SoundInv
<1> QED BY <1>1, <1>2, ZeroBranch DEF Sees, Right, Shows

\* A step on p after which nothing is seen below p that is still cached.
LEMMA ShutSees ==
    ASSUME SoundInv, OneWritable, Kept, SoundInv', Family, Sees(dcache, fs),
           NEW p \in Paths, Reached(p), NEW B, Moves(p, B), Marks(Tree(p)),
           dcache'[p] # NoDentry => Right(dcache'[p], p, fs'),
           \A q \in Below(p) : dcache'[q] # NoDentry =>
                MaxPins # 0 /\ View(fs')[q] = None /\ Layers(fs')[q] = {}
    PROVE  /\ Sees(dcache', fs')
           /\ MaxPins = 0 => \A q \in Paths \ Tree(p) : View(fs')[q] = View(fs)[q]
<1>1. Opens(fs, fs', Made(p, B), Tree(p))
  BY OpensAway
<1> DEFINE N == {}
<1>2. Opens(fs, fs', Made(p, B) \cup N, Tree(p)) /\ N \in SUBSET {p}
  <2>1. Made(p, B) \cup N = Made(p, B)
    OBVIOUS
  <2> QED BY <1>1, <2>1
<1> HIDE DEF N
<1>3. \A q \in Paths \ Tree(p) : q # p =>
              /\ dcache'[q] # NoDentry => Right(dcache'[q], q, fs')
              /\ MaxPins = 0 => View(fs')[q] = View(fs)[q]
  <2> DEFINE X == Tree(p)
  <2>1. Opens(fs, fs', Made(p, B) \cup N, X)
    BY <1>2
  <2> HIDE DEF X
  <2>2. \A q \in Paths \ X : q # p =>
              /\ dcache'[q] # NoDentry => Right(dcache'[q], q, fs')
              /\ MaxPins = 0 => View(fs')[q] = View(fs)[q]
    <3>1. /\ SoundInv /\ OneWritable /\ Kept /\ SoundInv' /\ Family /\ Sees(dcache, fs)
          /\ p \in Paths /\ Reached(p) /\ Moves(p, B) /\ N \in SUBSET {p}
      BY <1>2
    <3> QED BY ONLY <2>1, <3>1, AwayRight
  <2> QED BY <2>2 DEF X
<1>4. ASSUME NEW q \in Below(p), dcache'[q] # NoDentry PROVE Right(dcache'[q], q, fs')
  <2>1. q \in Paths /\ p \in Above[q] /\ q # p
    BY PathsAssumption DEF Below
  <2>2. q \notin Missing(dcache, p, 0)
    BY <2>1, PathsAssumption DEF Missing
  <2>3. dcache[q] # NoDentry /\ dcache'[q] = dcache[q]
    BY <1>4, <2>1, <2>2, AwayIs
  <2>4. \A b \in Branches : dcache'[q].hid[b] # "dead"
    BY <2>1, <2>3 DEF Sees, Right, Shows
  <2>5. MaxPins # 0 /\ View(fs')[q] = None /\ Layers(fs')[q] = {}
    BY <1>4
  <2> QED BY <2>4, <2>5 DEF Right, Shows
<1>5. \A q \in Paths : q \notin Tree(p) \/ q = p \/ q \in Below(p)
  BY DEF Tree
<1>6. p \in Tree(p)
  BY DEF Tree
<1>7. Sees(dcache', fs')
  BY <1>3, <1>4, <1>5 DEF Sees
<1> QED BY <1>3, <1>6, <1>7

\* A new object and its dentry, which has a pointer in the first branch only.
LEMMA NewRight ==
    ASSUME NEW f \in [Branches -> SoundBranches], NEW p \in Paths,
           NEW d, d.bstart = 0, d.hid[0] = "live",
           \A b \in Branches \ {0} : d.hid[b] = "null",
           \/ f[0].node[p] \in Values
           \/ f[0].node[p] = Dir /\ p \in f[0].opq /\ d.bend = 0 /\ d.bopaque = 0
    PROVE  /\ Right(d, p, f) /\ View(f)[p] = f[0].node[p]
           /\ f[0].node[p] = Dir => Layers(f)[p] = {0}
<1> DEFINE n == f[0].node[p]
<1>1. n # None /\ (n \in Values => n # Dir)
  BY ValuesAssumption
<1>2. /\ View(f)[p] = n
      /\ n = Dir /\ p \in f[0].opq => Layers(f)[p] = {0}
  BY <1>1, TopDecides
<1>3. n # Dir => Layers(f)[p] = {}
  BY <1>2, NoLayers
<1> HIDE DEF n
<1>4. \A b \in DirsOf(d, p, f) : b = 0 /\ n = Dir
  BY DEF DirsOf, n
<1>5. n = Dir => 0 \in DirsOf(d, p, f) /\ Layers(f)[p] = {0} /\ d.bopaque = 0
  BY <1>1, <1>2, ZeroBranch DEF DirsOf, n
<1>6. DirsOf(d, p, f) = Layers(f)[p]
  BY <1>3, <1>4, <1>5
<1>7. Shows(d, p, f)
  <2>1. \A b \in Branches : d.hid[b] # "dead"
    BY ZeroBranch
  <2>2. f[d.bstart].node[p] = View(f)[p]
    BY <1>2 DEF n
  <2> QED BY <1>6, <2>1, <2>2 DEF Shows
<1>8. Agrees(d, p, f)
  <2>1. \A b \in DirsOf(d, p, f) : b =< d.bopaque
    BY <1>4, <1>5
  <2>2. p \in f[0].opq => d.bopaque = 0
    BY <1>5, SoundType, ZeroBranch DEF LowerTree, n
  <2> QED BY <1>1, <1>2, <1>6, <2>1, <2>2 DEF Agrees
<1> QED BY <1>2, <1>5, <1>7, <1>8 DEF Right, n

\* A step after which p is seen as before, or as the directory that it has
\* become part of.
LEMMA AllAfter ==
    ASSUME SoundInv, OneWritable, Kept, SoundInv', Family, Sees(dcache, fs),
           NEW p \in Paths, Reached(p), NEW B, Moves(p, B), Marks({p}), NEW N \in SUBSET {p},
           IF p \in N THEN Opened(fs, fs', p) /\ View(fs)[p] \in {None, Dir}
           ELSE Unchanged(fs, fs', p)
    PROVE  /\ Opens(fs, fs', Made(p, B) \cup N, {})
           /\ Layers(fs')[p] = IF p \in N THEN Layers(fs)[p] \cup {0} ELSE Layers(fs)[p]
           /\ View(fs')[p] = IF p \in N THEN Dir ELSE View(fs)[p]
<1> DEFINE M == Made(p, B) \cup N
           X == {}
<1>1. Opens(fs, fs', M, X)
  BY OpensAll
<1>2. fs \in [Branches -> SoundBranches] /\ fs' \in [Branches -> SoundBranches]
  BY DEF SoundInv, BranchesSound
<1>3. p \in M <=> p \in N
  BY PathsAssumption DEF Made, Missing
<1>4. p \in Paths \ X
  OBVIOUS
<1> HIDE DEF M, X
<1>5. /\ Layers(fs')[p] = IF p \in M THEN Layers(fs)[p] \cup {0} ELSE Layers(fs)[p]
      /\ View(fs')[p] = IF p \in M THEN Dir ELSE View(fs)[p]
  <2>1. \A q \in Paths \ X :
          /\ Layers(fs')[q] = IF q \in M THEN Layers(fs)[q] \cup {0} ELSE Layers(fs)[q]
          /\ View(fs')[q] = IF q \in M THEN Dir ELSE View(fs)[q]
    BY ONLY <1>1, <1>2, LayersAfter
  <2> QED BY <1>4, <2>1
<1>6. Opens(fs, fs', Made(p, B) \cup N, {})
  BY <1>1 DEF M, X
<1> QED BY <1>3, <1>5, <1>6

LEMMA AllSees ==
    ASSUME SoundInv, OneWritable, Kept, SoundInv', Family, Sees(dcache, fs),
           NEW p \in Paths, Reached(p), NEW B, Moves(p, B), NEW N \in SUBSET {p},
           Opens(fs, fs', Made(p, B) \cup N, {}),
           dcache'[p] # NoDentry => Right(dcache'[p], p, fs')
    PROVE  /\ Sees(dcache', fs')
           /\ MaxPins = 0 => \A q \in Paths \ {p} : View(fs')[q] = View(fs)[q]
<1> DEFINE X == {}
<1>1. /\ SoundInv /\ OneWritable /\ Kept /\ SoundInv' /\ Family /\ Sees(dcache, fs)
      /\ p \in Paths /\ Reached(p) /\ Moves(p, B) /\ N \in SUBSET {p}
      /\ Opens(fs, fs', Made(p, B) \cup N, X)
  OBVIOUS
<1>2. \A q \in Paths : q \in Paths \ X
  OBVIOUS
<1> HIDE DEF X
<1>3. \A q \in Paths \ X : q # p =>
              /\ dcache'[q] # NoDentry => Right(dcache'[q], q, fs')
              /\ MaxPins = 0 => View(fs')[q] = View(fs)[q]
  BY ONLY <1>1, AwayRight
<1>4. Sees(dcache', fs')
  BY <1>2, <1>3 DEF Sees
<1> QED BY <1>2, <1>3, <1>4

\* Nothing is cached below a name that was not.
LEMMA NoneBelow ==
    ASSUME SoundInv, NEW p \in Paths, Reached(p), NEW B, Moves(p, B), dcache[p] = NoDentry
    PROVE  \A q \in Below(p) : dcache'[q] = NoDentry
<1> SUFFICES ASSUME NEW q \in Below(p), dcache'[q] # NoDentry PROVE FALSE
  OBVIOUS
<1>1. q \in Paths \ {p} /\ p \in Above[q]
  BY PathsAssumption DEF Below
<1>2. dcache[q] # NoDentry
  BY <1>1, AwayIs
<1> QED BY <1>1, <1>2, CachedIs

\* The view is the old one but for p, which is v.
ViewPut(p, v) == \A q \in Paths : View(fs')[q] = IF q = p THEN v ELSE View(fs)[q]

-----------------------------------------------------------------------------
(* The steps.                                                              *)

\* An object is made: nothing was to be seen there, and it is.
LEMMA CreateDoneSees ==
    ASSUME SoundInv, OneWritable, Kept, SoundInv', Family, Sees(dcache, fs),
           NEW p \in Paths, Reached(p), Absent(p), Grown(p), Marks(Tree(p)),
           NEW d, d = dcache'[p], d.bstart = 0, d.hid[0] = "live",
           \A b \in Branches \ {0} : d.hid[b] = "null",
           NEW n, n = fs'[0].node[p],
           n \in Values \/ (n = Dir /\ p \in fs'[0].opq /\ d.bend = 0 /\ d.bopaque = 0)
    PROVE  Sees(dcache', fs') /\ View(fs)[p] = None /\ (MaxPins = 0 => ViewPut(p, n))
<1>1. dcache[p] = NoDentry /\ fs[0].node[p] = None
  BY AbsentTop
<1>2. PICK B : Moves(p, B)
  BY DEF Grown
<1>3. fs \in [Branches -> SoundBranches] /\ fs' \in [Branches -> SoundBranches]
  BY DEF SoundInv, BranchesSound
<1>4. /\ Right(d, p, fs') /\ View(fs')[p] = n
      /\ n = Dir => Layers(fs')[p] = {0}
  BY <1>3, NewRight
<1>5. View(fs)[p] = None
  BY TargetRight DEF Present
<1>6. \A q \in Below(p) : dcache'[q] = NoDentry
  BY <1>1, <1>2, NoneBelow
<1>7. /\ Sees(dcache', fs')
      /\ MaxPins = 0 => \A q \in Paths \ Tree(p) : View(fs')[q] = View(fs)[q]
  BY <1>2, <1>4, <1>6, ShutSees
<1>8. \A q \in Below(p) : View(fs)[q] = None
  BY <1>3, <1>5, NothingBelowOther, ValuesAssumption
<1>9. \A q \in Below(p) : View(fs')[q] = None
  <2>1. CASE n # Dir
    BY <1>3, <1>4, <2>1, NothingBelowOther
  <2>2. CASE n = Dir
    <3>1. ASSUME NEW c \in Children(p) PROVE View(fs')[c] = None
      <4>1. c \in Paths \ {p} /\ Parent[c] = p
        BY PathsAssumption DEF Children
      <4>2. c \notin Missing(dcache, p, 0)
        <5>1. p \in Above[c]
          BY <4>1, PathsAssumption
        <5> QED BY <4>1, <5>1, PathsAssumption DEF Missing
      <4>3. fs[0].node[c] = None
        BY <1>1, NoChildren, ValuesAssumption
      <4>4. fs'[0].node[c] = None
        BY <1>2, <4>1, <4>2, <4>3 DEF Moves
      <4>5. View(fs')[c] = ShownBy(fs', c, {0})
        <5>1. View(fs')[c] = ShownBy(fs', c, Layers(fs')[Parent[c]])
          BY <4>1, ViewIs
        <5> QED BY <1>4, <2>2, <4>1, <5>1
      <4> DEFINE U == Unhidden(fs', c, {0})
      <4>6. {0} \in SUBSET Branches
        BY ZeroBranch
      <4>7. /\ U \in SUBSET {0} /\ \A b \in U : fs'[b].node[c] # None
            /\ ShownBy(fs', c, {0}) = None <=> U = {}
        BY <1>3, <4>1, <4>6, LayerIs
      <4> HIDE DEF U
      <4>8. U = {}
        BY <4>4, <4>7
      <4> QED BY <4>5, <4>7, <4>8
    <3> QED BY <1>3, <3>1, NothingBelow
  <2> QED BY <2>1, <2>2
<1>10. \A q \in Paths : q \notin Tree(p) \/ q = p \/ q \in Below(p)
  BY DEF Tree
<1>11. p \notin Below(p)
  BY PathsAssumption DEF Below
<1>12. MaxPins = 0 => ViewPut(p, n)
  BY <1>4, <1>7, <1>8, <1>9, <1>10, <1>11 DEF ViewPut, Tree
<1> QED BY <1>5, <1>7, <1>12

\* It is not made: what is cached stays right, whether or not the whiteout is
\* gone; and if it is not, what is seen stays.
LEMMA CreateFailsSees ==
    ASSUME SoundInv, OneWritable, Kept, SoundInv', Family, Sees(dcache, fs),
           NEW p \in Paths, Reached(p), Absent(p), Grown(p), Marks({p}),
           dcache'[p] = NoDentry, fs'[0].node[p] = None
    PROVE  /\ Sees(dcache', fs') /\ View(fs)[p] = None
           /\ MaxPins = 0 /\ Marks({}) => ViewPut(p, None)
<1>1. dcache[p] = NoDentry /\ fs[0].node[p] = None
  BY AbsentTop
<1>2. PICK B : Moves(p, B)
  BY DEF Grown
<1>3. View(fs)[p] = None
  BY TargetRight DEF Present
<1>4. \A q \in Below(p) : dcache'[q] = NoDentry
  BY <1>1, <1>2, NoneBelow
<1>5. Marks(Tree(p))
  BY DEF Marks, Tree
<1>6. Sees(dcache', fs')
  BY <1>2, <1>4, <1>5, ShutSees
<1>7. ASSUME MaxPins = 0, Marks({}) PROVE ViewPut(p, None)
  <2> DEFINE N == {}
  <2>1. Unchanged(fs, fs', p)
    BY <1>1, <1>7 DEF Unchanged, Marks
  <2>2. N \in SUBSET {p} /\ p \notin N
    OBVIOUS
  <2> HIDE DEF N
  <2>3. /\ Opens(fs, fs', Made(p, B) \cup N, {})
        /\ View(fs')[p] = View(fs)[p]
    BY <1>2, <2>1, <2>2, AllAfter
  <2>4. \A q \in Paths \ {p} : View(fs')[q] = View(fs)[q]
    BY <1>2, <1>7, <2>2, <2>3, AllSees
  <2> QED BY <1>3, <2>3, <2>4 DEF ViewPut
<1> QED BY <1>3, <1>6, <1>7

\* What a user is told of a call that puts v at p, and what it does.
ViewStays == \A q \in Paths : View(fs')[q] = View(fs)[q]

Does(op, p, v) ==
    \/ Done(op, p, "ok") /\ ViewPut(p, v)
    \/ ViewStays /\ \E ret \in Results \ {"ok"} : Done(op, p, ret)

LEMMA CreationSees ==
    ASSUME SoundInv, OneWritable, Kept, Family, Sees(dcache, fs),
           NEW p \in Paths, Reached(p), Absent(p), NEW op, NEW n \in Values \cup {Dir},
           NEW f \in Unions, f[0].node = fs[0].node, f[0].wh = fs[0].wh \ {p},
           f[0].opq = IF n = Dir THEN fs[0].opq \cup {p} ELSE fs[0].opq,
           NEW d, Bounded(d), d.bstart = 0, d.hid[0] = "live",
           \A b \in Branches \ {0} : d.hid[b] = "null",
           n = Dir => d.bend = 0 /\ d.bopaque = 0,
           NEW g \in {fs, WhiteoutGone(Target(p), p)}, NEW fault,
           \/ CreateDone(op, Target(p), p, 0, f, n, d, "ok")
           \/ CreateFails(op, Target(p), p, 0, g, fault)
    PROVE  /\ Sees(dcache', fs')
           /\ MaxPins = 0 /\ (g = fs \/ fault \notin Faults) =>
                View(fs)[p] = None /\ Does(op, p, n)
<1>1. /\ fs[0].node[p] = None /\ fs \in Unions
      /\ LET h == WhiteoutGone(Target(p), p)
         IN  /\ h \in Unions /\ h[0].node = fs[0].node /\ h[0].opq = fs[0].opq
             /\ h[0].wh = fs[0].wh \ {p}
  BY AbsentTop DEF SoundInv, Inv
<1>2. p \notin fs[0].opq /\ fs[0].wh \subseteq Paths
  <2>1. fs[0] \in SoundBranches /\ fs[0] \in BranchStates
    BY ZeroBranch DEF SoundInv, BranchesSound, Inv, Unions
  <2> QED BY <1>1, <2>1, SoundType, ValuesAssumption DEF LowerTree, BranchStates
<1>3. CASE CreateDone(op, Target(p), p, 0, f, n, d, "ok")
  <2>1. n \in Nodes
    BY DEF Nodes
  <2>2. /\ SoundInv' /\ Grown(p) /\ fs'[0].node[p] = n /\ dcache'[p] = d
        /\ fs'[0].wh = f[0].wh /\ fs'[0].opq = f[0].opq
    <3>1. /\ f[0].wh \subseteq fs[0].wh \ {p} /\ f[0].opq \subseteq fs[0].opq \cup {p}
          /\ p \in f[0].opq => n = Dir
      BY <1>2
    <3>2. d.hid[0] # "null"
      OBVIOUS
    <3> QED BY <1>3, <2>1, <3>1, <3>2, CreateDoneSound
  <2>3. Marks(Tree(p))
    <3>1. p \in Tree(p)
      BY DEF Tree
    <3> QED BY <2>2, <3>1 DEF Marks
  <2>4. n \in Values \/ (n = Dir /\ p \in fs'[0].opq /\ d.bend = 0 /\ d.bopaque = 0)
    BY <2>2
  <2>5. Sees(dcache', fs') /\ View(fs)[p] = None /\ (MaxPins = 0 => ViewPut(p, n))
    BY <2>2, <2>3, <2>4, CreateDoneSees
  <2> QED BY <1>3, <2>5 DEF Does, CreateDone
<1>4. CASE CreateFails(op, Target(p), p, 0, g, fault)
  <2>1. /\ g \in Unions /\ g[0].node = fs[0].node /\ g[0].wh \subseteq fs[0].wh
        /\ g[0].opq = fs[0].opq
    BY <1>1
  <2>2. /\ SoundInv' /\ Grown(p) /\ fs'[0].node[p] = None /\ dcache'[p] = NoDentry
        /\ fs'[0].wh = g[0].wh /\ fs'[0].opq = g[0].opq
    BY <1>4, <2>1, CreateFailsSound
  <2>3. Marks({p}) /\ (g = fs => Marks({}))
    BY <1>1, <2>1, <2>2 DEF Marks
  <2>4. /\ Sees(dcache', fs') /\ View(fs)[p] = None
        /\ MaxPins = 0 /\ Marks({}) => ViewPut(p, None)
    BY <2>2, <2>3, CreateFailsSees
  <2>5. ASSUME fault \notin Faults PROVE FALSE
    <3>1. NoParent(fs, dcache, p, 0)
      BY <1>4, <2>5, ZeroBranch DEF CreateFails, Usable
    <3> QED BY <3>1, NeverBlocked
  <2>6. MaxPins = 0 /\ (g = fs \/ fault \notin Faults) => ViewStays
    BY <2>3, <2>4, <2>5 DEF ViewPut, ViewStays
  <2>7. \E ret \in Results \ {"ok"} : Done(op, p, ret)
    BY <1>4 DEF CreateFails, Results
  <2> QED BY <2>4, <2>6, <2>7 DEF Does
<1> QED BY <1>3, <1>4

\* Where it is made, a directory is seen.
LEMMA ParentSeen ==
    ASSUME SoundInv, Sees(dcache, fs), MaxPins = 0, NEW p \in Paths, Reached(p)
    PROVE  Parent[p] = Root \/ View(fs)[Parent[p]] = Dir
<1> SUFFICES ASSUME Parent[p] # Root PROVE View(fs)[Parent[p]] = Dir
  OBVIOUS
<1> DEFINE q == Parent[p]
           d == dcache[q]
<1>1. q \in Paths /\ d # NoDentry /\ Object(fs, d, q) = Dir
  BY PathsAssumption DEF Reached, Cached
<1>2. Right(d, q, fs) /\ d \in GoodDentries
  BY <1>1, CachedIs DEF Sees
<1> HIDE DEF d, q
<1>3. Object(fs, d, q) = fs[d.bstart].node[q]
  BY <1>2, GoodFields DEF Object, Right, Shows
<1>4. View(fs)[q] = Dir
  BY <1>1, <1>2, <1>3 DEF Right, Shows, Agrees
<1> QED BY <1>4 DEF q

\* create, mknod, symlink and mkdir.
LEMMA CreateSees ==
    ASSUME SoundInv, OneWritable, Kept, Family, Sees(dcache, fs), oops' = FALSE,
           NEW p \in Paths, unionfs_create(p)
    PROVE  Sees(dcache', fs') /\ (MaxPins = 0 => View(fs)[p] = None /\ Does("create", p, Empty))
<1> DEFINE f == WhiteoutGone(Target(p), p)
           d == Created(Target(p), p, 0)
<1>1. Reached(p) /\ Absent(p) /\ Empty # Dir /\ Empty \in Values \cup {Dir}
  BY ValuesAssumption DEF unionfs_create
<1>2. /\ f \in Unions /\ f[0].node = fs[0].node /\ f[0].opq = fs[0].opq
      /\ f[0].wh = fs[0].wh \ {p} /\ CreateBranch(Target(p), p) = 0
      /\ Bounded(d) /\ d.bstart = 0 /\ d.hid[0] = "live" /\ \A b \in Branches \ {0} : d.hid[b] = "null"
  BY <1>1, AbsentTop
<1>3. \/ CreateDone("create", Target(p), p, 0, f, Empty, d, "ok")
      \/ CreateFails("create", Target(p), p, 0, fs, "create")
  BY <1>2 DEF unionfs_create, Crashes
<1> HIDE DEF d, f
<1> QED BY <1>1, <1>2, <1>3, CreationSees

LEMMA NewNodeSees ==
    ASSUME SoundInv, OneWritable, Kept, Family, Sees(dcache, fs), oops' = FALSE,
           NEW p \in Paths, NEW op, NEW v \in Values, NewNode(op, p, v)
    PROVE  /\ Sees(dcache', fs')
           /\ MaxPins = 0 /\ "mknod" \notin Faults => View(fs)[p] = None /\ Does(op, p, v)
<1> DEFINE f == WhiteoutGone(Target(p), p)
           d == Created(Target(p), p, 0)
<1>1. Reached(p) /\ Absent(p) /\ v # Dir /\ v \in Values \cup {Dir}
  BY ValuesAssumption DEF NewNode
<1>2. /\ f \in Unions /\ f[0].node = fs[0].node /\ f[0].opq = fs[0].opq
      /\ f[0].wh = fs[0].wh \ {p} /\ CreateBranch(Target(p), p) = 0
      /\ Bounded(d) /\ d.bstart = 0 /\ d.hid[0] = "live" /\ \A b \in Branches \ {0} : d.hid[b] = "null"
  BY <1>1, AbsentTop
<1>3. \/ CreateDone(op, Target(p), p, 0, f, v, d, "ok")
      \/ CreateFails(op, Target(p), p, 0, f, "mknod")
  BY <1>2 DEF NewNode, Crashes
<1>4. f \in {fs, WhiteoutGone(Target(p), p)}
  OBVIOUS
<1> HIDE DEF d, f
<1>5. f[0].opq = IF v = Dir THEN fs[0].opq \cup {p} ELSE fs[0].opq
  BY <1>1, <1>2
<1>6. /\ Sees(dcache', fs')
      /\ MaxPins = 0 /\ (f = fs \/ "mknod" \notin Faults) => View(fs)[p] = None /\ Does(op, p, v)
  BY <1>1, <1>2, <1>3, <1>4, <1>5, CreationSees
<1> QED BY <1>6

LEMMA MkdirSees ==
    ASSUME SoundInv, OneWritable, Kept, Family, Sees(dcache, fs), oops' = FALSE,
           "opaque" \notin Faults, NEW p \in Paths, unionfs_mkdir(p)
    PROVE  /\ Sees(dcache', fs')
           /\ MaxPins = 0 /\ "mknod" \notin Faults => View(fs)[p] = None /\ Does("mkdir", p, Dir)
<1> DEFINE f == WhiteoutGone(Target(p), p)
           g == AddOpaque(f, 0, p)
           c == Created(Target(p), p, 0)
           d == EndingAt(c, 0, 0)
<1>1. Reached(p) /\ Absent(p) /\ Dir \in Values \cup {Dir}
  BY DEF unionfs_mkdir
<1>2. /\ f \in Unions /\ f[0].node = fs[0].node /\ f[0].opq = fs[0].opq
      /\ f[0].wh = fs[0].wh \ {p} /\ CreateBranch(Target(p), p) = 0
      /\ c.bstart = 0 /\ c.hid[0] = "live" /\ \A b \in Branches \ {0} : c.hid[b] = "null"
  BY <1>1, AbsentTop
<1>3. \/ CreateDone("mkdir", Target(p), p, 0, g, Dir, d, "ok")
      \/ CreateFails("mkdir", Target(p), p, 0, f, "mknod")
  BY <1>2 DEF unionfs_mkdir, Crashes
<1>4. f \in {fs, WhiteoutGone(Target(p), p)}
  OBVIOUS
<1> HIDE DEF c, f
<1>5. /\ g \in Unions /\ g[0].node = fs[0].node /\ g[0].wh = fs[0].wh \ {p}
      /\ g[0].opq = fs[0].opq \cup {p}
  <2>1. 0 \in Writable
    BY BranchAssumption
  <2>2. g \in Unions
    BY <1>2, <2>1, LowerWrites DEF Nodes
  <2>3. /\ g[0].node = f[0].node /\ g[0].wh = f[0].wh /\ g[0].opq = f[0].opq \cup {p}
    BY <1>2, WriteIs
  <2> HIDE DEF g
  <2> QED BY <1>2, <2>2, <2>3
<1>6. /\ Bounded(d) /\ d.bstart = 0 /\ d.hid[0] = "live"
      /\ \A b \in Branches \ {0} : d.hid[b] = "null"
      /\ d.bend = 0 /\ d.bopaque = 0
  <2>1. \A m \in Branches : ~ (m < 0)
    BY ZeroBranch
  <2> QED BY <1>2, <2>1 DEF EndingAt, Bounded
<1> HIDE DEF d, g
<1>7. /\ Sees(dcache', fs')
      /\ MaxPins = 0 /\ (f = fs \/ "mknod" \notin Faults) => View(fs)[p] = None /\ Does("mkdir", p, Dir)
  BY <1>1, <1>3, <1>4, <1>5, <1>6, CreationSees
<1> QED BY <1>7

\* What a user sees of a name is what its dentry is taken for.
LEMMA TargetSeen ==
    ASSUME SoundInv, Sees(dcache, fs), MaxPins = 0, NEW p \in Paths, Reached(p), Present(p)
    PROVE  /\ Agrees(Target(p), p, fs) /\ View(fs)[p] = Object(fs, Target(p), p)
           /\ Shows(Target(p), p, fs)
<1> DEFINE d == Target(p)
<1>1. Right(d, p, fs) /\ d \in GoodDentries
  BY TargetRight, TargetFits
<1> HIDE DEF d
<1>2. Object(fs, d, p) = fs[d.bstart].node[p]
  BY <1>1, GoodFields DEF Object, Right, Shows
<1>3. Agrees(d, p, fs) /\ View(fs)[p] = Object(fs, d, p) /\ Shows(d, p, fs)
  BY <1>1, <1>2 DEF Right, Shows, Agrees
<1> QED BY <1>3 DEF d

\* A name is removed.
LEMMA HiddenSees ==
    ASSUME SoundInv, OneWritable, Kept, SoundInv', Family, Sees(dcache, fs),
           NEW p \in Paths, Reached(p), NEW B, Moves(p, B), Hidden(p)
    PROVE  /\ Sees(dcache', fs')
           /\ MaxPins = 0 /\ (\A q \in Below(p) : View(fs)[q] = None) => ViewPut(p, None)
<1>1. fs' \in [Branches -> SoundBranches]
  BY DEF SoundInv, BranchesSound
<1>2. View(fs')[p] = None
  BY <1>1, TopDecides DEF Hidden
<1>3. \A q \in Below(p) : View(fs')[q] = None
  BY <1>1, <1>2, NothingBelowOther, ValuesAssumption
<1>4. Marks(Tree(p)) /\ \A q \in Tree(p) : dcache'[q] = NoDentry
  BY DEF Hidden
<1>5. p \in Tree(p) /\ \A q \in Below(p) : q \in Tree(p)
  BY DEF Tree
<1>6. /\ Sees(dcache', fs')
      /\ MaxPins = 0 => \A q \in Paths \ Tree(p) : View(fs')[q] = View(fs)[q]
  BY <1>4, <1>5, ShutSees
<1>7. \A q \in Paths : q \notin Tree(p) \/ q = p \/ q \in Below(p)
  BY DEF Tree
<1>8. p \notin Below(p)
  BY PathsAssumption DEF Below
<1>9. ASSUME MaxPins = 0, \A q \in Below(p) : View(fs)[q] = None
      PROVE  ViewPut(p, None)
  BY <1>2, <1>3, <1>6, <1>7, <1>8, <1>9 DEF ViewPut, Tree
<1> QED BY <1>6, <1>9

LEMMA UnlinkSees ==
    ASSUME SoundInv, OneWritable, Kept, Family, Sees(dcache, fs), oops' = FALSE,
           "whiteout" \notin Faults, NEW p \in Paths, unionfs_unlink(p)
    PROVE  /\ Sees(dcache', fs')
           /\ MaxPins = 0 => View(fs)[p] \in Values /\ Does("unlink", p, None)
<1>1. Reached(p) /\ Present(p) /\ Object(fs, Target(p), p) \in Values
  BY DEF unionfs_unlink
<1>2. SoundInv' /\ (\E B : Moves(p, B)) /\ Hidden(p)
  BY <1>1, UnlinkSound, NeverBlocked DEF Removed, Unwritten
<1>3. Done("unlink", p, "ok")
  <2>1. Done("unlink", p, "ok") \/ Done("unlink", p, "error")
    BY DEF unionfs_unlink, WhitedOut, WhiteoutFails, Crashes
  <2>2. last'.ret = "ok"
    BY <1>2 DEF Hidden
  <2> QED BY <2>1, <2>2 DEF Done
<1>4. /\ Sees(dcache', fs')
      /\ MaxPins = 0 /\ (\A q \in Below(p) : View(fs)[q] = None) => ViewPut(p, None)
  BY <1>1, <1>2, HiddenSees
<1>5. ASSUME MaxPins = 0 PROVE View(fs)[p] \in Values /\ ViewPut(p, None)
  <2>1. View(fs)[p] \in Values
    BY <1>1, <1>5, TargetSeen
  <2>2. fs \in [Branches -> SoundBranches]
    BY DEF SoundInv, BranchesSound
  <2>3. \A q \in Below(p) : View(fs)[q] = None
    BY <2>1, <2>2, NothingBelowOther, ValuesAssumption
  <2> QED BY <1>4, <1>5, <2>1, <2>3
<1> QED BY <1>3, <1>4, <1>5 DEF Does

\* The dentry that rmdir completes still shows the directory, and if it was
\* right all that is to be seen in it is read.
LEMMA CompletedShows ==
    ASSUME SoundInv, Sees(dcache, fs), NEW p \in Paths, Reached(p), Present(p),
           NEW e, e = PartialLookup(fs, DentryOf(Parent[p]), Target(p), p)
    PROVE  /\ Shows(e, p, fs)
           /\ MaxPins = 0 /\ CheckEmpty(e, p) => \A c \in Children(p) : View(fs)[c] = None
<1> DEFINE d == Target(p)
           pd == DentryOf(Parent[p])
           l == Layers(fs)[p]
<1>1. /\ d \in GoodDentries /\ Fits(d, pd, p, fs)
      /\ pd \in GoodDentries /\ Bounded(pd) /\ fs \in [Branches -> SoundBranches]
  BY TargetFits, ReachedParent DEF SoundInv, BranchesSound
<1>2. Right(d, p, fs)
  BY TargetRight
<1>3. e = PartialLookup(fs, pd, d, p)
  OBVIOUS
<1> HIDE DEF d, pd
<1>4. /\ e \in GoodDentries /\ Fits(e, pd, p, fs)
      /\ e.bstart = d.bstart /\ e.hid[0] = d.hid[0]
      /\ \A c \in Branches \ {0} :
           /\ d.hid[c] # "null" => e.hid[c] = d.hid[c]
           /\ e.hid[c] # "null" /\ d.hid[c] = "null" =>
               \A x \in Branches : d.hid[x] # "null" => x < c
      /\ \A c \in Branches : d.hid[c] # "null" =>
           /\ c =< d.bend => c =< e.bend
           /\ d.bopaque = -1 \/ c =< d.bopaque => e.bopaque = -1 \/ c =< e.bopaque
  BY <1>1, <1>3, PartialFits
<1>5. /\ \A b \in Branches : d.hid[b] # "null" => e.hid[b] = d.hid[b]
      /\ \A b \in Branches : e.hid[b] # "null" =>
           \/ d.hid[b] = e.hid[b]
           \/ d.hid[b] = "null" /\ \A x \in Branches : d.hid[x] # "null" => x < b
  BY <1>4
<1>6. \A b \in DirsOf(d, p, fs) : b \in DirsOf(e, p, fs)
  BY <1>4, <1>5 DEF DirsOf
<1>7. /\ l \in SUBSET DirsOf(d, p, fs) /\ \A b \in Branches : d.hid[b] # "dead"
      /\ View(fs)[p] # None => fs[d.bstart].node[p] = View(fs)[p]
      /\ \A b \in DirsOf(d, p, fs) \ l, c \in l : c < b
  BY <1>2 DEF Right, Shows
<1> HIDE DEF l
<1>8. ASSUME NEW b \in DirsOf(e, p, fs) \ DirsOf(d, p, fs), NEW c \in DirsOf(d, p, fs)
      PROVE  c < b
  <2>1. /\ b \in Branches /\ e.hid[b] = "live" /\ fs[b].node[p] = Dir
        /\ c \in Branches /\ d.hid[c] = "live" /\ c =< d.bend
    BY <1>8 DEF DirsOf
  <2>2. CASE d.hid[b] = "live"
    <3>1. ~ (b =< d.bend)
      BY <1>8, <2>1, <2>2 DEF DirsOf
    <3>2. b \in Int /\ c \in Int /\ d.bend \in Int
      BY <1>1, <2>1, GoodFields, ZeroBranch
    <3> QED BY <2>1, <3>1, <3>2
  <2>3. CASE d.hid[b] # "live"
    BY <1>5, <2>1, <2>3
  <2> QED BY <2>2, <2>3
<1>9. Shows(e, p, fs)
  <2>1. \A b \in Branches : e.hid[b] # "dead"
    <3>1. \A b \in Branches \ {0} : e.hid[b] # "null" => e.hid[b] = "live"
      BY <1>4 DEF Fits, KnownBelow
    <3> QED BY <1>4, <1>7, <3>1, ZeroBranch
  <2>2. View(fs)[p] # None => fs[e.bstart].node[p] = View(fs)[p]
    BY <1>4, <1>7
  <2>3. l \in SUBSET DirsOf(e, p, fs)
    BY <1>6, <1>7
  <2>4. \A b \in DirsOf(e, p, fs) \ l, c \in l : c < b
    BY <1>7, <1>8
  <2> QED BY <2>1, <2>2, <2>3, <2>4 DEF Shows, l
<1>10. ASSUME MaxPins = 0, CheckEmpty(e, p), NEW c \in Children(p), View(fs)[c] # None
       PROVE  FALSE
  <2>1. Agrees(d, p, fs)
    BY <1>2, <1>10 DEF Right
  <2>2. c \in Paths /\ Parent[c] = p
    BY DEF Children
  <2>3. View(fs)[c] = ShownBy(fs, c, l) /\ l \in SUBSET Branches
    <3>1. /\ View(fs)[c] = ShownBy(fs, c, Layers(fs)[Parent[c]])
          /\ Layers(fs)[Parent[c]] \in SUBSET Branches
      BY <2>2, ViewIs
    <3> QED BY <2>2, <3>1 DEF l
  <2> DEFINE U == Unhidden(fs, c, l)
             m == Leftmost(U)
  <2>4. m \in U /\ U \in SUBSET l /\ fs[m].node[c] # None
    <3>1. /\ U \in SUBSET l /\ \A b \in U : fs[b].node[c] # None
          /\ U # {} => m \in U
          /\ ShownBy(fs, c, l) = None <=> U = {}
      BY <1>1, <2>2, <2>3, LayerIs
    <3> HIDE DEF U, m
    <3> QED BY <1>10, <2>3, <3>1
  <2>5. \A a \in l : a =< m => c \notin fs[a].wh
    <3> HIDE DEF m
    <3> QED BY <2>4 DEF Unhidden
  <2> HIDE DEF U, m
  <2>6. m \in DirsOf(d, p, fs) /\ l = DirsOf(d, p, fs)
    BY <2>1, <2>4 DEF Agrees, l
  <2>7. ASSUME NEW b \in DirsOf(d, p, fs) PROVE b \in ReadForEmpty(e, p)
    <3>1. /\ b \in DirsOf(e, p, fs) /\ b \in Branches /\ d.hid[b] # "null"
          /\ d.bopaque = -1 \/ b =< d.bopaque
      BY <1>6, <2>1, <2>7 DEF DirsOf, Agrees
    <3>2. e.bopaque = -1 \/ b =< e.bopaque
      BY <1>4, <3>1
    <3>3. e.bstart =< b
      <4>1. e.bstart \in Branches /\ e.hid[b] # "null" /\ Bounded(e)
        BY <1>4, <3>1, GoodFields DEF DirsOf, Fits
      <4> QED BY <3>1, <4>1, ZeroBranch DEF Bounded
    <3> QED BY <3>1, <3>2, <3>3 DEF ReadForEmpty, DirsOf
  <2>8. PICK a \in ReadForEmpty(e, p) : a < m /\ c \in fs[a].wh
    BY <1>10, <2>4, <2>6, <2>7 DEF CheckEmpty
  <2>9. a \in DirsOf(e, p, fs) /\ a \in Branches
    BY <2>8 DEF ReadForEmpty, DirsOf
  <2>10. m \in Branches
    BY <2>6 DEF DirsOf
  <2>11. a \in l
    BY <1>8, <2>6, <2>8, <2>9, <2>10, ZeroBranch
  <2> QED BY <2>5, <2>8, <2>9, <2>10, <2>11, ZeroBranch
<1> QED BY <1>9, <1>10

\* rmdir: a directory in which nothing is seen goes, any other stays.
LEMMA RmdirSees ==
    ASSUME SoundInv, OneWritable, Kept, Family, Sees(dcache, fs), oops' = FALSE,
           "whiteout" \notin Faults, MaxPins = 0 => pinned = {},
           NEW p \in Paths, unionfs_rmdir(p)
    PROVE  /\ Sees(dcache', fs')
           /\ MaxPins = 0 =>
                /\ View(fs)[p] = Dir /\ Does("rmdir", p, None)
                /\ last'.ret = "ok" => \A c \in Children(p) : View(fs)[c] = None
<1> DEFINE d0 == PartialLookup(fs, DentryOf(Parent[p]), Target(p), p)
<1>1. Reached(p) /\ Present(p) /\ Object(fs, Target(p), p) = Dir
  BY DEF unionfs_rmdir
<1>2. SoundInv' /\ \/ /\ ~CheckEmpty(d0, p) /\ dcache'[p] \in {NoDentry, d0}
                      /\ Moves(p, {}) /\ fs' = fs
                   \/ CheckEmpty(d0, p) /\ (\E B : Moves(p, B)) /\ Hidden(p)
  BY <1>1, RmdirSound, NeverBlocked DEF Removed, Unwritten
<1>3. /\ \E ret \in Results : Done("rmdir", p, ret)
      /\ ~CheckEmpty(d0, p) =>
            Done("rmdir", p, "ENOTEMPTY") /\ dcache' = Unhashed(p, d0)
  BY DEF unionfs_rmdir, WhitedOut, WhiteoutFails, Crashes, Results
<1>4. d0 = PartialLookup(fs, DentryOf(Parent[p]), Target(p), p)
  OBVIOUS
<1> HIDE DEF d0
<1>5. /\ Shows(d0, p, fs)
      /\ MaxPins = 0 /\ CheckEmpty(d0, p) => \A c \in Children(p) : View(fs)[c] = None
  BY <1>1, <1>4, CompletedShows
<1>6. MaxPins = 0 => View(fs)[p] = Dir
  BY <1>1, TargetSeen
<1>7. fs \in [Branches -> SoundBranches]
  BY DEF SoundInv, BranchesSound
<1>8. CASE CheckEmpty(d0, p) /\ (\E B : Moves(p, B)) /\ Hidden(p)
  <2>1. /\ Sees(dcache', fs')
        /\ MaxPins = 0 /\ (\A q \in Below(p) : View(fs)[q] = None) => ViewPut(p, None)
    BY <1>1, <1>2, <1>8, HiddenSees
  <2>2. Done("rmdir", p, "ok")
    BY <1>3, <1>8 DEF Hidden, Done
  <2>3. ASSUME MaxPins = 0 PROVE \A q \in Below(p) : View(fs)[q] = None
    BY <1>5, <1>7, <1>8, <2>3, NothingBelow
  <2> QED BY <1>5, <1>6, <1>8, <2>1, <2>2, <2>3 DEF Does
<1>9. CASE ~CheckEmpty(d0, p) /\ dcache'[p] \in {NoDentry, d0} /\ Moves(p, {}) /\ fs' = fs
  <2>1. ASSUME MaxPins = 0 PROVE dcache'[p] = NoDentry
    <3>1. ~Held(p)
      BY <2>1 DEF Held
    <3> QED BY <1>3, <1>9, <3>1 DEF Unhashed
  <2>2. dcache'[p] # NoDentry => Right(dcache'[p], p, fs')
    BY <1>5, <1>9, <2>1 DEF Right
  <2> DEFINE N == {}
             B == {}
  <2>3. N \in SUBSET {p} /\ p \notin N /\ Moves(p, B)
    BY <1>9
  <2>4. Unchanged(fs, fs', p) /\ Marks({p})
    BY <1>9 DEF Unchanged, Marks
  <2> HIDE DEF N, B
  <2>5. Opens(fs, fs', Made(p, B) \cup N, {})
    BY <1>1, <1>2, <2>3, <2>4, AllAfter
  <2>6. Sees(dcache', fs')
    BY <1>1, <1>2, <2>2, <2>3, <2>5, AllSees
  <2>7. ViewStays
    BY <1>9 DEF ViewStays
  <2>8. Done("rmdir", p, "ENOTEMPTY") /\ last'.ret # "ok"
    BY <1>3, <1>9 DEF Done
  <2> QED BY <1>6, <2>6, <2>7, <2>8 DEF Does, Results
<1> QED BY <1>2, <1>8, <1>9

\* A copy leads where the dentry did before.
Leads(e, d) ==
    /\ e.hid[0] = "live" /\ e.bopaque = d.bopaque
    /\ \A c \in Branches \ {0} : d.hid[c] # "null" => (c =< e.bend <=> c =< d.bend)

LEMMA CopiedUpLive ==
    ASSUME NEW d \in GoodDentries, Bounded(d), d.hid[0] = "null", NEW p \in Paths,
           NEW full, NEW how, Tried(d, p, full) \in SUBSET {0},
           NEW e, e = CopiedUp(d, p, d.bstart, full, how)
    PROVE  /\ 0 \in Tried(d, p, full) \ full => Leads(e, d)
           /\ 0 \notin Tried(d, p, full) \ full /\ how = "copyup" => e.hid[0] = "null"
<1> DEFINE b     == d.bstart
           tried == Tried(d, p, full)
           left  == IF how = "copyup" THEN tried \ full ELSE tried
           kept  == {c \in Branches : c =< d.bend /\ d.hid[c] # "null"}
           h     == [c \in Branches |->
                         IF c \notin tried THEN d.hid[c]
                         ELSE IF c \notin full THEN "live"
                         ELSE IF how = "copyup" THEN "null" ELSE "dead"]
           top   == Leftmost(left \cup {b})
           end   == IF left = {} THEN d.bend ELSE Rightmost(left \cup kept)
<1>1. e = [bstart |-> top, bend |-> end, bopaque |-> d.bopaque, hid |-> h]
  BY DEF CopiedUp
<1>2. e.hid = h /\ e.bend = end /\ e.bopaque = d.bopaque
  BY <1>1
<1> HIDE DEF tried, kept, top
<1>3. h[0] = IF 0 \notin tried THEN d.hid[0] ELSE IF 0 \notin full THEN "live"
             ELSE IF how = "copyup" THEN "null" ELSE "dead"
  BY ZeroBranch
<1>4. ASSUME 0 \in tried \ full, NEW c \in Branches \ {0}, d.hid[c] # "null"
      PROVE  c =< end <=> c =< d.bend
  <2>1. left = {0}
    BY <1>4 DEF tried
  <2> DEFINE X == {0} \cup kept
  <2>2. X \in SUBSET Branches /\ X # {}
    BY ZeroBranch DEF kept
  <2>3. end = Rightmost(X)
    BY <2>1
  <2> HIDE DEF X, end
  <2>4. end \in X /\ \A x \in X : x =< end
    <3>1. Rightmost(X) \in X /\ \A x \in X : x =< Rightmost(X)
      BY <2>2, RightmostIsGreatest
    <3> QED BY <2>3, <3>1
  <2>5. end = 0 \/ (end \in Branches /\ end =< d.bend)
    BY <2>4 DEF X, kept
  <2>6. c =< d.bend => c \in X
    BY <1>4 DEF X, kept
  <2>7. c \in Int /\ 0 =< c /\ c # 0 /\ end \in Int /\ d.bend \in Int
    BY <2>2, <2>4, GoodFields, ZeroBranch
  <2> QED BY <2>4, <2>5, <2>6, <2>7
<1> HIDE DEF h, end
<1> QED BY <1>2, <1>3, <1>4 DEF tried, Leads

\* The object that is seen at p is changed, in the first branch.
LEMMA RewrittenSees ==
    ASSUME SoundInv, OneWritable, Kept, SoundInv', Family, Sees(dcache, fs),
           NEW p \in Paths, Reached(p), Present(p), NEW v \in Values,
           NEW t, t = Target(p), t \in GoodDentries, Object(fs, t, p) \in Values \cup {Dir},
           NEW B, Moves(p, B), Marks({}), NEW e, e = dcache'[p], e \in GoodDentries,
           fs'[0].node[p] = Attributed(Object(fs, t, p), v),
           Bounded(e), e.hid[0] = "live", e.bopaque = t.bopaque,
           \A c \in Branches \ {0} : /\ e.hid[c] = t.hid[c]
                                     /\ t.hid[c] # "null" => (c =< e.bend <=> c =< t.bend),
           \/ t.bstart = 0 /\ e = t
           \/ t.hid[0] = "null" /\ fs[0].node[p] = None /\ p \notin fs[0].wh
    PROVE  /\ Sees(dcache', fs')
           /\ MaxPins = 0 =>
                /\ View(fs)[p] = Object(fs, t, p)
                /\ ViewPut(p, Attributed(Object(fs, t, p), v))
<1>1. fs \in [Branches -> SoundBranches] /\ fs' \in [Branches -> SoundBranches]
  BY DEF SoundInv, BranchesSound
<1>2. Right(t, p, fs)
  BY TargetRight
<1>3. Object(fs, t, p) = fs[t.bstart].node[p]
  BY <1>2, GoodFields DEF Object, Right, Shows
<1>4. /\ View(fs)[p] \in {None, Object(fs, t, p)}
      /\ MaxPins = 0 => View(fs)[p] = Object(fs, t, p)
  BY <1>2, <1>3 DEF Right, Shows, Agrees
<1>5. \A b \in Branches \ {0} : fs'[b] = fs[b]
  BY ZeroBranch DEF Kept, Safe
<1>6. CASE Object(fs, t, p) = Dir
  <2>1. fs'[0].node[p] = Dir
    BY <1>6 DEF Attributed
  <2> DEFINE N == IF fs[0].node[p] = None THEN {p} ELSE {}
  <2>2. N \in SUBSET {p} /\ (p \in N <=> fs[0].node[p] = None)
    OBVIOUS
  <2> HIDE DEF N
  <2>3. IF p \in N THEN Opened(fs, fs', p) /\ View(fs)[p] \in {None, Dir}
        ELSE Unchanged(fs, fs', p)
    <3>1. /\ p \in fs'[0].wh <=> p \in fs[0].wh
          /\ p \in fs'[0].opq <=> p \in fs[0].opq
      BY DEF Marks
    <3>2. CASE fs[0].node[p] = None
      <4>1. p \notin fs[0].opq
        BY <1>1, <3>2, SoundType, ZeroBranch, ValuesAssumption DEF LowerTree
      <4>2. p \notin fs[0].wh
        BY <1>3, <1>6, <3>2, ValuesAssumption
      <4> QED BY <1>4, <1>6, <2>1, <2>2, <3>1, <3>2, <4>1, <4>2 DEF Opened
    <3>3. CASE fs[0].node[p] # None
      <4>1. fs[0].node[p] = Dir
        BY <1>3, <1>6, <3>3
      <4> QED BY <2>1, <2>2, <3>1, <3>3, <4>1 DEF Unchanged
    <3> QED BY <3>2, <3>3
  <2>4. Marks({p})
    BY DEF Marks
  <2>5. /\ Opens(fs, fs', Made(p, B) \cup N, {})
        /\ Layers(fs')[p] = IF p \in N THEN Layers(fs)[p] \cup {0} ELSE Layers(fs)[p]
        /\ View(fs')[p] = IF p \in N THEN Dir ELSE View(fs)[p]
    BY <2>2, <2>3, <2>4, AllAfter
  <2>6. Right(e, p, fs')
    <3>1. CASE p \in N
      <4>1. t.hid[0] = "null"
        BY <1>3, <1>6, <2>2, <3>1, ValuesAssumption
      <4>2. View(fs')[p] = Dir /\ Layers(fs')[p] = Layers(fs)[p] \cup {0}
        BY <2>5, <3>1
      <4>3. \A c \in Branches \ {0} : /\ e.hid[c] = t.hid[c]
                                     /\ t.hid[c] = "live" => (c =< e.bend <=> c =< t.bend)
        OBVIOUS
      <4>4. p \notin fs'[0].opq
        BY <2>3, <3>1 DEF Opened
      <4> QED BY <1>2, <1>5, <2>1, <4>1, <4>2, <4>3, <4>4, RightOpened
    <3>2. CASE p \notin N
      <4>1. fs[0].node[p] # None /\ e = t
        BY <2>2, <3>2
      <4>2. fs'[0].node[p] = fs[0].node[p] /\ (p \in fs'[0].opq <=> p \in fs[0].opq)
        BY <1>3, <1>6, <2>1, <4>1 DEF Marks
      <4>3. View(fs')[p] = View(fs)[p] /\ Layers(fs')[p] = Layers(fs)[p]
        BY <2>5, <3>2
      <4> QED BY <1>2, <1>5, <4>1, <4>2, <4>3, RightStill
    <3> QED BY <3>1, <3>2
  <2>7. /\ Sees(dcache', fs')
        /\ MaxPins = 0 => \A q \in Paths \ {p} : View(fs')[q] = View(fs)[q]
    BY <2>2, <2>5, <2>6, AllSees
  <2>8. ASSUME MaxPins = 0 PROVE View(fs')[p] = Dir
    BY <1>4, <1>6, <2>5, <2>8
  <2> QED BY <1>4, <1>6, <2>7, <2>8 DEF ViewPut, Attributed
<1>7. CASE Object(fs, t, p) \in Values
  <2>1. fs'[0].node[p] = v /\ v # Dir /\ v # None /\ Object(fs, t, p) # Dir
    BY <1>7, ValuesAssumption DEF Attributed
  <2>2. View(fs')[p] = v /\ Layers(fs')[p] = {}
    <3>1. View(fs')[p] = v
      BY <1>1, <2>1, TopDecides
    <3>2. View(fs')[p] # Dir <=> Layers(fs')[p] = {}
      BY <1>1, NoLayers
    <3> QED BY <2>1, <3>1, <3>2
  <2>3. e.bstart = 0
    BY StartsAt
  <2>4. ASSUME MaxPins = 0 PROVE DirsOf(e, p, fs') = {}
    <3>1. DirsOf(t, p, fs) = {}
      <4>1. View(fs)[p] # Dir
        BY <1>4, <2>1, <2>4
      <4> QED BY <1>1, <1>2, <2>4, <4>1, NoLayers DEF Right, Agrees
    <3>2. ASSUME NEW b \in DirsOf(e, p, fs') PROVE b \in DirsOf(t, p, fs)
      BY <1>5, <2>1, <3>2 DEF DirsOf
    <3> QED BY <3>1, <3>2
  <2>5. Right(e, p, fs')
    <3>1. \A b \in Branches : e.hid[b] # "dead"
      BY <1>2 DEF Right, Shows
    <3>2. Shows(e, p, fs')
      BY <2>1, <2>2, <2>3, <3>1 DEF Shows
    <3>3. p \notin fs'[0].opq
      BY <1>1, <2>1, SoundType, ZeroBranch DEF LowerTree
    <3>4. MaxPins = 0 => Agrees(e, p, fs')
      BY <2>1, <2>2, <2>4, <3>3 DEF Agrees
    <3> QED BY <3>2, <3>4 DEF Right
  <2>6. \A q \in Below(p) : View(fs')[q] = None /\ Layers(fs')[q] = {}
    BY <1>1, <2>1, <2>2, NothingBelowOther
  <2>7. MaxPins = 0 => \A q \in Below(p) : View(fs)[q] = None
    BY <1>1, <1>4, <2>1, NothingBelowOther
  <2>8. ASSUME NEW q \in Below(p), dcache'[q] # NoDentry PROVE MaxPins # 0
    <3>1. q \in Paths \ {p}
      BY PathsAssumption DEF Below
    <3>2. dcache[q] # NoDentry
      BY <2>8, <3>1, AwayIs
    <3> QED BY <2>7, <3>1, <3>2 DEF Sees, Right, Agrees
  <2>9. Marks(Tree(p))
    BY DEF Marks
  <2>10. /\ Sees(dcache', fs')
         /\ MaxPins = 0 => \A q \in Paths \ Tree(p) : View(fs')[q] = View(fs)[q]
    BY <2>5, <2>6, <2>8, <2>9, ShutSees
  <2>11. \A q \in Paths : q \notin Tree(p) \/ q = p \/ q \in Below(p)
    BY DEF Tree
  <2>12. p \notin Below(p) /\ p \in Tree(p) /\ \A q \in Below(p) : q # p
    BY PathsAssumption DEF Below, Tree
  <2>13. Attributed(Object(fs, t, p), v) = v
    BY <2>1 DEF Attributed
  <2>14. MaxPins = 0 => ViewPut(p, v)
    BY <2>2, <2>6, <2>7, <2>10, <2>11, <2>12 DEF ViewPut
  <2> QED BY <1>4, <2>10, <2>13, <2>14
<1> QED BY <1>6, <1>7

\* copyup: the copy is made and changed, or nothing is.
LEMMA CopyupSees ==
    ASSUME SoundInv, OneWritable, Kept, Family, Sees(dcache, fs),
           NEW p \in Paths, Reached(p), Present(p), NEW v \in Values,
           Object(fs, Target(p), p) \in Values \cup {Dir}, Target(p).bstart # 0,
           NEW full, Copyup(p, v, Target(p), full, "copyup")
    PROVE  /\ Sees(dcache', fs')
           /\ MaxPins = 0 =>
                /\ View(fs)[p] = Object(fs, Target(p), p)
                /\ Does("setattr", p, Attributed(Object(fs, Target(p), p), v))
<1> DEFINE t == Target(p)
           B == Tried(t, p, full)
           e == CopiedUp(t, p, t.bstart, full, "copyup")
           n == Attributed(Object(fs, t, p), v)
<1>1. /\ t \in GoodDentries /\ Bounded(t) /\ t.hid[0] = "null"
      /\ Object(fs, t, p) = fs[t.bstart].node[p]
  <2>1. /\ t \in GoodDentries /\ Bounded(t) /\ t.hid[0] # "dead"
        /\ t.hid[0] = "live" <=> t.bstart = 0
        /\ Object(fs, t, p) = fs[t.bstart].node[p]
    BY TargetIs
  <2>2. t.hid[0] \in Pointers
    BY <2>1, GoodFields, ZeroBranch
  <2> QED BY <2>1, <2>2 DEF Pointers
<1>2. /\ SoundInv' /\ Moves(p, B) /\ dcache'[p] = e
      /\ 0 \in B \ full => fs'[0].node[p] = n
      /\ 0 \notin B \ full => fs'[0].node[p] = None
      /\ fs[0].node[p] = None /\ p \notin fs[0].wh /\ Marks({})
  BY <1>1, CopyupSound
<1>3. Done("setattr", p, IF B \subseteq full THEN "error" ELSE "ok")
  BY DEF Copyup
<1>4. t = Target(p) /\ B = Tried(t, p, full) /\ e = CopiedUp(t, p, t.bstart, full, "copyup")
  OBVIOUS
<1>5. Right(t, p, fs)
  BY TargetRight
<1> HIDE DEF t, B, e
<1>6. B \in SUBSET {0}
  BY <1>2 DEF Moves
<1>7. /\ Bounded(e) /\ Keeps(t, e)
      /\ 0 \in B \ full =>
           /\ e.hid[0] = "live" /\ e.bopaque = t.bopaque
           /\ \A c \in Branches \ {0} : t.hid[c] # "null" =>
                        (c =< e.bend <=> c =< t.bend)
      /\ 0 \notin B \ full => e = t
  <2> DEFINE how == "copyup"
  <2>1. /\ t \in GoodDentries /\ Bounded(t) /\ t.hid[0] = "null" /\ p \in Paths
        /\ Tried(t, p, full) \in SUBSET {0} /\ e = CopiedUp(t, p, t.bstart, full, how)
    BY <1>1, <1>4, <1>6
  <2> HIDE DEF how
  <2>2. Bounded(e) /\ Keeps(t, e)
    BY ONLY <2>1, CopiedUpIs
  <2>3. \A x : x = CopiedUp(t, p, t.bstart, full, how) /\ x.hid[0] = "null" => x = t
    BY ONLY <2>1, CopiedUpNull
  <2>4. \A x : x = CopiedUp(t, p, t.bstart, full, how) =>
          /\ 0 \in Tried(t, p, full) \ full => Leads(x, t)
          /\ 0 \notin Tried(t, p, full) \ full /\ how = "copyup" => x.hid[0] = "null"
    BY ONLY <2>1, CopiedUpLive
  <2>5. how = "copyup"
    BY DEF how
  <2> QED BY <1>4, <2>1, <2>2, <2>3, <2>4, <2>5 DEF Leads
<1>8. CASE 0 \in B \ full
  <2>1. e \in GoodDentries
    BY <1>1, <1>4, CopiedUpGood
  <2>2. \A c \in Branches \ {0} : /\ e.hid[c] = t.hid[c]
                                  /\ t.hid[c] # "null" => (c =< e.bend <=> c =< t.bend)
    BY <1>7, <1>8 DEF Keeps
  <2>3. Object(fs, t, p) \in Values \cup {Dir} /\ fs'[0].node[p] = Attributed(Object(fs, t, p), v)
    BY <1>2, <1>8 DEF t
  <2>4. /\ Sees(dcache', fs')
        /\ MaxPins = 0 => /\ View(fs)[p] = Object(fs, t, p)
                          /\ ViewPut(p, Attributed(Object(fs, t, p), v))
    <3>1. /\ e.hid[0] = "live" /\ e.bopaque = t.bopaque /\ Bounded(e)
          /\ t.hid[0] = "null" /\ fs[0].node[p] = None /\ p \notin fs[0].wh
          /\ e = dcache'[p] /\ t = Target(p) /\ t \in GoodDentries
          /\ SoundInv' /\ Moves(p, B) /\ Marks({})
      BY <1>1, <1>2, <1>4, <1>7, <1>8
    <3> QED BY <2>1, <2>2, <2>3, <3>1, RewrittenSees
  <2>5. Done("setattr", p, "ok")
    BY <1>3, <1>8
  <2> QED BY <2>4, <2>5 DEF Does, t
<1>9. CASE 0 \notin B \ full
  <2> DEFINE N == {}
  <2>1. N \in SUBSET {p} /\ p \notin N
    OBVIOUS
  <2>2. Unchanged(fs, fs', p) /\ Marks({p})
    BY <1>2, <1>9 DEF Unchanged, Marks
  <2> HIDE DEF N
  <2>3. /\ Opens(fs, fs', Made(p, B) \cup N, {})
        /\ Layers(fs')[p] = Layers(fs)[p] /\ View(fs')[p] = View(fs)[p]
    BY <1>2, <2>1, <2>2, AllAfter
  <2>4. \A b \in Branches \ {0} : fs'[b] = fs[b]
    BY ZeroBranch DEF Kept, Safe
  <2>5. Right(dcache'[p], p, fs')
    <3>1. fs'[0].node[p] = fs[0].node[p] /\ (p \in fs'[0].opq <=> p \in fs[0].opq)
      BY <2>2 DEF Unchanged
    <3> QED BY <1>1, <1>2, <1>5, <1>7, <1>9, <2>3, <2>4, <3>1, RightStill
  <2>6. /\ Sees(dcache', fs')
        /\ MaxPins = 0 => \A q \in Paths \ {p} : View(fs')[q] = View(fs)[q]
    BY <1>2, <2>1, <2>3, <2>5, AllSees
  <2>7. MaxPins = 0 => ViewStays
    BY <2>3, <2>6 DEF ViewStays
  <2>8. Done("setattr", p, "error")
    BY <1>3, <1>6, <1>9
  <2>9. MaxPins = 0 => View(fs)[p] = Object(fs, t, p)
    BY <1>4, TargetSeen
  <2> QED BY <2>6, <2>7, <2>8, <2>9 DEF Does, Results, t
<1> QED BY <1>8, <1>9

\* setattr.
LEMMA SetattrSees ==
    ASSUME SoundInv, OneWritable, Kept, Family, Sees(dcache, fs), oops' = FALSE,
           "copydata" \notin Faults, NEW p \in Paths, NEW v \in Values, unionfs_setattr(p, v)
    PROVE  /\ Sees(dcache', fs')
           /\ MaxPins = 0 =>
                \/ View(fs)[p] \in Values /\ Does("setattr", p, v)
                \/ View(fs)[p] = Dir /\ Does("setattr", p, Dir)
<1> DEFINE t == Target(p)
           n == Attributed(Object(fs, t, p), v)
<1>1. Reached(p) /\ Present(p) /\ Object(fs, t, p) \in Values \cup {Dir}
  BY DEF unionfs_setattr
<1>2. /\ t \in GoodDentries /\ Bounded(t) /\ t.bstart \in Branches
      /\ t.hid[0] = "live" <=> t.bstart = 0
      /\ Object(fs, t, p) = fs[t.bstart].node[p]
  BY <1>1, TargetIs, GoodFields
<1>3. IsRobranch(t.bstart) <=> t.bstart # 0
  BY <1>2, ZeroBranch
<1>4. \/ /\ t.bstart = 0 /\ fs' = SetNode(fs, 0, p, Attributed(fs[0].node[p], v))
         /\ dcache' = [dcache EXCEPT ![p] = t] /\ Done("setattr", p, "ok")
      \/ t.bstart # 0 /\ \E full : Copyup(p, v, t, full, "copyup")
  BY <1>3 DEF unionfs_setattr, Crashes
<1>5. ASSUME MaxPins = 0, View(fs)[p] = Object(fs, t, p), Does("setattr", p, n)
      PROVE  \/ View(fs)[p] \in Values /\ Does("setattr", p, v)
             \/ View(fs)[p] = Dir /\ Does("setattr", p, Dir)
  <2>1. Object(fs, t, p) = Dir => n = Dir
    BY DEF Attributed
  <2>2. Object(fs, t, p) \in Values => n = v
    BY ValuesAssumption DEF Attributed
  <2> HIDE DEF n, t
  <2> QED BY <1>1, <1>5, <2>1, <2>2
<1>6. /\ Sees(dcache', fs')
      /\ MaxPins = 0 => View(fs)[p] = Object(fs, t, p) /\ Does("setattr", p, n)
  <2>1. CASE /\ t.bstart = 0 /\ fs' = SetNode(fs, 0, p, Attributed(fs[0].node[p], v))
             /\ dcache' = [dcache EXCEPT ![p] = t] /\ Done("setattr", p, "ok")
    <3> DEFINE B == {}
    <3>1. /\ SoundInv' /\ Moves(p, B) /\ dcache'[p] = t
          /\ fs'[0].node[p] = Attributed(fs[0].node[p], v) /\ Marks({})
      BY <1>1, <2>1, InPlaceSound
    <3>2. /\ t = Target(p) /\ t.hid[0] = "live" /\ fs'[0].node[p] = n
          /\ Object(fs, t, p) \in Values \cup {Dir}
      BY <1>1, <1>2, <2>1, <3>1
    <3> HIDE DEF B, t
    <3>3. /\ Sees(dcache', fs')
          /\ MaxPins = 0 => /\ View(fs)[p] = Object(fs, t, p)
                            /\ ViewPut(p, Attributed(Object(fs, t, p), v))
      BY <1>1, <1>2, <2>1, <3>1, <3>2, RewrittenSees
    <3> QED BY <2>1, <3>3 DEF Does
  <2>2. CASE t.bstart # 0 /\ \E full : Copyup(p, v, t, full, "copyup")
    BY <1>1, <2>2, CopyupSees
  <2> QED BY <1>4, <2>1, <2>2
<1> QED BY <1>5, <1>6

\* The walks and the cache on its own.
LEMMA WalkSees ==
    ASSUME SoundInv, Sees(dcache, fs), NEW p \in Paths,
           unionfs_lookup(p) \/ Prune(p) \/ Pin(p) \/ Unpin(p)
    PROVE  Sees(dcache', fs') /\ UNCHANGED <<fs, last>>
<1>1. fs' = fs /\ last' = last
  BY DEF unionfs_lookup, Prune, Pin, Unpin
<1>2. \A q \in Paths \ {p} : dcache'[q] = dcache[q]
  BY DEF unionfs_lookup, Prune, Pin, Unpin, SoundInv, Inv, Caches
<1>3. dcache'[p] # NoDentry => Right(dcache'[p], p, fs)
  <2>1. CASE unionfs_lookup(p)
    <3>1. Reached(p) /\ Present(p) /\ dcache'[p] = Target(p)
      BY <2>1 DEF unionfs_lookup, SoundInv, Inv, Caches
    <3> QED BY <3>1, TargetRight
  <2>2. CASE Prune(p)
    BY <2>2 DEF Prune, SoundInv, Inv, Caches
  <2>3. CASE Pin(p) \/ Unpin(p)
    BY <2>3 DEF Pin, Unpin, Sees
  <2> QED BY <2>1, <2>2, <2>3
<1> QED BY <1>1, <1>2, <1>3 DEF Sees

\* Nothing is ever held where nothing may be.
LEMMA NothingHeld ==
    ASSUME MaxPins = 0, pinned = {}, Next
    PROVE  pinned' = {}
<1>1. ASSUME NEW p \in Paths, Pin(p) PROVE FALSE
  BY <1>1, FS_EmptySet DEF Pin
<1>2. ASSUME NEW p \in Paths, unionfs_lookup(p) \/ Prune(p) \/ Unpin(p) PROVE pinned' = {}
  BY <1>2 DEF unionfs_lookup, Prune, Unpin
<1>3. ASSUME NEW p \in Paths, unionfs_create(p) PROVE pinned' = {}
  BY <1>3 DEF unionfs_create, CreateDone, CreateFails, Crashes
<1>4. ASSUME NEW p \in Paths, NEW op, NEW n, NewNode(op, p, n) PROVE pinned' = {}
  BY <1>4 DEF NewNode, CreateDone, CreateFails, Crashes
<1>5. ASSUME NEW p \in Paths, unionfs_mkdir(p) PROVE pinned' = {}
  BY <1>5 DEF unionfs_mkdir, CreateDone, CreateFails, Crashes
<1>6. ASSUME NEW p \in Paths, unionfs_unlink(p) PROVE pinned' = {}
  BY <1>6 DEF unionfs_unlink, WhitedOut, WhiteoutFails, Crashes
<1>7. ASSUME NEW p \in Paths, unionfs_rmdir(p) PROVE pinned' = {}
  BY <1>7 DEF unionfs_rmdir, WhitedOut, WhiteoutFails, Crashes
<1>8. ASSUME NEW p \in Paths, NEW v \in Values, unionfs_setattr(p, v) PROVE pinned' = {}
  BY <1>8 DEF unionfs_setattr, Copyup, Crashes
<1> QED BY <1>1, <1>2, <1>3, <1>4, <1>5, <1>6, <1>7, <1>8 DEF Next, unionfs_mknod, unionfs_symlink

\* The invariant: what a walk finds is what is there.
Undone == "opaque" \in Faults \/ "whiteout" \in Faults \/ "copydata" \in Faults

SeesInv ==
    /\ SoundInv /\ Family /\ ~oops
    /\ Sees(dcache, fs)
    /\ MaxPins = 0 => pinned = {}

LEMMA InitSees == Init => SeesInv
<1> SUFFICES ASSUME Init PROVE SeesInv
  OBVIOUS
<1>1. oops = FALSE /\ pinned = {} /\ \A p \in Paths : dcache[p] = NoDentry
  BY DEF Init
<1>2. Family /\ Sees(dcache, fs)
  BY <1>1 DEF Family, Parents, Ends, Children, Sees
<1> QED BY InitSound, <1>1, <1>2 DEF SeesInv

LEMMA NextSees ==
    ASSUME SeesInv, OneWritable, ~Undone, Next
    PROVE  SeesInv'
<1>1. /\ SoundInv /\ Family /\ ~oops /\ Sees(dcache, fs) /\ (MaxPins = 0 => pinned = {})
      /\ "opaque" \notin Faults /\ "whiteout" \notin Faults /\ "copydata" \notin Faults
  BY DEF SeesInv, Undone
<1>2. Kept /\ SoundInv' /\ oops' = FALSE /\ Family'
  BY <1>1, NextKept, NextSound, NextNoOops, NextFamily DEF SoundInv
<1>3. ASSUME NEW p \in Paths, unionfs_lookup(p) \/ Prune(p) \/ Pin(p) \/ Unpin(p)
      PROVE  Sees(dcache', fs')
  BY <1>1, <1>3, WalkSees
<1>4. ASSUME NEW p \in Paths, unionfs_create(p) \/ unionfs_mkdir(p)
      PROVE  Sees(dcache', fs')
  BY <1>1, <1>2, <1>4, CreateSees, MkdirSees
<1>5. ASSUME NEW p \in Paths, NEW v \in Values, unionfs_mknod(p, v) \/ unionfs_symlink(p, v)
      PROVE  Sees(dcache', fs')
  BY <1>1, <1>2, <1>5, NewNodeSees DEF unionfs_mknod, unionfs_symlink
<1>6. ASSUME NEW p \in Paths, unionfs_unlink(p) \/ unionfs_rmdir(p)
      PROVE  Sees(dcache', fs')
  BY <1>1, <1>2, <1>6, UnlinkSees, RmdirSees
<1>7. ASSUME NEW p \in Paths, NEW v \in Values, unionfs_setattr(p, v)
      PROVE  Sees(dcache', fs')
  BY <1>1, <1>2, <1>7, SetattrSees
<1>8. Sees(dcache', fs')
  BY <1>3, <1>4, <1>5, <1>6, <1>7 DEF Next
<1>9. MaxPins = 0 => pinned' = {}
  BY <1>1, NothingHeld
<1> QED BY <1>2, <1>8, <1>9 DEF SeesInv

LEMMA StepSees ==
    ASSUME SeesInv, OneWritable, ~Undone, [Next]_vars
    PROVE  SeesInv'
<1>1. CASE Next
  BY <1>1, NextSees
<1>2. CASE UNCHANGED vars
  <2>1. SoundInv'
    BY NextSound DEF SeesInv
  <2>2. /\ fs' = fs /\ dcache' = dcache /\ pinned' = pinned /\ oops' = oops
    BY <1>2 DEF vars
  <2>3. Family' /\ Sees(dcache', fs') /\ ~oops' /\ (MaxPins = 0 => pinned' = {})
    BY <2>2 DEF SeesInv, Family, Parents, Ends, Passed
  <2> QED BY <2>1, <2>3 DEF SeesInv
<1> QED BY <1>1, <1>2

-----------------------------------------------------------------------------
(* The theorems.                                                           *)

\* With one writable branch, as long as mkdir can mark its directories opaque
\* and unlink, rmdir and copyup finish what they have begun, a walk finds every
\* name that the branches show, with its object, whatever trees are mounted,
\* whatever is held and whatever has been freed from the cache.
THEOREM NothingIsLost ==
    ASSUME Writable = {0}, "opaque" \notin Faults, "whiteout" \notin Faults,
           "copydata" \notin Faults
    PROVE  Spec => []NothingLost
<1>1. OneWritable /\ ~Undone
  BY DEF OneWritable, Undone
<1>2. SeesInv /\ [Next]_vars => SeesInv'
  BY <1>1, StepSees
<1>3. SeesInv => NothingLost
  BY FoundIsSeen DEF SeesInv, NothingLost
<1> QED BY InitSees, <1>2, <1>3, PTL DEF Spec

\* If moreover nobody holds a name that others remove, it finds nothing else.
THEOREM WalksFindTheView ==
    ASSUME Writable = {0}, "opaque" \notin Faults, "whiteout" \notin Faults,
           "copydata" \notin Faults, MaxPins = 0
    PROVE  Spec => []WalkFindsView
<1>1. OneWritable /\ ~Undone
  BY DEF OneWritable, Undone
<1>2. SeesInv /\ [Next]_vars => SeesInv'
  BY <1>1, StepSees
<1>3. SeesInv => WalkFindsView
  BY FoundIsSeen DEF SeesInv, WalkFindsView
<1> QED BY InitSees, <1>2, <1>3, PTL DEF Spec

-----------------------------------------------------------------------------
(* The name space.                                                         *)

\* The view is a tree of names.
LEMMA ViewIsTree ==
    ASSUME NEW f \in [Branches -> SoundBranches]
    PROVE  /\ View(f) \in [Paths -> Nodes]
           /\ \A p \in Paths : View(f)[p] # None =>
                Parent[p] = Root \/ View(f)[Parent[p]] = Dir
<1>1. f \in Unions
  BY SoundType DEF Unions, BranchStates
<1>2. ASSUME NEW p \in Paths, View(f)[p] # None, Parent[p] # Root
      PROVE  View(f)[Parent[p]] = Dir
  <2>1. Parent[p] \in Paths
    BY <1>2, PathsAssumption
  <2> QED BY <1>2, <2>1, NoLayers
<1> QED BY <1>1, <1>2, ViewType

\* A step does what the calls of a file system do.
LEMMA DoesCall ==
    ASSUME NEW op, NEW p \in Paths, NEW v, Does(op, p, v)
    PROVE  NS!Call(op, p, v)
<1>1. \A f : View(f) = [q \in Paths |-> View(f)[q]]
  BY DEF View
<1>2. CASE Done(op, p, "ok") /\ ViewPut(p, v)
  <2>1. View(fs') = [View(fs) EXCEPT ![p] = v]
    BY <1>1, <1>2 DEF ViewPut
  <2>2. /\ last'.op = op /\ last'.path = p /\ last'.ret = "ok"
    BY <1>2 DEF Done
  <2>3. (last'.ret = "ok") = TRUE
    BY <2>2
  <2>4. [op |-> last.op, path |-> last.path, ok |-> last.ret = "ok"]'
          = [op |-> op, path |-> p, ok |-> TRUE]
    BY <2>2, <2>3
  <2>5. View(fs)' = [View(fs) EXCEPT ![p] = v]
    BY <2>1
  <2> QED BY <2>4, <2>5 DEF NS!Call
<1>3. CASE ViewStays /\ \E ret \in Results \ {"ok"} : Done(op, p, ret)
  <2>1. View(fs') = View(fs)
    BY <1>1, <1>3 DEF ViewStays
  <2>2. /\ last'.op = op /\ last'.path = p /\ last'.ret # "ok"
    BY <1>3 DEF Done
  <2>3. (last'.ret = "ok") = FALSE
    BY <2>2
  <2>4. [op |-> last.op, path |-> last.path, ok |-> last.ret = "ok"]'
          = [op |-> op, path |-> p, ok |-> FALSE]
    BY <2>2, <2>3
  <2>5. UNCHANGED View(fs)
    BY <2>1
  <2> QED BY <2>4, <2>5 DEF NS!Call
<1> QED BY <1>2, <1>3 DEF Does

\* The mount shows a tree.
LEMMA InitUnix == Init => NS!NSInit
<1> SUFFICES ASSUME Init PROVE NS!NSInit
  OBVIOUS
<1>1. fs \in [Branches -> SoundBranches]
  BY DEF Init
<1>2. /\ View(fs) \in [Paths -> Values \cup {None, Dir}]
      /\ \A p \in Paths : View(fs)[p] # None =>
           Parent[p] = Root \/ View(fs)[Parent[p]] = Dir
  BY <1>1, ViewIsTree DEF Nodes
<1>3. last.op = "mount" /\ last.path = Root /\ last.ret = "ok"
  BY DEF Init
<1>4. (last.ret = "ok") = TRUE
  BY <1>3
<1>5. [op |-> last.op, path |-> last.path, ok |-> last.ret = "ok"]
        = [op |-> "mount", path |-> Root, ok |-> TRUE]
  BY <1>3, <1>4
<1>6. \A p \in Paths : NS!Exists(p) => NS!IsDirectory(Parent[p])
  BY <1>2 DEF NS!Exists, NS!IsDirectory
<1> QED BY <1>2, <1>5, <1>6 DEF NS!NSInit

\* Every operation does to the view what it promises.
LEMMA NextUnix ==
    ASSUME SeesInv, OneWritable, Faults \subseteq {"create", "copyup"}, MaxPins = 0, Next
    PROVE  NS!NSNext \/ UNCHANGED NS!nsvars
<1>1. /\ SoundInv /\ Family /\ ~oops /\ Sees(dcache, fs) /\ pinned = {}
      /\ "opaque" \notin Faults /\ "whiteout" \notin Faults /\ "copydata" \notin Faults
      /\ "mknod" \notin Faults
  BY DEF SeesInv
<1>2. Kept /\ SoundInv' /\ oops' = FALSE /\ Family'
  BY <1>1, NextKept, NextSound, NextNoOops, NextFamily DEF SoundInv
<1>3. ASSUME NEW p \in Paths, unionfs_lookup(p) \/ Prune(p) \/ Pin(p) \/ Unpin(p)
      PROVE  UNCHANGED NS!nsvars
  <2>1. fs' = fs /\ last' = last
    BY <1>1, <1>3, WalkSees
  <2> QED BY <2>1 DEF NS!nsvars
<1>4. ASSUME NEW p \in Paths, NEW op, NEW v, Reached(p), View(fs)[p] = None, Does(op, p, v)
      PROVE  NS!Call(op, p, v) /\ ~NS!Exists(p) /\ NS!IsDirectory(Parent[p])
  <2>1. Parent[p] = Root \/ View(fs)[Parent[p]] = Dir
    BY <1>1, <1>4, ParentSeen
  <2> QED BY <1>4, <2>1, DoesCall DEF NS!Exists, NS!IsDirectory
<1>5. ASSUME NEW p \in Paths, unionfs_create(p) PROVE NS!NSNext
  <2>1. Reached(p) /\ View(fs)[p] = None /\ Does("create", p, Empty)
    BY <1>1, <1>2, <1>5, CreateSees DEF unionfs_create
  <2>2. NS!NewObject("create", p, Empty)
    BY <1>4, <2>1 DEF NS!NewObject
  <2> QED BY <2>2 DEF NS!NSNext
<1>6. ASSUME NEW p \in Paths, NEW v \in Values, unionfs_mknod(p, v) PROVE NS!NSNext
  <2>1. Reached(p) /\ View(fs)[p] = None /\ Does("mknod", p, v)
    BY <1>1, <1>2, <1>6, NewNodeSees DEF unionfs_mknod, NewNode
  <2>2. NS!NewObject("mknod", p, v)
    BY <1>4, <2>1 DEF NS!NewObject
  <2> QED BY <2>2 DEF NS!NSNext
<1>7. ASSUME NEW p \in Paths, NEW v \in Values, unionfs_symlink(p, v) PROVE NS!NSNext
  <2>1. Reached(p) /\ View(fs)[p] = None /\ Does("symlink", p, v)
    BY <1>1, <1>2, <1>7, NewNodeSees DEF unionfs_symlink, NewNode
  <2>2. NS!NewObject("symlink", p, v)
    BY <1>4, <2>1 DEF NS!NewObject
  <2> QED BY <2>2 DEF NS!NSNext
<1>8. ASSUME NEW p \in Paths, unionfs_mkdir(p) PROVE NS!NSNext
  <2>1. Reached(p) /\ View(fs)[p] = None /\ Does("mkdir", p, Dir)
    BY <1>1, <1>2, <1>8, MkdirSees DEF unionfs_mkdir
  <2>2. NS!Mkdir(p)
    BY <1>4, <2>1 DEF NS!Mkdir
  <2> QED BY <2>2 DEF NS!NSNext
<1>9. ASSUME NEW p \in Paths, unionfs_unlink(p) PROVE NS!NSNext
  <2>1. View(fs)[p] \in Values /\ Does("unlink", p, None)
    BY <1>1, <1>2, <1>9, UnlinkSees
  <2>2. NS!Unlink(p)
    BY <2>1, DoesCall DEF NS!Unlink
  <2> QED BY <2>2 DEF NS!NSNext
<1>10. ASSUME NEW p \in Paths, unionfs_rmdir(p) PROVE NS!NSNext
  <2>1. /\ View(fs)[p] = Dir /\ Does("rmdir", p, None)
        /\ last'.ret = "ok" => \A c \in Children(p) : View(fs)[c] = None
    BY <1>1, <1>2, <1>10, RmdirSees
  <2>2. [op |-> last.op, path |-> last.path, ok |-> last.ret = "ok"]'.ok => NS!IsEmptyDir(p)
    BY <2>1 DEF NS!IsEmptyDir, Children
  <2>3. NS!Rmdir(p)
    BY <2>1, <2>2, DoesCall DEF NS!Rmdir
  <2> QED BY <2>3 DEF NS!NSNext
<1>11. ASSUME NEW p \in Paths, NEW v \in Values, unionfs_setattr(p, v) PROVE NS!NSNext
  <2>1. \/ View(fs)[p] \in Values /\ Does("setattr", p, v)
        \/ View(fs)[p] = Dir /\ Does("setattr", p, Dir)
    BY <1>1, <1>2, <1>11, SetattrSees
  <2>2. NS!Setattr(p, v)
    BY <2>1, DoesCall DEF NS!Setattr
  <2> QED BY <2>2 DEF NS!NSNext
<1> QED BY <1>3, <1>5, <1>6, <1>7, <1>8, <1>9, <1>10, <1>11 DEF Next

\* With one writable branch, if only the creation of a file and of a copy may
\* run out of space and nobody holds a removed name, the union behaves as one
\* file system does: each call that reports success has exactly its effect on
\* what the branches show together, each call that fails has none.
THEOREM UnionIsUnix ==
    ASSUME Writable = {0}, Faults \subseteq {"create", "copyup"}, MaxPins = 0
    PROVE  Spec => UnixSemantics
<1>1. OneWritable /\ ~Undone
  BY DEF OneWritable, Undone
<1>2. SeesInv /\ [Next]_vars => SeesInv'
  BY <1>1, StepSees
<1>3. SeesInv /\ [Next]_vars => [NS!NSNext]_(NS!nsvars)
  <2> SUFFICES ASSUME SeesInv, [Next]_vars PROVE [NS!NSNext]_(NS!nsvars)
    OBVIOUS
  <2>1. CASE Next
    BY <1>1, <2>1, NextUnix
  <2>2. CASE UNCHANGED vars
    <3>1. fs' = fs /\ last' = last
      BY <2>2 DEF vars
    <3> QED BY <3>1 DEF NS!nsvars
  <2> QED BY <2>1, <2>2
<1> QED BY InitSees, InitUnix, <1>2, <1>3, PTL DEF Spec, UnixSemantics, NS!NSSpec

-----------------------------------------------------------------------------
(* What rmdir refuses.                                                     *)

\* check_empty reads the layers of the directory and nothing else, if there are
\* two branches and the second has no opaque directory: the pointer that a
\* partial lookup adds then is to a layer that the lookup itself had left out
\* behind a file.
LEMMA ReadsTheLayers ==
    ASSUME SoundInv, OneWritable, Sees(dcache, fs), MaxPins = 0, NB =< 2,
           \A b \in Branches \ {0} : fs[b].opq = {},
           NEW p \in Paths, Reached(p), Present(p), Object(fs, Target(p), p) = Dir,
           NEW e, e = PartialLookup(fs, DentryOf(Parent[p]), Target(p), p)
    PROVE  \A b \in ReadForEmpty(e, p) : b \in Layers(fs)[p]
<1> DEFINE d == Target(p)
           pd == DentryOf(Parent[p])
           l == Layers(fs)[Parent[p]]
           lim   == IF pd.bopaque # -1 /\ pd.bopaque < pd.bend
                    THEN pd.bopaque ELSE pd.bend
           S     == {b \in Searched(fs, pd, p, pd.bstart + 1, lim) : d.hid[b] = "null"}
           marks == WhiteoutIn(fs, p, S) \cup OpaqueIn(fs, p, S)
           found == FoundIn(fs, p, UpTo(S, marks))
<1>1. /\ d \in GoodDentries /\ pd \in GoodDentries
      /\ fs \in [Branches -> SoundBranches]
  BY TargetFits, ReachedParent DEF SoundInv, BranchesSound
<1>2. Agrees(d, p, fs) /\ View(fs)[p] = Dir
  BY TargetSeen
<1>3. /\ p \notin fs[0].wh
      /\ \A c \in Branches \ {0} : e.hid[c] # "null" => p \notin fs[c].wh
  BY RemovedFits
<1>4. Searched(fs, pd, p, pd.bstart, pd.bend) = l
  BY ParentSees
<1>5. /\ \A b \in Branches : e.hid[b] = IF b \in found THEN "live" ELSE d.hid[b]
      /\ e.bend = IF marks # {} THEN Leftmost(marks)
                  ELSE IF found # {} THEN Rightmost(found) ELSE d.bend
      /\ e.bopaque = IF marks # {} THEN Leftmost(marks) ELSE d.bopaque
  BY DEF PartialLookup
<1>6. \A b \in Branches : b = 0 \/ b = 1
  BY BranchAssumption DEF Branches
<1>7. /\ l \in SUBSET Branches /\ Layers(fs)[p] = LayerOf(fs, p, l)
      /\ View(fs)[p] = ShownBy(fs, p, l)
  BY ViewIs
<1>8. \A b \in Branches : b \in Layers(fs)[p] <=>
         /\ b \in Unhidden(fs, p, l) /\ fs[b].node[p] = Dir
         /\ \A c \in Unhidden(fs, p, l) : c < b /\ fs[c].node[p] = Dir => p \notin fs[c].opq
  <2> HIDE DEF l
  <2> QED BY <1>1, <1>2, <1>7, LayerIs
<1>9. S \in SUBSET Branches /\ 0 \notin S
  <2>1. \A b \in S : b \in Branches /\ pd.bstart + 1 =< b
    BY DEF Searched
  <2>2. pd.bstart \in Int /\ 0 =< pd.bstart
    BY <1>1, GoodFields, ZeroBranch
  <2> HIDE DEF S
  <2> QED BY <2>1, <2>2
<1>10. marks \in SUBSET S /\ found \in SUBSET S
  BY DEF WhiteoutIn, OpaqueIn, FoundIn, UpTo
<1>11. ASSUME NEW b \in ReadForEmpty(e, p) PROVE b \in Layers(fs)[p]
  <2>1. /\ b \in Branches /\ e.hid[b] = "live" /\ fs[b].node[p] = Dir
        /\ b =< e.bend /\ (e.bopaque = -1 \/ b =< e.bopaque)
    BY DEF ReadForEmpty
  <2>2. CASE b = 0
    <3>1. IsDir(fs, 0, p) /\ p \in AllPaths
      BY <2>1, <2>2, PathsAssumption DEF IsDir, AllPaths
    <3> QED BY <1>1, <2>2, <3>1, TopLayer
  <2>3. CASE b = 1 /\ d.hid[1] # "null"
    <3>1. S = {}
      <4>1. \A c \in S : d.hid[c] = "null"
        OBVIOUS
      <4> HIDE DEF S
      <4> QED BY <1>6, <1>9, <2>3, <4>1
    <3> HIDE DEF S, found, marks, d
    <3>2. e.bend = d.bend /\ e.hid[1] = d.hid[1]
      BY <1>5, <1>10, <2>1, <2>3, <3>1
    <3>3. b \in DirsOf(d, p, fs)
      BY <2>1, <2>3, <3>2 DEF DirsOf
    <3> QED BY <1>2, <3>3 DEF Agrees
  <2>4. CASE b = 1 /\ d.hid[1] = "null"
    <3>1. 1 \in found /\ 1 \in S
      <4> HIDE DEF S, found, d
      <4> QED BY <1>5, <1>10, <2>1, <2>4
    <3>2. p \notin fs[1].wh /\ p \notin fs[1].opq
      BY <1>3, <2>1, <2>4
    <3>3. marks = {}
      <4>1. \A c \in marks : c = 1
        <5> HIDE DEF marks, S
        <5> QED BY <1>6, <1>9, <1>10
      <4>2. 1 \notin marks
        <5> HIDE DEF S
        <5> QED BY <3>2 DEF WhiteoutIn, OpaqueIn
      <4> HIDE DEF marks
      <4> QED BY <4>1, <4>2
    <3>4. d.bopaque # 0
      <4>1. e.bopaque = d.bopaque
        <5> HIDE DEF marks, d
        <5> QED BY <1>5, <3>3
      <4> QED BY <2>1, <2>4, <4>1
    <3>5. p \notin fs[0].opq
      BY <1>2, <3>4 DEF Agrees
    <3>6. 1 \in l
      <4>1. pd.hid[1] = "live" /\ IsDir(fs, 1, Parent[p]) /\ pd.bstart + 1 =< 1 /\ 1 =< lim
        BY <3>1 DEF Searched
      <4>2. pd.bstart \in Int /\ pd.bend \in Int /\ pd.bopaque \in Int
        BY <1>1, GoodFields, ZeroBranch, BranchAssumption
      <4>3. pd.bstart =< 1 /\ 1 =< pd.bend
        BY <4>1, <4>2
      <4>4. 1 \in Searched(fs, pd, p, pd.bstart, pd.bend)
        BY <2>1, <2>4, <4>1, <4>3 DEF Searched
      <4> QED BY <1>4, <4>4
    <3> HIDE DEF l
    <3>7. 1 \in Unhidden(fs, p, l)
      BY <1>3, <1>6, <1>7, <2>1, <2>4, <3>2, <3>6, ValuesAssumption DEF Unhidden
    <3>8. \A c \in Unhidden(fs, p, l) : c < 1 => c = 0
      BY <1>6, <1>7 DEF Unhidden
    <3> QED BY <1>8, <2>1, <2>4, <3>5, <3>7, <3>8
  <2> QED BY <1>6, <2>1, <2>2, <2>3, <2>4
<1> QED BY <1>11

\* So what it finds is to be seen.
LEMMA RefusedForCause ==
    ASSUME SoundInv, OneWritable, Sees(dcache, fs), MaxPins = 0, NB =< 2,
           \A b \in Branches \ {0} : fs[b].opq = {},
           NEW p \in Paths, Reached(p), Present(p), Object(fs, Target(p), p) = Dir,
           ~CheckEmpty(PartialLookup(fs, DentryOf(Parent[p]), Target(p), p), p)
    PROVE  \E c \in Children(p) : View(fs)[c] # None
<1> DEFINE e == PartialLookup(fs, DentryOf(Parent[p]), Target(p), p)
           l == Layers(fs)[p]
<1>1. \A b \in ReadForEmpty(e, p) : b \in l
  <2>1. e = PartialLookup(fs, DentryOf(Parent[p]), Target(p), p)
    OBVIOUS
  <2> HIDE DEF e
  <2> QED BY <2>1, ReadsTheLayers
<1>2. /\ e \in GoodDentries /\ Bounded(e)
      /\ (e.bstart = 0 /\ e.hid[0] = "live") \/ fs[0].node[p] = None
  <2>1. e = PartialLookup(fs, DentryOf(Parent[p]), Target(p), p)
    OBVIOUS
  <2> HIDE DEF e
  <2> QED BY <2>1, RemovedFits DEF Fits
<1>3. fs \in [Branches -> SoundBranches]
  BY DEF SoundInv, BranchesSound
<1>4. ~CheckEmpty(e, p)
  OBVIOUS
<1> HIDE DEF e
<1>5. PICK c \in Children(p), b \in ReadForEmpty(e, p) :
        /\ fs[b].node[c] # None
        /\ \A a \in ReadForEmpty(e, p) : a < b => c \notin fs[a].wh
  BY <1>4 DEF CheckEmpty
<1>6. c \in Paths /\ Parent[c] = p /\ b \in Branches /\ b =< e.bend
      /\ (e.bopaque = -1 \/ b =< e.bopaque)
  BY DEF Children, ReadForEmpty
<1>7. l \in SUBSET Branches /\ View(fs)[c] = ShownBy(fs, c, l)
  <2>1. /\ View(fs)[c] = ShownBy(fs, c, Layers(fs)[Parent[c]])
        /\ Layers(fs)[Parent[c]] \in SUBSET Branches
    BY <1>6, ViewIs
  <2> QED BY <1>6, <2>1
<1>8. \A x \in Branches : x = 0 \/ x = 1
  BY BranchAssumption DEF Branches
<1>9. ASSUME NEW a \in l, a =< b PROVE c \notin fs[a].wh
  <2>1. CASE a = b
    <3>1. fs[b] \in SoundBranches
      BY <1>3, <1>6
    <3> QED BY <1>5, <1>6, <2>1, <3>1, SoundType DEF Unambiguous
  <2>2. CASE a # b
    <3>1. a \in Branches
      BY <1>7
    <3>2. a = 0 /\ b = 1
      BY <1>6, <1>8, <1>9, <2>2, <3>1
    <3> SUFFICES ASSUME c \in fs[0].wh PROVE FALSE
      BY <3>2
    <3>3. fs[0].node[p] = Dir
      <4>1. IsDir(fs, 0, Parent[c])
        BY <1>3, <1>6, InDirectory, ZeroBranch
      <4> QED BY <1>6, <4>1, PathsAssumption DEF IsDir
    <3>4. e.bstart = 0 /\ e.hid[0] = "live"
      BY <1>2, <3>3, ValuesAssumption
    <3>5. 0 =< e.bend /\ (e.bopaque = -1 \/ 0 =< e.bopaque)
      <4>1. e.bend \in Int /\ e.bopaque \in Int
        BY <1>2, GoodFields, ZeroBranch, BranchAssumption
      <4> QED BY <1>6, <3>2, <4>1
    <3>6. 0 \in ReadForEmpty(e, p)
      BY <3>3, <3>4, <3>5, ZeroBranch DEF ReadForEmpty
    <3> QED BY <1>5, <3>2, <3>6
  <2> QED BY <2>1, <2>2
<1> HIDE DEF l
<1>10. b \in Unhidden(fs, c, l)
  BY <1>1, <1>5, <1>9 DEF Unhidden
<1>11. View(fs)[c] # None
  BY <1>3, <1>6, <1>7, <1>10, LayerIs
<1> QED BY <1>11

\* Only a rmdir whose check_empty has failed is refused as not empty.
LEMMA OnlyRefused ==
    ASSUME Next, oops' = FALSE
    PROVE  \/ UNCHANGED <<fs, last>>
           \/ last'.op # "rmdir" \/ last'.ret # "ENOTEMPTY"
           \/ \E p \in Paths :
                /\ Reached(p) /\ Present(p) /\ Object(fs, Target(p), p) = Dir
                /\ ~CheckEmpty(PartialLookup(fs, DentryOf(Parent[p]), Target(p), p), p)
                /\ fs' = fs /\ last'.path = p
<1>1. ASSUME NEW p \in Paths, unionfs_lookup(p) \/ Prune(p) \/ Pin(p) \/ Unpin(p)
      PROVE  UNCHANGED <<fs, last>>
  BY <1>1 DEF unionfs_lookup, Prune, Pin, Unpin
<1>2. ASSUME NEW p \in Paths, unionfs_create(p) PROVE last'.op = "create"
  BY <1>2 DEF unionfs_create, CreateDone, CreateFails, Crashes, Done
<1>3. ASSUME NEW p \in Paths, NEW op, NEW n, NewNode(op, p, n) PROVE last'.op = op
  BY <1>3 DEF NewNode, CreateDone, CreateFails, Crashes, Done
<1>4. ASSUME NEW p \in Paths, unionfs_mkdir(p) PROVE last'.op = "mkdir"
  BY <1>4 DEF unionfs_mkdir, CreateDone, CreateFails, Crashes, Done
<1>5. ASSUME NEW p \in Paths, unionfs_unlink(p) PROVE last'.op = "unlink"
  <2>1. Done("unlink", p, "ok") \/ Done("unlink", p, "error")
    BY <1>5 DEF unionfs_unlink, WhitedOut, WhiteoutFails, Crashes
  <2> QED BY <2>1 DEF Done
<1>6. ASSUME NEW p \in Paths, NEW v \in Values, unionfs_setattr(p, v)
      PROVE  last'.op = "setattr"
  BY <1>6 DEF unionfs_setattr, Copyup, Crashes, Done
<1>7. ASSUME NEW p \in Paths, unionfs_rmdir(p), last'.ret = "ENOTEMPTY"
      PROVE  /\ Reached(p) /\ Present(p) /\ Object(fs, Target(p), p) = Dir
             /\ ~CheckEmpty(PartialLookup(fs, DentryOf(Parent[p]), Target(p), p), p)
             /\ fs' = fs /\ last'.path = p
  <2> DEFINE e == PartialLookup(fs, DentryOf(Parent[p]), Target(p), p)
  <2>1. Reached(p) /\ Present(p) /\ Object(fs, Target(p), p) = Dir
    BY <1>7 DEF unionfs_rmdir
  <2>2. \/ ~CheckEmpty(e, p) /\ fs' = fs /\ Done("rmdir", p, "ENOTEMPTY")
        \/ Done("rmdir", p, "ok") \/ Done("rmdir", p, "error")
    BY <1>7 DEF unionfs_rmdir, WhitedOut, WhiteoutFails, Crashes
  <2> HIDE DEF e
  <2>3. ~CheckEmpty(e, p) /\ fs' = fs /\ last'.path = p
    BY <1>7, <2>2 DEF Done
  <2> QED BY <2>1, <2>3 DEF e
<1> QED BY <1>1, <1>2, <1>3, <1>4, <1>5, <1>6, <1>7 DEF Next, unionfs_mknod, unionfs_symlink

\* Lower branches keep their directories as they were mounted; a refusal stays
\* justified as long as nothing else is done.
Refusal(l, p) == l = [op |-> "rmdir", path |-> p, ret |-> "ENOTEMPTY"]

TruthInv ==
    /\ SeesInv
    /\ \A b \in Branches \ {0} : fs[b].opq = {}
    /\ \A p \in Paths : Refusal(last, p) => \E c \in Children(p) : View(fs)[c] # None

LEMMA InitTruth == ~LowerOpaque /\ Init => TruthInv
<1> SUFFICES ASSUME ~LowerOpaque, Init PROVE TruthInv
  OBVIOUS
<1>1. SeesInv /\ \A b \in Branches \ {0} : fs[b].opq = {}
  BY InitSees DEF Init
<1>2. \A p \in Paths : ~Refusal(last, p)
  <2>1. last.op = "mount"
    BY DEF Init
  <2> QED BY <2>1 DEF Refusal
<1> QED BY <1>1, <1>2 DEF TruthInv

\* The step that refuses tells the truth about what it has read.
LEMMA StepTruth ==
    ASSUME TruthInv, OneWritable, ~Undone, MaxPins = 0, NB =< 2, [Next]_vars
    PROVE  /\ TruthInv'
           /\ \A p \in Paths : Refusal(last', p) => \E c \in Children(p) : View(fs)[c] # None
<1>1. SeesInv' /\ SeesInv
  BY StepSees DEF TruthInv
<1>2. /\ SoundInv /\ Sees(dcache, fs) /\ Inv /\ oops' = FALSE
  BY <1>1 DEF SeesInv, SoundInv, Inv
<1>3. fs' = fs \/ Safe(fs, fs')
  BY <1>2, NextKept DEF Kept, vars
<1>4. \A b \in Branches \ {0} : fs[b].opq = {} /\ fs'[b].opq = {}
  <2>1. \A b \in Branches \ {0} : IsRobranch(b)
    BY DEF OneWritable, IsRobranch
  <2> QED BY <1>3, <2>1 DEF TruthInv, Safe
<1>5. ASSUME NEW p \in Paths, Refusal(last', p)
      PROVE  fs' = fs /\ \E c \in Children(p) : View(fs)[c] # None
  <2>1. last'.op = "rmdir" /\ last'.path = p /\ last'.ret = "ENOTEMPTY"
    BY <1>5 DEF Refusal
  <2>2. CASE UNCHANGED <<fs, last>>
    BY <1>5, <2>2 DEF TruthInv
  <2>3. CASE Next /\ ~UNCHANGED <<fs, last>>
    <3>1. /\ Reached(p) /\ Present(p) /\ Object(fs, Target(p), p) = Dir
          /\ ~CheckEmpty(PartialLookup(fs, DentryOf(Parent[p]), Target(p), p), p)
          /\ fs' = fs
      BY <1>2, <2>1, <2>3, OnlyRefused
    <3> QED BY <1>2, <1>4, <3>1, RefusedForCause
  <2> QED BY <2>2, <2>3 DEF vars
<1>6. \A p \in Paths : Refusal(last', p) => \E c \in Children(p) : View(fs')[c] # None
  BY <1>5
<1> QED BY <1>1, <1>4, <1>5, <1>6 DEF TruthInv

\* With two branches, one of them writable, no opaque directory in the other
\* and nothing held, rmdir refuses only a directory in which the union shows an
\* entry, so that a user who has emptied a directory can remove it.
THEOREM RefusesForCause ==
    ASSUME Writable = {0}, NB =< 2, ~LowerOpaque, MaxPins = 0,
           "opaque" \notin Faults, "whiteout" \notin Faults, "copydata" \notin Faults
    PROVE  Spec => RmdirTruthful
<1>1. OneWritable /\ ~Undone
  BY DEF OneWritable, Undone
<1>2. TruthInv /\ [Next]_vars => TruthInv'
  BY <1>1, StepTruth
<1>3. TruthInv /\ [Next]_vars =>
        [\A p \in Paths : last' = [op |-> "rmdir", path |-> p, ret |-> "ENOTEMPTY"]
            => \E c \in Children(p) : View(fs)[c] # None]_vars
  BY <1>1, StepTruth DEF Refusal
<1>4. Init => TruthInv
  BY InitTruth
<1> QED BY <1>2, <1>3, <1>4, PTL DEF Spec, RmdirTruthful
=============================================================================
