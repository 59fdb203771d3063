------------------------- MODULE UnionDentry_proofs -------------------------
(***************************************************************************)
(* Lemmas about branches and dentries, for every number of branches and    *)
(* every tree of paths: what Leftmost, Rightmost, Lookup, PartialLookup    *)
(* and Pointed return.  UnionFS_proofs and UnionRename_proofs rest on them.*)
(***************************************************************************)
EXTENDS UnionDentry, FiniteSetTheorems, TLAPS

-----------------------------------------------------------------------------
(* Leftmost and rightmost branches.                                        *)

\* A non-empty set of naturals has a least element.
LEMMA LeastNatural ==
    ASSUME NEW S, S \subseteq Nat, S # {}
    PROVE  \E m \in S : \A n \in S : m =< n
<1> DEFINE Less == {ss \in Nat \X Nat : ss[1] < ss[2]}
<1>1. IsWellFoundedOn(Less, Nat)
  BY NatLessThanWellFounded DEF OpToRel
<1>2. PICK m \in S : \A n \in S : ~ (<<n, m>> \in Less)
  <2> HIDE DEF Less
  <2> QED BY <1>1, WFMin
<1>3. \A n \in S : ~ (n < m)
  BY <1>2
<1> QED BY <1>3

\* Leftmost picks the least element of a non-empty set of branches.
LEMMA LeftmostIsLeast ==
    ASSUME NEW S \in SUBSET Branches, S # {}
    PROVE  Leftmost(S) \in S /\ \A c \in S : Leftmost(S) =< c
<1>1. S \subseteq Nat
  BY BranchAssumption DEF Branches
<1>2. \E b \in S : \A c \in S : b =< c
  BY <1>1, LeastNatural
<1> QED BY <1>2 DEF Leftmost

\* Rightmost picks the greatest one.
LEMMA RightmostIsGreatest ==
    ASSUME NEW S \in SUBSET Branches, S # {}
    PROVE  Rightmost(S) \in S /\ \A c \in S : c =< Rightmost(S)
<1> DEFINE T == {NB - 1 - b : b \in S}
<1>1. T \subseteq Nat /\ T # {}
  <2>1. \A b \in S : NB - 1 - b \in Nat
    BY BranchAssumption DEF Branches
  <2> QED BY <2>1
<1>2. PICK t \in T : \A u \in T : t =< u
  BY <1>1, LeastNatural
<1>3. PICK b \in S : t = NB - 1 - b
  BY <1>2
<1>4. \A c \in S : c =< b
  BY <1>2, <1>3, BranchAssumption DEF Branches
<1> QED BY <1>4 DEF Rightmost

-----------------------------------------------------------------------------
(* The merged view.  Layers is defined by recursion from a directory to    *)
(* the one above it; here it is shown to satisfy its equation.             *)

\* What a directory contributes, if l contributes to the one above it.
LayerOf(f, q, l) ==
    LET U == Unhidden(f, q, l)
        D == {b \in U : f[b].node[q] = Dir}
    IN  IF U = {} THEN {}
        ELSE IF Leftmost(U) \notin D THEN {}
        ELSE {b \in D : \A c \in D : c < b => q \notin f[c].opq}

AreLayers(L, f, Q) ==
    L = [q \in Q |-> IF q = Root THEN Branches ELSE LayerOf(f, q, L[Parent[q]])]

\* The directories at most n levels below Root.
DownTo(n) == {Root} \cup {p \in Paths : Cardinality(Above[p]) =< n - 1}

\* A directory is one level below the one it is in.
LEMMA Deeper ==
    ASSUME NEW p \in Paths
    PROVE  /\ Cardinality(Above[p]) \in Nat
           /\ Parent[p] # Root => /\ Parent[p] \in Paths
                                  /\ Cardinality(Above[p]) = Cardinality(Above[Parent[p]]) + 1
<1>1. \A q \in Paths : IsFiniteSet(Above[q]) /\ Cardinality(Above[q]) \in Nat
  BY PathsAssumption, FS_Subset, FS_CardinalityType
<1>2. ASSUME Parent[p] # Root
      PROVE  /\ Parent[p] \in Paths
             /\ Cardinality(Above[p]) = Cardinality(Above[Parent[p]]) + 1
  <2>1. /\ Parent[p] \in Paths /\ Parent[p] \notin Above[Parent[p]]
        /\ Above[p] = Above[Parent[p]] \cup {Parent[p]}
    BY <1>2, PathsAssumption
  <2>2. Cardinality(Above[Parent[p]] \cup {Parent[p]}) = Cardinality(Above[Parent[p]]) + 1
    BY <1>1, <2>1, FS_AddElement
  <2> QED BY <2>1, <2>2
<1> QED BY <1>1, <1>2

\* The paths are finite: nobody climbs for ever.
LEMMA NoEndlessClimb ==
    ASSUME NEW Q \in SUBSET Paths, \A q \in Q : Parent[q] \in Q
    PROVE  Q = {}
<1> SUFFICES ASSUME Q # {} PROVE FALSE
  OBVIOUS
<1> DEFINE Depths == {Cardinality(Above[q]) : q \in Q}
<1>1. Depths \subseteq Nat /\ Depths # {}
  BY Deeper
<1>2. PICK n \in Depths : \A m \in Depths : n =< m
  BY <1>1, LeastNatural
<1>3. PICK q \in Q : n = Cardinality(Above[q])
  BY <1>2
<1>4. Parent[q] \in Q /\ Parent[q] # Root
  BY PathsAssumption
<1>5. /\ Cardinality(Above[Parent[q]]) \in Nat
      /\ Cardinality(Above[q]) = Cardinality(Above[Parent[q]]) + 1
  BY <1>4, Deeper
<1>6. n =< Cardinality(Above[Parent[q]])
  BY <1>2, <1>4
<1> QED BY <1>3, <1>5, <1>6

LEMMA LayersSolvable ==
    ASSUME NEW f
    PROVE  \E L : AreLayers(L, f, AllPaths)
<1> DEFINE Bad == {n \in Nat : ~ \E L : AreLayers(L, f, DownTo(n))}
<1>1. \E L : AreLayers(L, f, DownTo(0))
  <2>1. DownTo(0) = {Root}
    BY Deeper DEF DownTo
  <2> DEFINE L == [q \in {Root} |-> Branches]
  <2>2. L = [q \in {Root} |-> IF q = Root THEN Branches ELSE LayerOf(f, q, L[Parent[q]])]
    OBVIOUS
  <2> QED BY <2>1, <2>2 DEF AreLayers
<1>2. ASSUME NEW n \in Nat, NEW L, AreLayers(L, f, DownTo(n))
      PROVE  \E M : AreLayers(M, f, DownTo(n + 1))
  <2> DEFINE M == [q \in DownTo(n + 1) |->
                      IF q = Root THEN Branches ELSE LayerOf(f, q, L[Parent[q]])]
  <2>1. ASSUME NEW q \in DownTo(n + 1), q # Root
        PROVE  Parent[q] \in DownTo(n)
    BY <2>1, Deeper DEF DownTo
  <2>2. DownTo(n) \subseteq DownTo(n + 1)
    BY Deeper DEF DownTo
  <2>3. \A q \in DownTo(n) : M[q] = L[q]
    BY <2>2, <1>2 DEF AreLayers
  <2>4. M = [q \in DownTo(n + 1) |->
                IF q = Root THEN Branches ELSE LayerOf(f, q, M[Parent[q]])]
    BY <2>1, <2>3
  <2> QED BY <2>4 DEF AreLayers
<1>3. Bad = {}
  <2> SUFFICES ASSUME Bad # {} PROVE FALSE
    OBVIOUS
  <2>1. PICK n \in Bad : \A m \in Bad : n =< m
    BY LeastNatural
  <2>2. n # 0
    BY <1>1
  <2>3. n - 1 \in Nat /\ n - 1 \notin Bad
    BY <2>1, <2>2
  <2>4. n - 1 + 1 = n
    BY <2>1
  <2> QED BY <1>2, <2>1, <2>3, <2>4
<1> DEFINE k == Cardinality(Paths)
<1>4. k \in Nat /\ \A p \in Paths : Cardinality(Above[p]) =< k
  BY PathsAssumption, FS_Subset, FS_CardinalityType
<1>5. DownTo(k + 1) = AllPaths
  BY <1>4, Deeper DEF DownTo, AllPaths
<1>6. \E L : AreLayers(L, f, DownTo(k + 1))
  BY <1>3, <1>4
<1> QED BY <1>5, <1>6

\* The layers of every directory are those of its own equation.
LEMMA LayersDef ==
    ASSUME NEW f
    PROVE  AreLayers(Layers(f), f, AllPaths)
<1> DEFINE L == CHOOSE M : AreLayers(M, f, AllPaths)
<1>1. AreLayers(L, f, AllPaths)
  BY LayersSolvable
<1>2. Layers(f) = L
  BY Zenon DEF Layers, AreLayers, LayerOf
<1> QED BY <1>1, <1>2

\* A directory's layers are branches, and the view is a tree of nodes.
LEMMA LayersAre ==
    ASSUME NEW f, NEW q \in AllPaths
    PROVE  Layers(f)[q] \in SUBSET Branches
<1> DEFINE L == Layers(f)
           Bad == {p \in Paths : ~ (L[p] \subseteq Branches)}
<1>1. L = [p \in AllPaths |-> IF p = Root THEN Branches ELSE LayerOf(f, p, L[Parent[p]])]
  BY LayersDef DEF AreLayers
<1> HIDE DEF L
<1>2. L[Root] = Branches
  BY <1>1 DEF AllPaths
<1>3. \A p \in Paths : L[p] = LayerOf(f, p, L[Parent[p]])
  BY <1>1, PathsAssumption DEF AllPaths
<1>4. \A p, M : LayerOf(f, p, M) \subseteq M
  BY DEF LayerOf, Unhidden
<1>5. ASSUME NEW p \in Bad PROVE Parent[p] \in Bad /\ Cardinality(Above[Parent[p]]) < Cardinality(Above[p])
  <2>1. L[p] \subseteq L[Parent[p]]
    BY <1>3, <1>4
  <2>2. Parent[p] # Root
    BY <1>2, <2>1
  <2> QED BY <2>1, <2>2, Deeper
<1>6. Bad = {}
  <2> SUFFICES ASSUME Bad # {} PROVE FALSE
    OBVIOUS
  <2> DEFINE Depths == {Cardinality(Above[p]) : p \in Bad}
  <2>1. Depths \subseteq Nat /\ Depths # {}
    BY Deeper
  <2>2. PICK n \in Depths : \A m \in Depths : n =< m
    BY <2>1, LeastNatural
  <2>3. PICK p \in Bad : n = Cardinality(Above[p])
    BY <2>2
  <2>4. n =< Cardinality(Above[Parent[p]])
    BY <1>5, <2>2
  <2> QED BY <1>5, <2>1, <2>3, <2>4, Deeper
<1> QED BY <1>2, <1>6 DEF AllPaths, L

LEMMA ViewType ==
    ASSUME NEW f \in Unions
    PROVE  View(f) \in [Paths -> Nodes]
<1> DEFINE L == Layers(f)
<1>1. ASSUME NEW p \in Paths
      PROVE  (IF Unhidden(f, p, L[Parent[p]]) = {} THEN None
              ELSE f[Leftmost(Unhidden(f, p, L[Parent[p]]))].node[p]) \in Nodes
  <2> DEFINE U == Unhidden(f, p, L[Parent[p]])
  <2>1. U \in SUBSET Branches
    <3>1. Parent[p] \in AllPaths
      BY PathsAssumption DEF AllPaths
    <3> QED BY <3>1, LayersAre DEF Unhidden
  <2> HIDE DEF U
  <2>2. CASE U = {}
    BY <2>2 DEF Nodes, U
  <2>3. CASE U # {}
    <3>1. Leftmost(U) \in Branches
      BY <2>1, <2>3, LeftmostIsLeast
    <3>2. f[Leftmost(U)].node[p] \in Nodes
      BY <3>1 DEF Unions, BranchStates
    <3> QED BY <2>3, <3>2 DEF U
  <2> QED BY <2>2, <2>3
<1> HIDE DEF L
<1>2. View(f) = [p \in Paths |->
                    IF Unhidden(f, p, L[Parent[p]]) = {} THEN None
                    ELSE f[Leftmost(Unhidden(f, p, L[Parent[p]]))].node[p]]
  BY DEF View, L
<1> QED BY <1>1, <1>2

-----------------------------------------------------------------------------
(* Sound branches.                                                         *)

LEMMA SoundType ==
    ASSUME NEW br \in SoundBranches
    PROVE  /\ br \in BranchStates /\ LowerTree(br) /\ Unambiguous(br)
           /\ br.node \in [Paths -> Nodes] /\ br.wh \in SUBSET Paths
           /\ br.opq \in SUBSET Paths
           /\ br = [node |-> br.node, wh |-> br.wh, opq |-> br.opq]
BY DEF SoundBranches, BranchStates

LEMMA SoundIf ==
    ASSUME NEW node \in [Paths -> Nodes], NEW wh \in SUBSET Paths, NEW opq \in SUBSET Paths,
           \A p \in Paths : node[p] # None \/ p \in wh =>
                Parent[p] = Root \/ node[Parent[p]] = Dir,
           \A p \in opq : node[p] = Dir,
           \A p \in wh : node[p] = None
    PROVE  [node |-> node, wh |-> wh, opq |-> opq] \in SoundBranches
BY DEF SoundBranches, BranchStates, LowerTree, Unambiguous

-----------------------------------------------------------------------------
(* Dentries: what Lookup, PartialLookup and create_parents return.         *)

\* Dentries whose leftmost pointer is there.
GoodDentries == {d \in Dentries : d.hid[d.bstart] # "null"}

\* No dentry is mistaken for its absence.
LEMMA NoDentryIsNone == NoDentry \notin Dentries
<1> SUFFICES ASSUME NoDentry \in Dentries PROVE FALSE
  OBVIOUS
<1>1. NoDentry \in [bstart : Int, bend : Int, bopaque : Int,
                    hid : [Branches -> {"null", "live", "dead"}]]
  BY BranchAssumption DEF Dentries, Pointers, Branches
<1> QED BY <1>1, NoDentryAssumption

LEMMA LiveInType ==
    ASSUME NEW S
    PROVE  /\ LiveIn(S) \in [Branches -> Pointers]
           /\ \A b \in Branches : LiveIn(S)[b] = IF b \in S THEN "live" ELSE "null"
BY DEF LiveIn, Pointers

LEMMA RootDentryGood == RootDentry \in GoodDentries
BY BranchAssumption DEF RootDentry, GoodDentries, Dentries, Pointers, Branches

\* A record of the right fields is a dentry.
LEMMA DentryRecord ==
    ASSUME NEW s \in Branches, NEW e \in Branches, NEW o \in -1 .. NB - 1,
           NEW h \in [Branches -> Pointers], h[s] # "null"
    PROVE  [bstart |-> s, bend |-> e, bopaque |-> o, hid |-> h] \in GoodDentries
BY DEF GoodDentries, Dentries

\* The branch of a mark, or -1, is where a dentry can be opaque.
LEMMA BranchIsOpaque ==
    ASSUME NEW S \in SUBSET Branches, NEW o \in -1 .. NB - 1
    PROVE  (IF S = {} THEN o ELSE Leftmost(S)) \in -1 .. NB - 1
<1>1. S # {} => Leftmost(S) \in Branches
  BY LeftmostIsLeast
<1> QED BY <1>1, BranchAssumption DEF Branches

\* A positive lookup returns a dentry with pointers; a negative one a dentry
\* with a single pointer.
LEMMA LookupGood ==
    ASSUME NEW f, NEW pd, NEW p \in Paths
    PROVE  LET d == Lookup(f, pd, p)
           IN  /\ ~IsNegative(f, d, p) => d \in GoodDentries
               /\ IsNegative(f, d, p) =>
                    /\ d = [bstart |-> d.bstart, bend |-> d.bstart,
                            bopaque |-> d.bopaque, hid |-> LiveIn({d.bstart})]
                    /\ d.bopaque \in -1 .. NB - 1
<1> DEFINE S     == Searched(f, pd, p, pd.bstart, pd.bend)
           marks == WhiteoutIn(f, p, S) \cup OpaqueIn(f, p, S)
           seen  == UpTo(S, marks \cup FirstFileIn(f, p, S))
           found == FoundIn(f, p, seen)
           hit   == marks \cap seen
           plain == {b \in seen : p \notin f[b].wh}
           first == IF plain = {} THEN Leftmost(hit) ELSE Leftmost(plain)
           o     == IF hit = {} THEN -1 ELSE Leftmost(hit)
<1>1. /\ seen \in SUBSET Branches /\ hit \in SUBSET Branches
      /\ found \in SUBSET Branches
      /\ \A b \in found : f[b].node[p] # None /\ p \notin f[b].wh
  BY DEF Searched, UpTo, FoundIn
<1>2. o \in -1 .. NB - 1
  <2> HIDE DEF hit
  <2>1. -1 \in -1 .. NB - 1
    BY BranchAssumption
  <2> QED BY <1>1, <2>1, BranchIsOpaque
<1>3. CASE found # {}
  <2>1. Leftmost(found) \in found
    <3> HIDE DEF found
    <3> QED BY <1>1, <1>3, LeftmostIsLeast
  <2>2. Rightmost(found) \in found
    <3> HIDE DEF found
    <3> QED BY <1>1, <1>3, RightmostIsGreatest
  <2> DEFINE e == IF hit = {} THEN Rightmost(found) ELSE Leftmost(hit)
             d == [bstart |-> Leftmost(found), bend |-> e, bopaque |-> o,
                   hid |-> LiveIn(found)]
  <2>3. Lookup(f, pd, p) = d
    BY <1>3 DEF Lookup
  <2>4. e \in Branches
    <3> HIDE DEF found, hit
    <3> QED BY <1>1, <2>2, LeftmostIsLeast
  <2>5. LiveIn(found)[Leftmost(found)] = "live"
    <3> HIDE DEF found
    <3> QED BY <1>1, <2>1, LiveInType
  <2>6. d \in GoodDentries
    <3> HIDE DEF found, e, o
    <3> QED BY <1>1, <1>2, <2>1, <2>4, <2>5, LiveInType, DentryRecord
  <2>7. ~IsNegative(f, d, p)
    <3> HIDE DEF found, e, o
    <3> QED BY <1>1, <2>1, <2>5 DEF IsNegative
  <2> HIDE DEF d
  <2> QED BY <2>3, <2>6, <2>7
<1>4. CASE found = {}
  <2> DEFINE d == [bstart |-> first, bend |-> first, bopaque |-> o,
                   hid |-> LiveIn({first})]
  <2>1. Lookup(f, pd, p) = d
    BY <1>4 DEF Lookup
  <2>2. ASSUME ~IsNegative(f, d, p) PROVE d \in GoodDentries
    <3> HIDE DEF first, o
    <3>1. PICK b \in Branches : LiveIn({first})[b] = "live"
      BY <2>2 DEF IsNegative
    <3>2. first \in Branches /\ LiveIn({first})[first] # "null"
      BY <3>1, LiveInType
    <3> QED BY <1>2, <3>2, LiveInType, DentryRecord
  <2>3. d = [bstart |-> d.bstart, bend |-> d.bstart, bopaque |-> d.bopaque,
             hid |-> LiveIn({d.bstart})]
    OBVIOUS
  <2> QED BY <1>2, <2>1, <2>2, <2>3
<1> QED BY <1>3, <1>4

\* A partial lookup returns a dentry with the same leftmost branch.
LEMMA PartialLookupGood ==
    ASSUME NEW f, NEW pd, NEW d \in GoodDentries, NEW p \in Paths
    PROVE  /\ PartialLookup(f, pd, d, p) \in GoodDentries
           /\ PartialLookup(f, pd, d, p).bstart = d.bstart
<1> DEFINE l     == IF pd.bopaque # -1 /\ pd.bopaque < pd.bend
                    THEN pd.bopaque ELSE pd.bend
           S     == {b \in Searched(f, pd, p, pd.bstart + 1, l) :
                         d.hid[b] = "null"}
           marks == WhiteoutIn(f, p, S) \cup OpaqueIn(f, p, S)
           found == FoundIn(f, p, UpTo(S, marks))
           h     == [b \in Branches |-> IF b \in found THEN "live" ELSE d.hid[b]]
           e     == IF marks # {} THEN Leftmost(marks)
                    ELSE IF found # {} THEN Rightmost(found) ELSE d.bend
           o     == IF marks # {} THEN Leftmost(marks) ELSE d.bopaque
<1>1. marks \in SUBSET Branches /\ found \in SUBSET Branches
  BY DEF Searched, WhiteoutIn, OpaqueIn, FoundIn, UpTo
<1>2. /\ d.bstart \in Branches /\ d.bend \in Branches
      /\ d.bopaque \in -1 .. NB - 1 /\ d.hid \in [Branches -> Pointers]
      /\ d.hid[d.bstart] # "null"
  BY DEF GoodDentries, Dentries
<1>3. PartialLookup(f, pd, d, p) =
        [bstart |-> d.bstart, bend |-> e, bopaque |-> o, hid |-> h]
  BY DEF PartialLookup
<1> HIDE DEF marks, found
<1>4. e \in Branches
  BY <1>1, <1>2, LeftmostIsLeast, RightmostIsGreatest
<1>5. o \in -1 .. NB - 1
  BY <1>1, <1>2, BranchIsOpaque
<1>6. h \in [Branches -> Pointers] /\ h[d.bstart] # "null"
  BY <1>2 DEF Pointers
<1> HIDE DEF e, o, h
<1> QED BY <1>2, <1>3, <1>4, <1>5, <1>6, DentryRecord

\* Pointing a dentry at a branch makes its leftmost pointer good, also when d
\* is negative and its bstart is not known to be a branch.
LEMMA PointedGood ==
    ASSUME NEW f, NEW p \in Paths, NEW b \in Branches,
           NEW s, NEW e, NEW o \in -1 .. NB - 1, NEW h \in [Branches -> Pointers]
    PROVE  Pointed(f, [bstart |-> s, bend |-> e, bopaque |-> o, hid |-> h], p, b)
                \in GoodDentries
<1> DEFINE d     == [bstart |-> s, bend |-> e, bopaque |-> o, hid |-> h]
           range == {c \in Branches : /\ Leftmost({d.bstart, b}) =< c
                                      /\ c =< Rightmost({d.bend, b})}
           kept == {b} \cup {c \in range :
                               \/ d.hid[c] = "dead"
                               \/ d.hid[c] = "live" /\ f[c].node[p] # None}
           g == [c \in Branches |-> IF c = b THEN "live"
                                    ELSE IF c \in range \ kept THEN "null"
                                    ELSE d.hid[c]]
<1>1. kept \in SUBSET Branches /\ kept # {}
  OBVIOUS
<1>2. /\ Leftmost(kept) \in kept /\ Leftmost(kept) \in Branches
      /\ Rightmost(kept) \in Branches
  <2> HIDE DEF kept
  <2> QED BY <1>1, LeftmostIsLeast, RightmostIsGreatest
<1>3. g \in [Branches -> Pointers]
  BY DEF Pointers
<1>4. \A c \in kept : g[c] # "null"
  OBVIOUS
<1>5. Pointed(f, d, p, b) = [bstart |-> Leftmost(kept), bend |-> Rightmost(kept),
                             bopaque |-> o, hid |-> g]
  BY DEF Pointed
<1> HIDE DEF kept, g
<1> QED BY <1>2, <1>3, <1>4, <1>5, DentryRecord

\* A dentry is the record of its fields.
LEMMA GoodFields ==
    ASSUME NEW d \in GoodDentries
    PROVE  /\ d = [bstart |-> d.bstart, bend |-> d.bend,
                   bopaque |-> d.bopaque, hid |-> d.hid]
           /\ d.bstart \in Branches /\ d.bend \in Branches
           /\ d.bopaque \in -1 .. NB - 1 /\ d.hid \in [Branches -> Pointers]
           /\ d.hid[d.bstart] # "null"
BY DEF GoodDentries, Dentries

-----------------------------------------------------------------------------
(* Lookups in a directory that every branch has.                           *)

\* What is not to the right of any end is there, if anything is searched.
LEMMA UpToSome ==
    ASSUME NEW S \in SUBSET Branches, S # {}, NEW E \in SUBSET S
    PROVE  UpTo(S, E) # {}
<1>1. CASE E = {}
  BY <1>1 DEF UpTo
<1>2. CASE E # {}
  <2>1. Leftmost(E) \in E /\ \A e \in E : Leftmost(E) =< e
    BY <1>2, LeftmostIsLeast
  <2> QED BY <2>1 DEF UpTo
<1> QED BY <1>1, <1>2

\* A lookup that searches some branch returns a dentry with a pointer, also
\* when the name is not there.
LEMMA LookupSome ==
    ASSUME NEW f, NEW pd, NEW p \in Paths,
           Searched(f, pd, p, pd.bstart, pd.bend) # {}
    PROVE  Lookup(f, pd, p) \in GoodDentries
<1> DEFINE S     == Searched(f, pd, p, pd.bstart, pd.bend)
           marks == WhiteoutIn(f, p, S) \cup OpaqueIn(f, p, S)
           ends  == marks \cup FirstFileIn(f, p, S)
           seen  == UpTo(S, ends)
           found == FoundIn(f, p, seen)
           hit   == marks \cap seen
           plain == {b \in seen : p \notin f[b].wh}
           first == IF plain = {} THEN Leftmost(hit) ELSE Leftmost(plain)
           d     == Lookup(f, pd, p)
<1>1. S \in SUBSET Branches /\ ends \in SUBSET S
  BY DEF Searched, WhiteoutIn, OpaqueIn, FirstFileIn, FoundIn
<1>2. seen # {} /\ seen \in SUBSET Branches
  <2> HIDE DEF S, ends
  <2>1. UpTo(S, ends) # {}
    BY <1>1, UpToSome DEF S
  <2> QED BY <1>1, <2>1 DEF UpTo
<1>3. plain # {} \/ hit # {}
  <2>1. PICK b \in seen : TRUE
    BY <1>2
  <2>2. b \in S
    BY <2>1 DEF UpTo
  <2> QED BY <2>1, <2>2 DEF WhiteoutIn
<1>4. plain \in SUBSET Branches /\ hit \in SUBSET Branches
  BY <1>2
<1>5. first \in Branches
  <2> HIDE DEF plain, hit
  <2> QED BY <1>3, <1>4, LeftmostIsLeast
<1>6. CASE found = {}
  <2>1. d.bstart = first
    BY <1>6 DEF Lookup
  <2>2. CASE IsNegative(f, d, p)
    <3>1. /\ d = [bstart |-> d.bstart, bend |-> d.bstart,
                  bopaque |-> d.bopaque, hid |-> LiveIn({d.bstart})]
          /\ d.bopaque \in -1 .. NB - 1
      BY <2>2, LookupGood
    <3>2. LiveIn({first}) \in [Branches -> Pointers] /\ LiveIn({first})[first] # "null"
      <4> HIDE DEF first
      <4>1. first \in {first}
        OBVIOUS
      <4> QED BY <1>5, <4>1, LiveInType
    <3> HIDE DEF first, d
    <3> QED BY <1>5, <2>1, <3>1, <3>2, DentryRecord DEF d
  <2> QED BY <2>2, LookupGood
<1>7. CASE found # {}
  <2>1. found \in SUBSET Branches /\ \A b \in found : f[b].node[p] # None /\ p \notin f[b].wh
    BY <1>2 DEF FoundIn
  <2>2. d.hid = LiveIn(found)
    BY <1>7 DEF Lookup
  <2>3. ~IsNegative(f, d, p)
    <3> HIDE DEF found, d
    <3> QED BY <1>7, <2>1, <2>2, LiveInType DEF IsNegative
  <2> QED BY <2>3, LookupGood
<1> QED BY <1>6, <1>7

\* The root is a directory everywhere.
LEMMA RootSearched ==
    ASSUME NEW f, NEW p \in Paths, Parent[p] = Root
    PROVE  /\ Searched(f, RootDentry, p, RootDentry.bstart, RootDentry.bend) = Branches
           /\ Lookup(f, RootDentry, p) \in GoodDentries
<1>1. Searched(f, RootDentry, p, RootDentry.bstart, RootDentry.bend) = Branches
  BY BranchAssumption DEF Searched, RootDentry, IsDir, Branches
<1>2. Branches # {}
  BY BranchAssumption
<1> QED BY <1>1, <1>2, LookupSome
=============================================================================
