-------------------------- MODULE BranchMan_proofs --------------------------
(***************************************************************************)
(* Proofs about BranchMan, for every set of branches, of names and of open *)
(* files, and with every disturbance switched on or off: comparing         *)
(* generations is enough to know that a dentry or an open file shows the   *)
(* present branches.  Then, as long as no open file is unlinked, no branch *)
(* changes between a walk and its open, and no change of a mode is         *)
(* refused: the counts of the branches and the putmaps are exact.  A file  *)
(* gives back what it took to the branches it took it from, however often  *)
(* they have moved, and the branches it is open on stay.                   *)
(***************************************************************************)
EXTENDS BranchMan, FiniteSetTheorems, FunctionTheorems, TLAPS

\* The part of the super block that lookups depend on.
Shape(s) == <<s.bend, s.on, s.gen>>

IsSuper(s) ==
    s = [bend |-> s.bend, on |-> s.on, count |-> s.count, gen |-> s.gen,
         first |-> s.first, last |-> s.last, maps |-> s.maps]

\* What is known of the super block, the dentries and the files.
SbInv ==
    /\ IsSuper(sb)
    /\ sb.bend \in Nat
    /\ sb.gen \in Nat
    /\ sb.on \in [0 .. sb.bend -> Branch]

DentryInv(n) ==
    /\ dentry[n].gen \in Nat /\ dentry[n].gen =< sb.gen
    /\ n \notin deleted /\ dentry[n].gen = sb.gen => dentry[n].low = Lookup(sb, n)

FileInv(h) ==
    file[h] # Closed =>
        /\ file[h].name \in Names
        /\ file[h].gen \in Nat /\ file[h].gen =< sb.gen
        /\ file[h].name \notin deleted /\ file[h].gen = sb.gen
           => file[h].low = Lookup(sb, file[h].name)

Inv ==
    /\ SbInv
    /\ DOMAIN dentry = Dirs \cup Files
    /\ \A n \in Dirs \cup Files : DentryInv(n)
    /\ file = [h \in Handles |-> file[h]]
    /\ \A h \in Handles : FileInv(h)
    /\ walked = [h \in Handles |-> walked[h]]
    /\ \A h \in Handles : walked[h] \in Names \cup {None}

-----------------------------------------------------------------------------
(* The operators on the super block.                                       *)

\* Taking and giving back lower files changes neither branches nor generation.
LEMMA GetShape ==
    ASSUME NEW s, IsSuper(s), NEW I
    PROVE  IsSuper(Get(s, I)) /\ Shape(Get(s, I)) = Shape(s)
BY DEF IsSuper, Shape, Get

LEMMA PutShape ==
    ASSUME NEW s, IsSuper(s), NEW g, NEW I
    PROVE  IsSuper(Put(s, g, I)) /\ Shape(Put(s, g, I)) = Shape(s)
BY DEF IsSuper, Shape, Put

\* Nor does making or fixing putmaps.
LEMMA NewPutmapShape ==
    ASSUME NEW s, IsSuper(s)
    PROVE  IsSuper(NewPutmap(s)) /\ Shape(NewPutmap(s)) = Shape(s)
<1>1. PICK first, last, maps :
        NewPutmap(s) = [s EXCEPT !.first = first, !.last = last, !.maps = maps]
  BY Zenon DEF NewPutmap
<1> QED BY <1>1 DEF IsSuper, Shape

LEMMA FixPutmapsShape ==
    ASSUME NEW s, IsSuper(s)
    PROVE  IsSuper(FixPutmaps(s)) /\ Shape(FixPutmaps(s)) = Shape(s)
<1>1. \E maps : FixPutmaps(s) = [s EXCEPT !.maps = maps]
  BY Zenon DEF FixPutmaps
<1> QED BY <1>1 DEF IsSuper, Shape

LEMMA FreeIfUnusedShape ==
    ASSUME NEW s, IsSuper(s)
    PROVE  IsSuper(FreeIfUnused(s)) /\ Shape(FreeIfUnused(s)) = Shape(s)
BY DEF IsSuper, Shape, FreeIfUnused

\* Nor does revalidating a file.
LEMMA SbAfterShape ==
    ASSUME NEW h, IsSuper(sb)
    PROVE  IsSuper(SbAfter(h)) /\ Shape(SbAfter(h)) = Shape(sb)
<1>1. CASE Stale(h)
  BY <1>1, GetShape, PutShape DEF SbAfter
<1>2. CASE ~ Stale(h)
  BY <1>2 DEF SbAfter
<1> QED BY <1>1, <1>2

\* Lookups depend on the shape only.
LEMMA LookupShape ==
    ASSUME NEW s, NEW t, Shape(s) = Shape(t), NEW n
    PROVE  Lookup(s, n) = Lookup(t, n)
<1>1. s.bend = t.bend /\ s.on = t.on
  BY DEF Shape
<1> QED BY <1>1 DEF Lookup, Positions

-----------------------------------------------------------------------------
(* Revalidation.                                                           *)

\* A lookup of the root finds every branch.
LEMMA LookupRoot ==
    ASSUME SbInv
    PROVE  Lookup(sb, Root) = sb.on
<1>1. {i \in Positions(sb) : sb.on[i] \in Has[Root]} = 0 .. sb.bend
  BY BranchManAssumption DEF SbInv, Positions
<1>2. Root \notin Files
  BY BranchManAssumption
<1>3. Lookup(sb, Root) = [i \in 0 .. sb.bend |-> sb.on[i]]
  BY <1>1, <1>2 DEF Lookup
<1> QED BY <1>3 DEF SbInv

\* A revalidated dentry is no newer than the super block, and one of the present
\* generation shows the present branches, unless its name is deleted.
LEMMA RevalidatedGood ==
    ASSUME Inv, NEW n \in Names
    PROVE  /\ Revalidated(n).gen \in Nat /\ Revalidated(n).gen =< sb.gen
           /\ n \notin deleted /\ Revalidated(n).gen = sb.gen
              => Revalidated(n).low = Lookup(sb, n)
<1>1. CASE n = Root
  BY <1>1, LookupRoot DEF Revalidated, DentryOf, Inv, SbInv
<1>2. CASE n # Root
  <2>1. n \in Dirs \cup Files
    BY <1>2 DEF Names
  <2>2. DentryInv(n)
    BY <2>1 DEF Inv
  <2> QED BY <1>2, <2>2 DEF Revalidated, DentryOf, DentryInv, Inv, SbInv
<1> QED BY <1>1, <1>2

\* What a file has after it has been revalidated.
LEMMA FileAfterGood ==
    ASSUME Inv, NEW h \in Handles, file[h] # Closed
    PROVE  /\ FileAfter(h) # Closed => FileAfter(h).name = file[h].name
           /\ FileAfter(h).gen \in Nat /\ FileAfter(h).gen =< sb.gen
           /\ file[h].name \notin deleted /\ FileAfter(h).gen = sb.gen
              => FileAfter(h).low = Lookup(sb, file[h].name)
<1>1. FileInv(h) /\ file[h].name \in Names
  BY DEF Inv, FileInv
<1>2. CASE Stale(h)
  BY <1>1, <1>2, RevalidatedGood DEF FileAfter
<1>3. CASE ~ Stale(h)
  BY <1>1, <1>3 DEF FileAfter, FileInv
<1> QED BY <1>2, <1>3

\* Dentries stay good when one is revalidated and the branches stay.
LEMMA RememberKeeps ==
    ASSUME Inv, NEW n \in Names, Remember(n), Shape(sb') = Shape(sb),
           deleted \subseteq deleted'
    PROVE  /\ DOMAIN dentry' = Dirs \cup Files
           /\ \A m \in Dirs \cup Files : DentryInv(m)'
<1>1. sb'.gen = sb.gen /\ \A m : Lookup(sb', m) = Lookup(sb, m)
  BY LookupShape, Zenon DEF Shape
<1>2. DOMAIN dentry' = Dirs \cup Files
  BY DEF Remember, Inv
<1>3. ASSUME NEW m \in Dirs \cup Files PROVE DentryInv(m)'
  <2>1. DentryInv(m)
    BY DEF Inv
  <2>2. CASE dentry'[m] = dentry[m]
    BY <1>1, <2>1, <2>2 DEF DentryInv
  <2>3. CASE m = n /\ dentry'[m] = Revalidated(n)
    BY <1>1, <2>3, RevalidatedGood DEF DentryInv
  <2> QED BY <2>2, <2>3 DEF Remember, Inv
<1> QED BY <1>2, <1>3

-----------------------------------------------------------------------------
(* The actions.                                                            *)

\* A change that makes a new generation leaves every dentry and file behind.
LEMMA NewGenerationKeeps ==
    ASSUME Inv, SbInv', sb'.gen > sb.gen,
           DOMAIN dentry' = Dirs \cup Files,
           \A n \in Dirs \cup Files : dentry'[n].gen \in Nat /\ dentry'[n].gen =< sb.gen,
           file' = [h \in Handles |-> file'[h]],
           \A h \in Handles : file'[h] # Closed =>
                /\ file'[h].name \in Names
                /\ file'[h].gen \in Nat /\ file'[h].gen =< sb.gen,
           UNCHANGED walked
    PROVE  Inv'
<1>1. \A n \in Dirs \cup Files : DentryInv(n)'
  BY DEF DentryInv, Inv, SbInv
<1>2. \A h \in Handles : FileInv(h)'
  BY DEF FileInv, Inv, SbInv
<1> QED BY <1>1, <1>2 DEF Inv

\* As long as branches and generation stay, each part of Inv can be shown by
\* itself.
LEMMA SameShape ==
    ASSUME Inv, IsSuper(sb'), Shape(sb') = Shape(sb)
    PROVE  /\ SbInv'
           /\ sb'.gen = sb.gen
           /\ \A n : Lookup(sb', n) = Lookup(sb, n)
BY LookupShape, Zenon DEF Shape, Inv, SbInv

LEMMA InitInv == Init => Inv
<1> SUFFICES ASSUME Init PROVE Inv
  OBVIOUS
<1>1. PICK on \in Lists : sb = Mounted(on)
  BY DEF Init
<1>2. PICK n \in 0 .. Cardinality(Branch) - 1 : on \in [0 .. n -> Branch]
  BY <1>1 DEF Lists
<1>3. n \in Nat
  BY <1>2, BranchManAssumption, FS_CardinalityType
<1>4. Cardinality(0 .. n) = n + 1
  BY <1>3, FS_Interval
<1>5. SbInv
  <2>1. DOMAIN on = 0 .. n
    BY <1>2
  <2>2. Cardinality(DOMAIN on) - 1 = n
    BY <2>1, <1>3, <1>4
  <2> QED BY <1>1, <1>2, <1>3, <2>1, <2>2 DEF Mounted, SbInv, IsSuper
<1>6. sb.gen = 1
  BY <1>1 DEF Mounted
<1>7. \A m \in Dirs \cup Files : DentryInv(m)
  BY <1>6 DEF Init, DentryInv
<1>8. \A h \in Handles : FileInv(h)
  BY DEF Init, FileInv
<1>9. /\ DOMAIN dentry = Dirs \cup Files
      /\ file = [h \in Handles |-> file[h]]
      /\ walked = [h \in Handles |-> walked[h]]
      /\ \A h \in Handles : walked[h] \in Names \cup {None}
  BY DEF Init
<1> QED BY <1>5, <1>7, <1>8, <1>9 DEF Inv

LEMMA WalkKeeps ==
    ASSUME Inv, NEW h \in Handles, NEW n \in Names, Walk(h, n)
    PROVE  Inv'
<1>1. sb' = sb /\ file' = file /\ deleted' = deleted /\ Remember(n)
  BY DEF Walk
<1>2. SbInv' /\ Shape(sb') = Shape(sb)
  BY <1>1 DEF Inv, SbInv, Shape, IsSuper
<1>3. DOMAIN dentry' = Dirs \cup Files /\ \A m \in Dirs \cup Files : DentryInv(m)'
  BY <1>1, <1>2, RememberKeeps
<1>4. \A g \in Handles : FileInv(g)'
  BY <1>1 DEF Inv, FileInv
<1>5. /\ walked' = [g \in Handles |-> walked'[g]]
      /\ \A g \in Handles : walked'[g] \in Names \cup {None}
  BY DEF Walk, Inv
<1> QED BY <1>1, <1>2, <1>3, <1>4, <1>5 DEF Inv

LEMMA OpenKeeps ==
    ASSUME Inv, NEW h \in Handles, unionfs_open(h)
    PROVE  Inv'
<1> DEFINE n == walked[h]
           d == DentryOf(n)
<1>1. n \in Names
  BY DEF unionfs_open, Inv
<1>2. IsSuper(sb') /\ Shape(sb') = Shape(sb) /\ dentry' = dentry /\ deleted' = deleted
  BY GetShape DEF unionfs_open, Inv, SbInv
<1>3. SbInv' /\ sb'.gen = sb.gen /\ \A m : Lookup(sb', m) = Lookup(sb, m)
  BY <1>2, SameShape
<1>4. /\ d.gen \in Nat /\ d.gen =< sb.gen
      /\ n \notin deleted /\ d.gen = sb.gen => d.low = Lookup(sb, n)
  <2>1. CASE n = Root
    BY <2>1, LookupRoot DEF DentryOf, Inv, SbInv
  <2>2. CASE n # Root
    <3>1. DentryInv(n)
      BY <1>1, <2>2 DEF Inv, Names
    <3> QED BY <2>2, <3>1 DEF DentryOf, DentryInv
  <2> QED BY <2>1, <2>2
<1>5. ASSUME NEW g \in Handles PROVE FileInv(g)'
  <2>1. CASE g = h
    <3>1. file'[h] = [name |-> n, gen |-> d.gen, low |-> d.low]
      BY DEF unionfs_open, Inv
    <3>2. file'[h].name = n /\ file'[h].gen = d.gen /\ file'[h].low = d.low
      BY <3>1
    <3> HIDE DEF n, d
    <3> QED BY <2>1, <1>1, <1>2, <1>3, <1>4, <3>2 DEF FileInv
  <2>2. CASE g # h
    <3>1. file'[g] = file[g]
      BY <2>2 DEF unionfs_open, Inv
    <3> QED BY <3>1, <1>2, <1>3 DEF FileInv, Inv
  <2> QED BY <2>1, <2>2
<1>6. \A m \in Dirs \cup Files : DentryInv(m)'
  BY <1>2, <1>3 DEF DentryInv, Inv
<1>7. /\ file' = [g \in Handles |-> file'[g]]
      /\ walked' = [g \in Handles |-> walked'[g]]
      /\ \A g \in Handles : walked'[g] \in Names \cup {None}
  BY DEF unionfs_open, Inv
<1> QED BY <1>2, <1>3, <1>5, <1>6, <1>7 DEF Inv

\* The files after one of them has been revalidated.
LEMMA RevalidateFiles ==
    ASSUME Inv, NEW h \in Handles, unionfs_file_revalidate(h)
    PROVE  /\ file' = [g \in Handles |-> file'[g]]
           /\ \A g \in Handles : file'[g] # Closed =>
                /\ file'[g].name \in Names
                /\ file'[g].gen \in Nat /\ file'[g].gen =< sb.gen
                /\ file'[g].name \notin deleted /\ file'[g].gen = sb.gen
                   => file'[g].low = Lookup(sb, file'[g].name)
<1>1. file[h] # Closed /\ file' = [file EXCEPT ![h] = FileAfter(h)]
  BY DEF unionfs_file_revalidate
<1>2. file[h].name \in Names
  BY <1>1 DEF Inv, FileInv
<1>3. file' = [g \in Handles |-> file'[g]]
  BY <1>1 DEF Inv
<1>4. file'[h] = FileAfter(h)
  BY <1>1 DEF Inv
<1>5. \A g \in Handles : g # h => file'[g] = file[g]
  BY <1>1 DEF Inv
<1>6. ASSUME NEW g \in Handles, file'[g] # Closed
      PROVE  /\ file'[g].name \in Names
             /\ file'[g].gen \in Nat /\ file'[g].gen =< sb.gen
             /\ file'[g].name \notin deleted /\ file'[g].gen = sb.gen
                => file'[g].low = Lookup(sb, file'[g].name)
  <2>1. CASE g = h
    BY <1>1, <1>2, <1>4, <1>6, <2>1, FileAfterGood
  <2>2. CASE g # h
    <3>1. FileInv(g) /\ file'[g] = file[g]
      BY <1>5, <2>2 DEF Inv
    <3> QED BY <1>6, <3>1 DEF FileInv
  <2> QED BY <2>1, <2>2
<1> QED BY <1>3, <1>6

\* Generations of the dentries after a file has been revalidated.
LEMMA RevalidateDentries ==
    ASSUME Inv, NEW h \in Handles, unionfs_file_revalidate(h)
    PROVE  /\ DOMAIN dentry' = Dirs \cup Files
           /\ \A n \in Dirs \cup Files :
                dentry'[n].gen \in Nat /\ dentry'[n].gen =< sb.gen
<1>1. file[h].name \in Names /\ Remember(file[h].name)
  BY DEF unionfs_file_revalidate, Inv, FileInv
<1>2. DOMAIN dentry' = Dirs \cup Files
  BY <1>1 DEF Remember, Inv
<1>3. ASSUME NEW n \in Dirs \cup Files
      PROVE  dentry'[n].gen \in Nat /\ dentry'[n].gen =< sb.gen
  <2>1. DentryInv(n)
    BY DEF Inv
  <2>2. dentry'[n] = dentry[n] \/ (n = file[h].name /\ dentry'[n] = Revalidated(n))
    BY <1>1 DEF Remember, Inv
  <2> QED BY <1>1, <2>1, <2>2, RevalidatedGood DEF DentryInv
<1> QED BY <1>2, <1>3

\* Revalidating a file while branches and generation stay.
LEMMA RevalidateKeeps ==
    ASSUME Inv, NEW h \in Handles, unionfs_file_revalidate(h),
           IsSuper(sb'), Shape(sb') = Shape(sb), UNCHANGED <<walked, deleted>>
    PROVE  Inv'
<1>1. SbInv' /\ sb'.gen = sb.gen /\ \A m : Lookup(sb', m) = Lookup(sb, m)
  BY SameShape
<1>2. file[h].name \in Names /\ Remember(file[h].name)
  BY DEF unionfs_file_revalidate, Inv, FileInv
<1>3. DOMAIN dentry' = Dirs \cup Files /\ \A m \in Dirs \cup Files : DentryInv(m)'
  BY <1>2, RememberKeeps
<1>4. \A g \in Handles : FileInv(g)'
  BY <1>1, RevalidateFiles DEF FileInv
<1>5. file' = [g \in Handles |-> file'[g]]
  BY RevalidateFiles
<1> QED BY <1>1, <1>3, <1>4, <1>5 DEF Inv

LEMMA UseKeeps ==
    ASSUME Inv, NEW h \in Handles, Use(h)
    PROVE  Inv'
<1>1. IsSuper(sb') /\ Shape(sb') = Shape(sb)
  BY SbAfterShape DEF Use, Inv, SbInv
<1> QED BY <1>1, RevalidateKeeps DEF Use

LEMMA ReleaseKeeps ==
    ASSUME Inv, NEW h \in Handles, unionfs_file_release(h)
    PROVE  Inv'
<1>1. /\ IsSuper(sb') /\ Shape(sb') = Shape(sb)
      /\ UNCHANGED <<dentry, walked, deleted>>
      /\ file' = [file EXCEPT ![h] = Closed]
  BY PutShape DEF unionfs_file_release, Inv, SbInv
<1>2. SbInv' /\ sb'.gen = sb.gen /\ \A m : Lookup(sb', m) = Lookup(sb, m)
  BY <1>1, SameShape
<1>3. \A m \in Dirs \cup Files : DentryInv(m)'
  BY <1>1, <1>2 DEF DentryInv, Inv
<1>4. \A g \in Handles : FileInv(g)'
  <2>1. \A g \in Handles : file'[g] = Closed \/ file'[g] = file[g]
    BY <1>1 DEF Inv
  <2> QED BY <1>1, <1>2, <2>1 DEF FileInv, Inv
<1>5. file' = [g \in Handles |-> file'[g]]
  BY <1>1 DEF Inv
<1> QED BY <1>1, <1>2, <1>3, <1>4, <1>5 DEF Inv

LEMMA UnlinkKeeps ==
    ASSUME Inv, NEW n \in Files, Unlink(n)
    PROVE  Inv'
<1>1. sb' = sb /\ file' = file /\ walked' = walked /\ Remember(n)
  BY DEF Unlink
<1>2. deleted \subseteq deleted'
  BY DEF Unlink
<1>3. SbInv' /\ Shape(sb') = Shape(sb)
  BY <1>1 DEF Inv, SbInv, Shape, IsSuper
<1>4. DOMAIN dentry' = Dirs \cup Files /\ \A m \in Dirs \cup Files : DentryInv(m)'
  BY <1>1, <1>2, <1>3, RememberKeeps DEF Names
<1>5. \A g \in Handles : FileInv(g)'
  BY <1>1, <1>2 DEF Inv, FileInv
<1> QED BY <1>1, <1>3, <1>4, <1>5 DEF Inv

-----------------------------------------------------------------------------
(* The ioctls.                                                             *)

\* The super block that newputmap and the new generation leave.
LEMMA BumpedShape ==
    ASSUME NEW s, IsSuper(s), Shape(s) = Shape(sb)
    PROVE  LET t == NewGeneration(NewPutmap(s))
           IN  IsSuper(t) /\ t.bend = sb.bend /\ t.on = sb.on /\ t.gen = sb.gen + 1
<1> DEFINE r == NewPutmap(s)
<1>1. IsSuper(r) /\ Shape(r) = Shape(sb)
  BY NewPutmapShape
<1> HIDE DEF r
<1>2. r.bend = sb.bend /\ r.on = sb.on /\ r.gen = sb.gen
  BY <1>1 DEF Shape
<1>3. /\ IsSuper(NewGeneration(r)) /\ NewGeneration(r).bend = sb.bend
      /\ NewGeneration(r).on = sb.on /\ NewGeneration(r).gen = sb.gen + 1
  BY <1>1, <1>2 DEF NewGeneration, IsSuper
<1> QED BY <1>3 DEF r

\* An inserted branch makes a list that is longer by one.
LEMMA AddedShape ==
    ASSUME NEW s, IsSuper(s), s.bend \in Nat, s.on \in [0 .. s.bend -> Branch],
           NEW k \in 0 .. s.bend + 1, NEW b \in Branch
    PROVE  LET t == Added(s, k, b)
           IN  /\ IsSuper(t)
               /\ t.bend = s.bend + 1
               /\ t.on \in [0 .. s.bend + 1 -> Branch]
               /\ t.gen = s.gen
<1> DEFINE t == Added(s, k, b)
<1>1. Inserted(s.on, k, b, s.bend) \in [0 .. s.bend + 1 -> Branch]
  BY DEF Inserted
<1>2. PICK count, maps :
        t = [s EXCEPT !.bend = s.bend + 1, !.on = Inserted(s.on, k, b, s.bend),
                      !.count = count, !.maps = maps]
  BY Zenon DEF Added
<1> HIDE DEF t
<1>3. IsSuper(t) /\ t.bend = s.bend + 1 /\ t.on = Inserted(s.on, k, b, s.bend)
      /\ t.gen = s.gen
  BY <1>2 DEF IsSuper
<1> QED BY <1>1, <1>3 DEF t

\* A removed one makes a list that is shorter by one.
LEMMA RemovedShape ==
    ASSUME NEW s, IsSuper(s), s.bend \in Nat \ {0}, s.on \in [0 .. s.bend -> Branch],
           NEW k \in 0 .. s.bend
    PROVE  LET t == Removed(s, k)
           IN  /\ IsSuper(t)
               /\ t.bend = s.bend - 1
               /\ t.on \in [0 .. s.bend - 1 -> Branch]
               /\ t.gen = s.gen
<1> DEFINE t == Removed(s, k)
<1>1. Dropped(s.on, k, s.bend) \in [0 .. s.bend - 1 -> Branch]
  BY DEF Dropped
<1>2. PICK count, maps :
        t = [s EXCEPT !.bend = s.bend - 1, !.on = Dropped(s.on, k, s.bend),
                      !.count = count, !.maps = maps]
  BY Zenon DEF Removed
<1> HIDE DEF t
<1>3. IsSuper(t) /\ t.bend = s.bend - 1 /\ t.on = Dropped(s.on, k, s.bend)
      /\ t.gen = s.gen
  BY <1>2 DEF IsSuper
<1> QED BY <1>1, <1>3 DEF t

\* What every ioctl starts from.
LEMMA IoctlBumped ==
    ASSUME Inv, NEW h
    PROVE  LET t == NewGeneration(NewPutmap(SbAfter(h)))
           IN  IsSuper(t) /\ t.bend = sb.bend /\ t.on = sb.on /\ t.gen = sb.gen + 1
<1>1. IsSuper(SbAfter(h)) /\ Shape(SbAfter(h)) = Shape(sb)
  BY SbAfterShape DEF Inv, SbInv
<1> QED BY <1>1, BumpedShape

\* An ioctl through a file that makes a new generation.
LEMMA IoctlKeeps ==
    ASSUME Inv, NEW h \in Handles, Ioctl(h), SbInv', sb'.gen = sb.gen + 1
    PROVE  Inv'
<1>1. sb'.gen > sb.gen
  BY DEF Inv, SbInv
<1>2. unionfs_file_revalidate(h) /\ UNCHANGED walked
  BY DEF Ioctl
<1>3. /\ DOMAIN dentry' = Dirs \cup Files
      /\ \A n \in Dirs \cup Files : dentry'[n].gen \in Nat /\ dentry'[n].gen =< sb.gen
  BY <1>2, RevalidateDentries
<1>4. /\ file' = [g \in Handles |-> file'[g]]
      /\ \A g \in Handles : file'[g] # Closed =>
            /\ file'[g].name \in Names
            /\ file'[g].gen \in Nat /\ file'[g].gen =< sb.gen
  BY <1>2, RevalidateFiles
<1> QED BY <1>1, <1>2, <1>3, <1>4, NewGenerationKeeps

LEMMA IncgenKeeps ==
    ASSUME Inv, NEW h \in Handles, unionfs_ioctl_incgen(h)
    PROVE  Inv'
<1>1. Ioctl(h) /\ sb' = NewGeneration(NewPutmap(SbAfter(h)))
  BY DEF unionfs_ioctl_incgen
<1>2. SbInv' /\ sb'.gen = sb.gen + 1
  BY <1>1, IoctlBumped DEF SbInv, Inv
<1> QED BY <1>1, <1>2, IoctlKeeps

LEMMA RdwrKeeps ==
    ASSUME Inv, NEW h \in Handles, unionfs_ioctl_rdwrbranch(h)
    PROVE  Inv'
<1>1. Ioctl(h)
  BY DEF unionfs_ioctl_rdwrbranch
<1>2. CASE sb' = NewGeneration(NewPutmap(SbAfter(h)))
  <2>1. SbInv' /\ sb'.gen = sb.gen + 1
    BY <1>2, IoctlBumped DEF SbInv, Inv
  <2> QED BY <1>1, <2>1, IoctlKeeps
<1>3. CASE sb' = NewPutmap(SbAfter(h))
  <2>1. IsSuper(sb') /\ Shape(sb') = Shape(sb)
    BY <1>3, SbAfterShape, NewPutmapShape DEF Inv, SbInv
  <2>2. unionfs_file_revalidate(h) /\ UNCHANGED <<walked, deleted>>
    BY <1>1 DEF Ioctl
  <2> QED BY <2>1, <2>2, RevalidateKeeps
<1> QED BY <1>2, <1>3 DEF unionfs_ioctl_rdwrbranch

LEMMA AddKeeps ==
    ASSUME Inv, NEW h \in Handles, NEW k \in Nat, NEW b \in Branch,
           unionfs_ioctl_addbranch(h, k, b)
    PROVE  Inv'
<1> DEFINE t == NewGeneration(NewPutmap(SbAfter(h)))
           s == Added(t, k, b)
<1>1. Ioctl(h) /\ k =< sb.bend + 1 /\ sb' = FixPutmaps(s)
  BY DEF unionfs_ioctl_addbranch
<1>2. IsSuper(t) /\ t.bend = sb.bend /\ t.on = sb.on /\ t.gen = sb.gen + 1
  BY IoctlBumped
<1>3. k \in 0 .. t.bend + 1 /\ t.bend \in Nat /\ t.on \in [0 .. t.bend -> Branch]
  BY <1>1, <1>2 DEF Inv, SbInv
<1> HIDE DEF t
<1>4. IsSuper(s) /\ s.bend = sb.bend + 1 /\ s.on \in [0 .. s.bend -> Branch]
      /\ s.gen = sb.gen + 1
  BY <1>2, <1>3, AddedShape
<1> HIDE DEF s
<1>5. IsSuper(sb') /\ Shape(sb') = Shape(s)
  BY <1>1, <1>4, FixPutmapsShape
<1>6. SbInv' /\ sb'.gen = sb.gen + 1
  BY <1>4, <1>5 DEF Shape, SbInv, Inv
<1> QED BY <1>1, <1>6, IoctlKeeps

LEMMA DelKeeps ==
    ASSUME Inv, NEW k \in Nat, unionfs_ioctl_delbranch(k)
    PROVE  Inv'
<1> DEFINE t == NewGeneration(NewPutmap(sb))
           s == Removed(t, k)
           r == FixPutmaps(s)
<1>1. /\ Deletable(sb, k) /\ sb' = FreeIfUnused(r)
      /\ UNCHANGED <<dentry, walked, file, deleted>>
  BY DEF unionfs_ioctl_delbranch
<1>2. IsSuper(t) /\ t.bend = sb.bend /\ t.on = sb.on /\ t.gen = sb.gen + 1
  BY BumpedShape DEF Inv, SbInv
<1>3. k \in 0 .. t.bend /\ t.bend \in Nat \ {0} /\ t.on \in [0 .. t.bend -> Branch]
  BY <1>1, <1>2 DEF Inv, SbInv, Deletable
<1> HIDE DEF t
<1>4. IsSuper(s) /\ s.bend \in Nat /\ s.on \in [0 .. s.bend -> Branch]
      /\ s.gen = sb.gen + 1
  BY <1>2, <1>3, RemovedShape
<1> HIDE DEF s
<1>5. IsSuper(r) /\ Shape(r) = Shape(s)
  BY <1>4, FixPutmapsShape
<1> HIDE DEF r
<1>6. IsSuper(sb') /\ Shape(sb') = Shape(s)
  BY <1>1, <1>5, FreeIfUnusedShape
<1>7. SbInv' /\ sb'.gen > sb.gen
  BY <1>4, <1>6 DEF Shape, SbInv, Inv
<1>8. \A n \in Dirs \cup Files : dentry'[n].gen \in Nat /\ dentry'[n].gen =< sb.gen
  BY <1>1 DEF Inv, DentryInv
<1>9. \A h \in Handles : file'[h] # Closed =>
        /\ file'[h].name \in Names
        /\ file'[h].gen \in Nat /\ file'[h].gen =< sb.gen
  BY <1>1 DEF Inv, FileInv
<1>10. DOMAIN dentry' = Dirs \cup Files /\ file' = [h \in Handles |-> file'[h]]
  BY <1>1 DEF Inv
<1> QED BY <1>1, <1>7, <1>8, <1>9, <1>10, NewGenerationKeeps

LEMMA StutterKeeps ==
    ASSUME Inv, UNCHANGED <<sb, dentry, walked, file, deleted>>
    PROVE  Inv'
<1>1. SbInv'
  BY DEF Inv, SbInv, IsSuper
<1>2. \A n \in Dirs \cup Files : DentryInv(n)'
  BY DEF Inv, DentryInv
<1>3. \A h \in Handles : FileInv(h)'
  BY DEF Inv, FileInv
<1> QED BY <1>1, <1>2, <1>3 DEF Inv

LEMMA NextKeeps == Inv /\ [Next]_vars => Inv'
<1> SUFFICES ASSUME Inv, [Next]_vars PROVE Inv'
  OBVIOUS
<1>0. 0 .. Cardinality(Branch) - 1 \subseteq Nat
  BY BranchManAssumption, FS_CardinalityType
<1>1. CASE UNCHANGED vars
  BY <1>1, StutterKeeps DEF vars
<1>2. ASSUME NEW h \in Handles, NEW n \in Names, Walk(h, n) PROVE Inv'
  BY <1>2, WalkKeeps
<1>3. ASSUME NEW h \in Handles, unionfs_open(h) PROVE Inv'
  BY <1>3, OpenKeeps
<1>4. ASSUME NEW h \in Handles, Use(h) PROVE Inv'
  BY <1>4, UseKeeps
<1>5. ASSUME NEW h \in Handles, unionfs_file_release(h) PROVE Inv'
  BY <1>5, ReleaseKeeps
<1>6. ASSUME NEW h \in Handles, Bug(h) PROVE Inv'
  BY <1>6, StutterKeeps DEF Bug
<1>7. ASSUME NEW h \in Handles, unionfs_ioctl_incgen(h) PROVE Inv'
  BY <1>7, IncgenKeeps
<1>8. ASSUME NEW h \in Handles, unionfs_ioctl_rdwrbranch(h) PROVE Inv'
  BY <1>8, RdwrKeeps
<1>9. ASSUME NEW h \in Handles, NEW k \in 0 .. Cardinality(Branch) - 1, NEW b \in Branch,
             unionfs_ioctl_addbranch(h, k, b)
      PROVE  Inv'
  BY <1>0, <1>9, AddKeeps
<1>10. ASSUME NEW n \in Files, Unlink(n) PROVE Inv'
  BY <1>10, UnlinkKeeps
<1>11. ASSUME NEW k \in 0 .. Cardinality(Branch) - 1, unionfs_ioctl_delbranch(k)
       PROVE  Inv'
  BY <1>0, <1>11, DelKeeps
<1> QED
  BY <1>1, <1>2, <1>3, <1>4, <1>5, <1>6, <1>7, <1>8, <1>9, <1>10, <1>11 DEF Next

-----------------------------------------------------------------------------
\* The invariant holds in every reachable state.
LEMMA InvHolds == Spec => []Inv
BY InitInv, NextKeeps, PTL DEF Spec

\* A dentry or open file of the super block's generation shows the present
\* branches: unionfs_d_revalidate and unionfs_file_revalidate may go by the
\* generation alone, whatever interleaves with them.
THEOREM GenerationsEnough == Spec => []CurrentMeansCurrent
<1>1. Inv => CurrentMeansCurrent
  BY DEF Inv, DentryInv, FileInv, CurrentMeansCurrent
<1> QED BY <1>1, InvHolds, PTL

-----------------------------------------------------------------------------
(* Sums over finite sets.                                                  *)

\* A set of naturals has a least element.
LEMMA LeastNatural ==
    ASSUME NEW T, T \subseteq Nat, T # {}
    PROVE  \E n \in T : \A m \in T : n =< m
<1> DEFINE R == OpToRel(<, Nat)
<1>1. IsWellFoundedOn(R, Nat)
  BY NatLessThanWellFounded
<1>2. \A m, n \in Nat : m < n => <<m, n>> \in R
  BY DEF OpToRel
<1> HIDE DEF R
<1>3. PICK n \in T : \A m \in T : ~ (<<m, n>> \in R)
  BY <1>1, WFMin
<1>4. ASSUME NEW m \in T PROVE n =< m
  <2>1. ~ (m < n) /\ m \in Nat /\ n \in Nat
    BY <1>2, <1>3
  <2> QED BY <2>1
<1> QED BY <1>4

\* Subsets of a finite set: some member of a family includes no other.
LEMMA MinimalSubset ==
    ASSUME NEW S, IsFiniteSet(S), NEW T, T \subseteq SUBSET S, T # {}
    PROVE  \E x \in T : \A y \in T : ~ (y \subseteq x /\ y # x)
<1>1. IsWellFoundedOn(StrictSubsetOrdering(S), SUBSET S)
  BY FS_StrictSubsetOrderingWellFounded, FS_FiniteSubsetsOfFinite
<1>2. \A x, y \in SUBSET S : y \subseteq x /\ y # x => <<y, x>> \in StrictSubsetOrdering(S)
  BY DEF StrictSubsetOrdering
<1>3. PICK x \in T : \A y \in T : ~ (<<y, x>> \in StrictSubsetOrdering(S))
  BY <1>1, WFMin
<1> QED BY <1>2, <1>3

\* The recursion of SumFunction over the subsets of its domain.
Arbitrary(s) == CHOOSE x \in s : TRUE

IsSum(iter, f, SS) ==
    iter = [s \in SS |-> IF s = {} THEN 0
                         ELSE f[Arbitrary(s)] + iter[s \ {Arbitrary(s)}]]

\* The subsets of S of at most n elements.
Upto(S, n) == {s \in SUBSET S : Cardinality(s) =< n}

\* The recursion by which a sum is defined has a solution.
LEMMA SumExists ==
    ASSUME NEW f, NEW S, IsFiniteSet(S)
    PROVE  \E iter : IsSum(iter, f, SUBSET S)
<1> DEFINE Bad == {n \in Nat : ~ \E iter : IsSum(iter, f, Upto(S, n))}
<1>1. \A s \in SUBSET S : IsFiniteSet(s) /\ Cardinality(s) \in Nat
  BY FS_Subset, FS_CardinalityType
<1>2. \E iter : IsSum(iter, f, Upto(S, 0))
  <2>1. Upto(S, 0) = {{}}
    BY <1>1, FS_EmptySet DEF Upto
  <2> DEFINE iter == [s \in {{}} |-> 0]
  <2>2. iter = [s \in {{}} |-> IF s = {} THEN 0 ELSE f[Arbitrary(s)] + iter[s \ {Arbitrary(s)}]]
    OBVIOUS
  <2> QED BY <2>1, <2>2 DEF IsSum
<1>3. ASSUME NEW n \in Nat, NEW iter, IsSum(iter, f, Upto(S, n))
      PROVE  \E g : IsSum(g, f, Upto(S, n + 1))
  <2> DEFINE g == [s \in Upto(S, n + 1) |-> IF s = {} THEN 0
                        ELSE f[Arbitrary(s)] + iter[s \ {Arbitrary(s)}]]
  <2>1. ASSUME NEW s \in Upto(S, n + 1), s # {}
        PROVE  s \ {Arbitrary(s)} \in Upto(S, n)
    <3>1. Arbitrary(s) \in s
      BY <2>1 DEF Arbitrary
    <3>2. s \in SUBSET S /\ IsFiniteSet(s) /\ Cardinality(s) =< n + 1
      BY <1>1 DEF Upto
    <3>3. Cardinality(s \ {Arbitrary(s)}) = Cardinality(s) - 1
      BY <3>1, <3>2, FS_RemoveElement
    <3> QED BY <1>1, <3>2, <3>3 DEF Upto
  <2>2. Upto(S, n) \subseteq Upto(S, n + 1)
    BY <1>1 DEF Upto
  <2>3. \A s \in Upto(S, n) : g[s] = iter[s]
    BY <2>2, <1>3 DEF IsSum
  <2>4. g = [s \in Upto(S, n + 1) |-> IF s = {} THEN 0
                        ELSE f[Arbitrary(s)] + g[s \ {Arbitrary(s)}]]
    BY <2>1, <2>3
  <2> QED BY <2>4 DEF IsSum
<1>4. Bad = {}
  <2> SUFFICES ASSUME Bad # {} PROVE FALSE
    OBVIOUS
  <2>1. PICK n \in Bad : \A m \in Bad : n =< m
    BY LeastNatural
  <2>2. n # 0
    BY <1>2
  <2>3. n - 1 \in Nat /\ n - 1 \notin Bad
    BY <2>1, <2>2
  <2>4. n - 1 + 1 = n
    BY <2>1
  <2> QED BY <1>3, <2>1, <2>3, <2>4
<1>5. Upto(S, Cardinality(S)) = SUBSET S
  BY FS_Subset, FS_CardinalityType DEF Upto
<1>6. Cardinality(S) \in Nat
  BY FS_CardinalityType
<1>7. \E iter : IsSum(iter, f, Upto(S, Cardinality(S)))
  BY <1>4, <1>6
<1> QED BY <1>5, <1>7

\* SumFunction adds up by that recursion.
LEMMA SumDef ==
    ASSUME NEW f, IsFiniteSet(DOMAIN f)
    PROVE  \E iter : /\ IsSum(iter, f, SUBSET DOMAIN f)
                     /\ SumFunction(f) = iter[DOMAIN f]
<1> DEFINE iter == CHOOSE g : IsSum(g, f, SUBSET DOMAIN f)
<1>1. IsSum(iter, f, SUBSET DOMAIN f)
  BY SumExists
<1>2. SumFunction(f) = iter[DOMAIN f]
  BY Zenon DEF SumFunction, SumFunctionOnSet, FoldFunctionOnSet, MapThenFoldSet, IsSum, Arbitrary
<1> QED BY <1>1, <1>2

\* Adding up how many elements of U there are at each position counts those
\* elements: what newputmap relies on.
LEMMA SumCounts ==
    ASSUME NEW f, IsFiniteSet(DOMAIN f), NEW U, IsFiniteSet(U), NEW pos,
           \A i \in DOMAIN f : f[i] = Cardinality({u \in U : pos[u] = i})
    PROVE  SumFunction(f) = Cardinality({u \in U : pos[u] \in DOMAIN f})
<1> DEFINE S == DOMAIN f
           At(s) == {u \in U : pos[u] \in s}
<1>1. PICK iter : IsSum(iter, f, SUBSET S) /\ SumFunction(f) = iter[S]
  BY SumDef
<1> DEFINE Bad == {s \in SUBSET S : iter[s] # Cardinality(At(s))}
<1>2. {} \notin Bad
  BY <1>1, FS_EmptySet DEF IsSum
<1>3. ASSUME NEW s \in SUBSET S, s # {}, s \ {Arbitrary(s)} \notin Bad PROVE s \notin Bad
  <2> DEFINE x == Arbitrary(s)
             r == s \ {x}
  <2>1. x \in s
    BY <1>3 DEF Arbitrary
  <2>2. iter[s] = f[x] + iter[r]
    BY <1>1, <1>3 DEF IsSum
  <2>3. iter[r] = Cardinality(At(r))
    BY <1>3
  <2> HIDE DEF x
  <2>4. IsFiniteSet(At(r)) /\ IsFiniteSet({u \in U : pos[u] = x})
    BY FS_Subset
  <2>5. At(s) = At(r) \cup {u \in U : pos[u] = x} /\ At(r) \cap {u \in U : pos[u] = x} = {}
    BY <2>1
  <2>6. Cardinality(At(s)) = Cardinality(At(r)) + Cardinality({u \in U : pos[u] = x}) - 0
    BY <2>4, <2>5, FS_Union, FS_EmptySet
  <2>7. f[x] = Cardinality({u \in U : pos[u] = x})
    BY <2>1
  <2>8. Cardinality(At(r)) \in Nat /\ Cardinality({u \in U : pos[u] = x}) \in Nat
    BY <2>4, FS_CardinalityType
  <2> QED BY <2>2, <2>3, <2>6, <2>7, <2>8
<1>4. Bad = {}
  <2> SUFFICES ASSUME Bad # {} PROVE FALSE
    OBVIOUS
  <2> HIDE DEF Bad
  <2>1. Bad \subseteq SUBSET S
    BY DEF Bad
  <2>2. PICK s \in Bad : \A t \in Bad : ~ (t \subseteq s /\ t # s)
    BY <2>1, MinimalSubset
  <2>3. s # {} /\ s \in SUBSET S
    BY <1>2, <2>1
  <2>4. Arbitrary(s) \in s
    BY <2>3 DEF Arbitrary
  <2>5. s \ {Arbitrary(s)} \notin Bad
    BY <2>2, <2>4
  <2> QED BY <1>3, <2>3, <2>5
<1> QED BY <1>1, <1>4

-----------------------------------------------------------------------------
(* The invariant.                                                          *)

\* None of the three disturbances, each of which breaks the counts.
Undisturbed == ~ Unlinking /\ ~ Racing /\ ~ BadModes

\* The lower files in use: an open file and a position of its.
Uses(F) == {u \in Handles \X Slots : F[u[1]] # Closed /\ u[2] \in DOMAIN F[u[1]].low}
OnBranch(F, b) == {u \in Uses(F) : F[u[1]].low[u[2]] = b}
OfGen(F, g) == {u \in Uses(F) : F[u[1]].gen = g}

\* Where position j of generation g has gone.
Leads(s, g, j) == IF g = s.gen THEN j ELSE Putmap(s, g).map[j]
HasMap(s, g) == g \in DOMAIN s.maps /\ Putmap(s, g) # Freed

\* Different branches, and a list of putmaps that ends just before the present
\* generation.
SuperGood(s) ==
    /\ IsSuper(s)
    /\ s.bend \in Nat /\ s.on \in [0 .. s.bend -> Branch]
    /\ \A i, j \in 0 .. s.bend : s.on[i] = s.on[j] => i = j
    /\ s.gen \in Nat \ {0} /\ s.first \in Nat /\ s.last = s.gen - 1
    /\ s.first = 0 <=> s.last = 0
    /\ s.first =< s.last
    /\ s.maps = [g \in IF s.first = 0 THEN {} ELSE s.first .. s.last |-> s.maps[g]]
    /\ \A g \in DOMAIN s.maps : HasMap(s, g) => \E n \in Slots : Putmap(s, g) \in Putmaps(n)

\* An open file has lower files, and finds the branches they are on.
FileGood(s, f) ==
    /\ f \in [name : Names, gen : 1 .. s.gen, low : Lows]
    /\ DOMAIN f.low # {}
    /\ f.gen # s.gen => HasMap(s, f.gen)
    /\ \A j \in DOMAIN f.low :
        /\ f.low[j] \in Has[f.name]
        /\ f.gen # s.gen => j =< Putmap(s, f.gen).bend
        /\ Leads(s, f.gen, j) \in 0 .. s.bend
        /\ s.on[Leads(s, f.gen, j)] = f.low[j]
FilesGood(s, F) ==
    /\ F = [h \in Handles |-> F[h]]
    /\ \A h \in Handles : F[h] # Closed => FileGood(s, F[h])

\* Counts of branches and of putmaps are the numbers of lower files in use.
CountsGood(s, F) ==
    /\ s.count = [i \in 0 .. s.bend |-> Cardinality(OnBranch(F, s.on[i]))]
    /\ \A g \in DOMAIN s.maps : HasMap(s, g) =>
            Putmap(s, g).count = Cardinality(OfGen(F, g))

Good(s, F) == SuperGood(s) /\ FilesGood(s, F) /\ CountsGood(s, F)

\* A putmap has users.
MapsUsed(s, F) == \A g \in DOMAIN s.maps : HasMap(s, g) => OfGen(F, g) # {}

\* What an open that is pending has walked to is still current.
WalkGood(h) ==
    walked[h] # None =>
        /\ file[h] = Closed
        /\ DentryOf(walked[h]).gen = sb.gen
        /\ PositionsOf(DentryOf(walked[h]).low) # {}

\* What is known besides Inv.
Counts ==
    /\ Good(sb, file)
    /\ MapsUsed(sb, file)
    /\ deleted = {}
    /\ sb.gen =< MaxGen
    /\ dentry \in [Dirs \cup Files -> [gen : 1 .. sb.gen, low : Lows]]
    /\ \A h \in Handles : WalkGood(h)
    /\ oops \in BOOLEAN

-----------------------------------------------------------------------------
(* Counting lower files in use.                                            *)

LEMMA SlotsFinite ==
    /\ Cardinality(Branch) \in Nat \ {0}
    /\ IsFiniteSet(Slots) /\ Slots \subseteq Nat
<1>1. Cardinality(Branch) \in Nat /\ Cardinality(Branch) # 0
  BY BranchManAssumption, FS_CardinalityType, FS_EmptySet
<1>2. IsFiniteSet(0 .. Cardinality(Branch) - 1)
  BY <1>1, FS_Interval
<1> QED BY <1>1, <1>2 DEF Slots

LEMMA IntervalCount ==
    ASSUME NEW n \in Nat
    PROVE  IsFiniteSet(0 .. n) /\ Cardinality(0 .. n) = n + 1
BY FS_Interval

LEMMA UsesFinite ==
    ASSUME NEW F
    PROVE  /\ IsFiniteSet(Uses(F))
           /\ \A X \in SUBSET Uses(F) : IsFiniteSet(X) /\ Cardinality(X) \in Nat
<1>1. IsFiniteSet(Handles \X Slots)
  BY SlotsFinite, BranchManAssumption, FS_Product
<1>2. Uses(F) \subseteq Handles \X Slots
  BY DEF Uses
<1>3. IsFiniteSet(Uses(F))
  BY <1>1, <1>2, FS_Subset
<1> QED BY <1>3, FS_Subset, FS_CardinalityType

\* There is room for every position of a list of different branches.
LEMMA RoomForAll ==
    ASSUME NEW n \in Nat, NEW on \in [0 .. n -> Branch],
           \A i, j \in 0 .. n : on[i] = on[j] => i = j
    PROVE  n \in Slots /\ 0 .. n \subseteq Slots
<1>1. on \in Injection(0 .. n, Branch)
  BY Fun_IsInj, Zenon
<1>2. Cardinality(0 .. n) =< Cardinality(Branch)
  BY <1>1, FS_Injection, BranchManAssumption
<1>3. Cardinality(0 .. n) = n + 1
  BY IntervalCount
<1>4. n =< Cardinality(Branch) - 1 /\ Cardinality(Branch) \in Nat
  BY <1>2, <1>3, SlotsFinite
<1> QED BY <1>4 DEF Slots

LEMMA BendInSlots ==
    ASSUME NEW s, SuperGood(s)
    PROVE  s.bend \in Slots /\ 0 .. s.bend \subseteq Slots
BY RoomForAll DEF SuperGood

\* The positions at which a file has a lower file on b.
At(f, b) == {i \in DOMAIN f.low : f.low[i] = b}

LEMMA AtFinite ==
    ASSUME NEW f, f.low \in Lows, NEW b
    PROVE  /\ DOMAIN f.low \subseteq Slots
           /\ IsFiniteSet(DOMAIN f.low) /\ Cardinality(DOMAIN f.low) \in Nat
           /\ IsFiniteSet(At(f, b)) /\ Cardinality(At(f, b)) \in Nat
<1>1. DOMAIN f.low \subseteq Slots
  BY DEF Lows
<1>2. IsFiniteSet(DOMAIN f.low)
  BY <1>1, SlotsFinite, FS_Subset
<1>3. IsFiniteSet(At(f, b))
  BY <1>2, FS_Subset DEF At
<1> QED BY <1>1, <1>2, <1>3, FS_CardinalityType

\* A set of positions counts as much as the set of pairs it makes with h.
LEMMA PairsCount ==
    ASSUME NEW h, NEW I, IsFiniteSet(I)
    PROVE  Cardinality({h} \X I) = Cardinality(I)
<1>1. IsFiniteSet({h}) /\ Cardinality({h}) = 1
  BY FS_Singleton
<1>2. Cardinality({h} \X I) = Cardinality({h}) * Cardinality(I)
  BY <1>1, FS_Product
<1>3. Cardinality(I) \in Nat
  BY FS_CardinalityType
<1> QED BY <1>1, <1>2, <1>3

LEMMA DisjointCount ==
    ASSUME NEW S, IsFiniteSet(S), NEW T, IsFiniteSet(T), S \cap T = {}
    PROVE  Cardinality(S \cup T) = Cardinality(S) + Cardinality(T)
<1>1. Cardinality(S \cup T) = Cardinality(S) + Cardinality(T) - Cardinality({})
  BY FS_Union
<1>2. Cardinality({}) = 0 /\ Cardinality(S) \in Nat /\ Cardinality(T) \in Nat
  BY FS_EmptySet, FS_CardinalityType
<1> QED BY <1>1, <1>2

\* What closing a file takes away from the counts.
LEMMA CloseCounts ==
    ASSUME NEW F, F = [x \in Handles |-> F[x]], NEW h \in Handles,
           F[h] # Closed, F[h].low \in Lows,
           NEW G, G = [F EXCEPT ![h] = Closed]
    PROVE  /\ \A b : Cardinality(OnBranch(F, b))
                     = Cardinality(OnBranch(G, b)) + Cardinality(At(F[h], b))
           /\ \A g : Cardinality(OfGen(F, g))
                     = Cardinality(OfGen(G, g))
                       + IF F[h].gen = g THEN Cardinality(DOMAIN F[h].low) ELSE 0
<1>1. DOMAIN F[h].low \subseteq Slots
  BY AtFinite
<1>2. G[h] = Closed /\ \A x \in Handles : x # h => G[x] = F[x]
  OBVIOUS
<1>3. \A u \in Uses(F) : u[1] \in Handles /\ u[2] \in Slots /\ u = <<u[1], u[2]>>
  BY DEF Uses
<1>4. Uses(F) = Uses(G) \cup ({h} \X DOMAIN F[h].low) /\ \A u \in Uses(G) : u[1] # h
  BY <1>1, <1>2 DEF Uses
<1>5. ASSUME NEW b
      PROVE  Cardinality(OnBranch(F, b))
             = Cardinality(OnBranch(G, b)) + Cardinality(At(F[h], b))
  <2> DEFINE H == {h} \X At(F[h], b)
  <2>1. OnBranch(F, b) = OnBranch(G, b) \cup H /\ OnBranch(G, b) \cap H = {}
    <3>1. OnBranch(F, b) \subseteq OnBranch(G, b) \cup H
      BY <1>2, <1>3 DEF OnBranch, At, Uses
    <3>2. OnBranch(G, b) \cup H \subseteq OnBranch(F, b)
      BY <1>1, <1>2, <1>4 DEF OnBranch, At, Uses
    <3>3. OnBranch(G, b) \cap H = {}
      BY <1>4 DEF OnBranch
    <3> QED BY <3>1, <3>2, <3>3
  <2>2. IsFiniteSet(OnBranch(G, b)) /\ Cardinality(OnBranch(G, b)) \in Nat
    BY UsesFinite DEF OnBranch
  <2>3. /\ IsFiniteSet(At(F[h], b)) /\ Cardinality(At(F[h], b)) \in Nat
    BY AtFinite
  <2>4. Cardinality(H) = Cardinality(At(F[h], b)) /\ IsFiniteSet(H)
    BY <2>3, PairsCount, FS_Product, FS_Singleton
  <2> HIDE DEF H
  <2>5. Cardinality(OnBranch(F, b)) = Cardinality(OnBranch(G, b)) + Cardinality(H)
    BY <2>1, <2>2, <2>4, DisjointCount
  <2> QED BY <2>2, <2>3, <2>4, <2>5
<1>6. ASSUME NEW g
      PROVE  Cardinality(OfGen(F, g))
             = Cardinality(OfGen(G, g))
               + IF F[h].gen = g THEN Cardinality(DOMAIN F[h].low) ELSE 0
  <2>1. IsFiniteSet(OfGen(G, g)) /\ Cardinality(OfGen(G, g)) \in Nat
    BY UsesFinite DEF OfGen
  <2>2. CASE F[h].gen = g
    <3> DEFINE H == {h} \X DOMAIN F[h].low
    <3>1. OfGen(F, g) = OfGen(G, g) \cup H /\ OfGen(G, g) \cap H = {}
      BY <1>2, <1>4, <2>2 DEF OfGen
    <3>2. IsFiniteSet(DOMAIN F[h].low) /\ Cardinality(DOMAIN F[h].low) \in Nat
      BY AtFinite
    <3>3. Cardinality(H) = Cardinality(DOMAIN F[h].low) /\ IsFiniteSet(H)
      BY <3>2, PairsCount, FS_Product, FS_Singleton
    <3> HIDE DEF H
    <3>4. Cardinality(OfGen(F, g)) = Cardinality(OfGen(G, g)) + Cardinality(H)
      BY <2>1, <3>1, <3>3, DisjointCount
    <3> QED BY <2>1, <2>2, <3>2, <3>3, <3>4
  <2>3. CASE F[h].gen # g
    <3>1. OfGen(F, g) = OfGen(G, g)
      BY <1>2, <1>4, <2>3 DEF OfGen
    <3> QED BY <2>1, <2>3, <3>1
  <2> QED BY <2>2, <2>3
<1> QED BY <1>5, <1>6

-----------------------------------------------------------------------------
(* Taking and giving back.                                                 *)

\* What is good about the branches does not depend on their counts.
LEMMA SuperSame ==
    ASSUME NEW s, SuperGood(s), NEW t, IsSuper(t), Shape(t) = Shape(s),
           t.first = s.first, t.last = s.last,
           t.maps = [g \in DOMAIN s.maps |-> t.maps[g]],
           \A g \in DOMAIN s.maps :
                HasMap(t, g) => \E n \in Slots : Putmap(t, g) \in Putmaps(n)
    PROVE  SuperGood(t)
<1>1. t.bend = s.bend /\ t.on = s.on /\ t.gen = s.gen
  BY DEF Shape
<1>2. DOMAIN s.maps = (IF s.first = 0 THEN {} ELSE s.first .. s.last)
  BY DEF SuperGood
<1> QED BY <1>1, <1>2 DEF SuperGood

\* A file stays good as long as the branches and the way its putmap leads stay.
LEMMA FileSame ==
    ASSUME NEW s, NEW f, FileGood(s, f), NEW t, Shape(t) = Shape(s),
           f.gen # s.gen =>
                /\ HasMap(t, f.gen)
                /\ Putmap(t, f.gen).bend = Putmap(s, f.gen).bend
                /\ Putmap(t, f.gen).map = Putmap(s, f.gen).map
    PROVE  FileGood(t, f)
<1>1. t.bend = s.bend /\ t.on = s.on /\ t.gen = s.gen
  BY DEF Shape
<1> QED BY <1>1 DEF FileGood, Leads

\* A putmap is of an earlier generation than the present one.
LEMMA MapsOlder ==
    ASSUME NEW s, SuperGood(s), NEW g \in DOMAIN s.maps
    PROVE  g \in Nat /\ g < s.gen /\ g >= s.first /\ g =< s.last /\ s.first > 0
<1>1. DOMAIN s.maps = (IF s.first = 0 THEN {} ELSE s.first .. s.last)
  BY DEF SuperGood
<1> QED BY <1>1 DEF SuperGood

\* branchput of all that a file has: the branches are found, nothing stops the
\* kernel, and the counts are right for the files that are left.
LEMMA PutGood ==
    ASSUME NEW s, NEW F, Good(s, F), NEW h \in Handles, F[h] # Closed,
           NEW G, G = [F EXCEPT ![h] = Closed]
    PROVE  /\ Good(Put(s, F[h].gen, PositionsOf(F[h].low)), G)
           /\ ~ PutBugs(s, F[h].gen, PositionsOf(F[h].low))
           /\ MapsUsed(s, F) => MapsUsed(Put(s, F[h].gen, PositionsOf(F[h].low)), G)
<1> DEFINE f == F[h]
           I == DOMAIN f.low
           t == Put(s, f.gen, I)
<1>1. /\ SuperGood(s) /\ IsSuper(s) /\ FileGood(s, f)
      /\ f.low \in Lows /\ I # {} /\ f.gen \in Nat
      /\ F = [x \in Handles |-> F[x]]
      /\ s.bend \in Nat
  BY DEF Good, FilesGood, FileGood, SuperGood
<1>2. I \subseteq Slots /\ IsFiniteSet(I) /\ Cardinality(I) \in Nat \ {0}
  BY <1>1, AtFinite, FS_EmptySet
<1>3. /\ \A b : Cardinality(OnBranch(F, b)) = Cardinality(OnBranch(G, b)) + Cardinality(At(f, b))
      /\ \A g : Cardinality(OfGen(F, g))
                = Cardinality(OfGen(G, g)) + IF f.gen = g THEN Cardinality(I) ELSE 0
  BY <1>1, CloseCounts
<1>4. /\ \A b : Cardinality(OnBranch(G, b)) \in Nat /\ Cardinality(At(f, b)) \in Nat
      /\ \A g : Cardinality(OfGen(G, g)) \in Nat
  BY <1>1, UsesFinite, AtFinite DEF OnBranch, OfGen
<1>5. IsSuper(t) /\ Shape(t) = Shape(s)
  BY <1>1, PutShape
<1>6. t.first = s.first /\ t.last = s.last /\ t.bend = s.bend /\ t.on = s.on /\ t.gen = s.gen
  BY <1>1, <1>5 DEF Put, IsSuper, Shape
<1>7. /\ \A x \in Handles : G[x] # Closed => x # h /\ G[x] = F[x]
      /\ G = [x \in Handles |-> G[x]]
  BY <1>1
<1>8. /\ \A x \in Handles : F[x] # Closed => FileGood(s, F[x])
      /\ s.count = [i \in 0 .. s.bend |-> Cardinality(OnBranch(F, s.on[i]))]
      /\ \A g \in DOMAIN s.maps : HasMap(s, g) => Putmap(s, g).count = Cardinality(OfGen(F, g))
  BY DEF Good, FilesGood, CountsGood
<1> HIDE DEF f
<1>9. CASE f.gen = s.gen
  <2>1. t = [s EXCEPT !.count = [i \in 0 .. s.bend |-> IF i \in I THEN @[i] - 1 ELSE @[i]]]
    BY <1>1, <1>9 DEF Put, Positions
  <2>2. t.maps = s.maps
    BY <2>1, <1>1 DEF IsSuper
  <2>3. SuperGood(t)
    <3>1. \A g \in DOMAIN s.maps :
            HasMap(t, g) => \E n \in Slots : Putmap(t, g) \in Putmaps(n)
      BY <1>1, <2>2 DEF SuperGood, HasMap, Putmap
    <3>2. t.maps = [g \in DOMAIN s.maps |-> t.maps[g]]
      BY <1>1, <2>2 DEF SuperGood
    <3> HIDE DEF t
    <3> QED BY <1>1, <1>5, <1>6, <3>1, <3>2, SuperSame
  <2>4. FilesGood(t, G)
    <3>1. ASSUME NEW x \in Handles, G[x] # Closed PROVE FileGood(t, G[x])
      <4>1. FileGood(s, F[x]) /\ G[x] = F[x]
        BY <1>7, <1>8, <3>1
      <4>2. F[x].gen # s.gen => HasMap(s, F[x].gen)
        BY <4>1 DEF FileGood
      <4> HIDE DEF t
      <4> QED BY <4>1, <4>2, <1>5, <2>2, FileSame DEF HasMap, Putmap
    <3> QED BY <1>7, <3>1 DEF FilesGood
  <2>5. t.count = [i \in 0 .. t.bend |-> Cardinality(OnBranch(G, t.on[i]))]
    <3>1. ASSUME NEW i \in 0 .. s.bend
          PROVE  Cardinality(At(f, s.on[i])) = IF i \in I THEN 1 ELSE 0
      <4>1. \A j \in I : j \in 0 .. s.bend /\ s.on[j] = f.low[j]
        BY <1>1, <1>9 DEF FileGood, Leads
      <4>2. At(f, s.on[i]) = IF i \in I THEN {i} ELSE {}
        BY <1>1, <4>1 DEF At, SuperGood
      <4> QED BY <4>2, FS_Singleton, FS_EmptySet
    <3>2. ASSUME NEW i \in 0 .. s.bend
          PROVE  (IF i \in I THEN s.count[i] - 1 ELSE s.count[i])
                 = Cardinality(OnBranch(G, s.on[i]))
      <4>1. /\ Cardinality(OnBranch(F, s.on[i]))
               = Cardinality(OnBranch(G, s.on[i])) + Cardinality(At(f, s.on[i]))
            /\ Cardinality(OnBranch(G, s.on[i])) \in Nat
        BY <1>3, <1>4
      <4>2. s.count[i] = Cardinality(OnBranch(F, s.on[i]))
        BY <1>8
      <4> QED BY <3>1, <4>1, <4>2
    <3>3. t.count = [i \in 0 .. s.bend |-> IF i \in I THEN s.count[i] - 1 ELSE s.count[i]]
      BY <2>1, <1>1 DEF IsSuper
    <3> HIDE DEF t
    <3> QED BY <1>6, <3>2, <3>3
  <2>6. ASSUME NEW g \in DOMAIN t.maps, HasMap(t, g)
        PROVE  Putmap(t, g).count = Cardinality(OfGen(G, g))
    <3>1. g # f.gen
      BY <1>1, <1>9, <2>2, <2>6, MapsOlder
    <3>2. Putmap(t, g) = Putmap(s, g) /\ g \in DOMAIN s.maps /\ HasMap(s, g)
      BY <2>2, <2>6 DEF HasMap, Putmap
    <3>3. Cardinality(OfGen(F, g)) = Cardinality(OfGen(G, g)) + 0
      BY <1>3, <3>1
    <3>4. Cardinality(OfGen(G, g)) \in Nat
      BY <1>4
    <3> HIDE DEF t
    <3> QED BY <1>8, <3>2, <3>3, <3>4
  <2>7. ~ PutBugs(s, f.gen, I)
    BY <1>9 DEF PutBugs
  <2>8. MapsUsed(s, F) => MapsUsed(t, G)
    <3> SUFFICES ASSUME MapsUsed(s, F), NEW g \in DOMAIN t.maps, HasMap(t, g)
                 PROVE  OfGen(G, g) # {}
      BY DEF MapsUsed
    <3>1. Putmap(t, g) = Putmap(s, g) /\ g \in DOMAIN s.maps /\ HasMap(s, g)
      BY <2>2 DEF HasMap, Putmap
    <3>2. OfGen(F, g) # {} /\ g # f.gen
      BY <1>1, <1>9, <3>1, MapsOlder DEF MapsUsed
    <3> QED BY <1>7, <1>1, <3>2 DEF OfGen, Uses, f
  <2> QED BY <2>3, <2>4, <2>5, <2>6, <2>7, <2>8 DEF Good, CountsGood, f, PositionsOf
<1>10. CASE f.gen # s.gen
  <2> DEFINE m == Putmap(s, f.gen)
             Onto(j) == {i \in I : m.map[i] = j}
             n == m.count - Cardinality(I)
             kept == [m EXCEPT !.count = n]
  <2>1. /\ HasMap(s, f.gen) /\ f.gen \in DOMAIN s.maps /\ m # Freed
        /\ f.gen \in s.first .. s.last
        /\ m.count = Cardinality(OfGen(F, f.gen))
    <3>1. HasMap(s, f.gen) /\ f.gen \in DOMAIN s.maps /\ m # Freed
      BY <1>1, <1>10 DEF FileGood, HasMap
    <3>2. f.gen \in s.first .. s.last
      BY <1>1, <3>1, MapsOlder DEF SuperGood
    <3> QED BY <1>8, <3>1, <3>2
  <2>2. PICK k \in Slots : m \in Putmaps(k)
    BY <1>1, <2>1 DEF SuperGood
  <2>3. /\ m.count = Cardinality(OfGen(G, f.gen)) + Cardinality(I)
        /\ n = Cardinality(OfGen(G, f.gen))
        /\ Cardinality(OfGen(G, f.gen)) \in Nat
    <3>1. Cardinality(OfGen(F, f.gen)) = Cardinality(OfGen(G, f.gen)) + Cardinality(I)
      BY <1>3
    <3>2. Cardinality(OfGen(G, f.gen)) \in Nat
      BY <1>4
    <3> QED BY <1>2, <2>1, <3>1, <3>2
  <2>4. kept \in Putmaps(k) /\ kept # Freed /\ kept.bend = m.bend /\ kept.map = m.map /\ kept.count = n
    <3>1. n \in Int
      BY <2>3
    <3>2. kept = [count |-> n, bend |-> m.bend, map |-> m.map]
      BY <2>2 DEF Putmaps
    <3>3. kept \in Putmaps(k)
      BY <2>2, <3>1, <3>2 DEF Putmaps
    <3> QED BY <3>2, <3>3, MarkerAssumption
  <2>5. \A j \in I : /\ j =< m.bend /\ m.map[j] \in 0 .. s.bend
                     /\ s.on[m.map[j]] = f.low[j]
    BY <1>1, <1>10 DEF FileGood, Leads
  <2> HIDE DEF m
  <2>6. t = [s EXCEPT
                !.count = [j \in 0 .. s.bend |-> @[j] - Cardinality(Onto(j))],
                !.maps[f.gen] = IF m.count = Cardinality(I) THEN Freed ELSE kept]
    BY <1>1, <1>10, Zenon DEF Put, Positions, m
  <2>7. /\ t.maps = [s.maps EXCEPT ![f.gen] = IF m.count = Cardinality(I) THEN Freed ELSE kept]
        /\ t.count = [j \in 0 .. s.bend |-> s.count[j] - Cardinality(Onto(j))]
    <3> HIDE DEF kept, Onto
    <3> QED BY <1>1, <2>6 DEF IsSuper
  <2> HIDE DEF t, kept
  <2>8. /\ t.maps = [g \in DOMAIN s.maps |-> t.maps[g]]
        /\ Putmap(t, f.gen) = IF m.count = Cardinality(I) THEN Freed ELSE kept
        /\ \A g \in DOMAIN s.maps : g # f.gen => Putmap(t, g) = Putmap(s, g)
        /\ DOMAIN t.maps = DOMAIN s.maps
    BY <1>1, <2>1, <2>7 DEF SuperGood, Putmap
  <2>9. SuperGood(t)
    <3>1. \A g \in DOMAIN s.maps :
            HasMap(t, g) => \E l \in Slots : Putmap(t, g) \in Putmaps(l)
      BY <1>1, <2>2, <2>4, <2>8 DEF SuperGood, HasMap
    <3> QED BY <1>1, <1>5, <1>6, <2>8, <3>1, SuperSame
  <2>10. FilesGood(t, G)
    <3>1. ASSUME NEW x \in Handles, G[x] # Closed PROVE FileGood(t, G[x])
      <4>1. FileGood(s, F[x]) /\ G[x] = F[x]
        BY <1>7, <1>8, <3>1
      <4>2. F[x].gen # s.gen => HasMap(s, F[x].gen)
        BY <4>1 DEF FileGood
      <4>3. CASE F[x].gen = f.gen
        <5>1. PICK j : j \in DOMAIN G[x].low /\ j \in Slots
          BY <4>1, AtFinite DEF FileGood
        <5>2. <<x, j>> \in OfGen(G, f.gen)
          BY <3>1, <4>1, <4>3, <5>1 DEF OfGen, Uses
        <5>3. IsFiniteSet(OfGen(G, f.gen))
          BY UsesFinite DEF OfGen
        <5>4. n # 0
          BY <2>3, <5>2, <5>3, FS_EmptySet
        <5>5. m.count # Cardinality(I)
          BY <1>2, <2>3, <5>4
        <5>6. Putmap(t, f.gen) = kept
          BY <2>8, <5>5
        <5> QED BY <1>5, <2>1, <2>4, <2>8, <4>1, <4>3, <5>6, FileSame DEF HasMap, m
      <4>4. CASE F[x].gen # f.gen
        <5>1. F[x].gen # s.gen => HasMap(t, F[x].gen) /\ Putmap(t, F[x].gen) = Putmap(s, F[x].gen)
          BY <2>8, <4>2, <4>4 DEF HasMap
        <5> QED BY <1>5, <4>1, <5>1, FileSame
      <4> QED BY <4>3, <4>4
    <3> QED BY <1>7, <3>1 DEF FilesGood
  <2>11. t.count = [i \in 0 .. t.bend |-> Cardinality(OnBranch(G, t.on[i]))]
    <3>1. ASSUME NEW i \in 0 .. s.bend
          PROVE  s.count[i] - Cardinality(Onto(i)) = Cardinality(OnBranch(G, s.on[i]))
      <4>1. Onto(i) = At(f, s.on[i])
        <5>1. /\ s.on \in [0 .. s.bend -> Branch]
              /\ \A a, b \in 0 .. s.bend : s.on[a] = s.on[b] => a = b
          BY <1>1 DEF SuperGood
        <5> QED BY <2>5, <3>1, <5>1 DEF At
      <4>2. /\ Cardinality(OnBranch(F, s.on[i]))
               = Cardinality(OnBranch(G, s.on[i])) + Cardinality(At(f, s.on[i]))
            /\ Cardinality(OnBranch(G, s.on[i])) \in Nat
            /\ Cardinality(At(f, s.on[i])) \in Nat
        BY <1>3, <1>4
      <4>3. s.count[i] = Cardinality(OnBranch(F, s.on[i]))
        BY <1>8
      <4> HIDE DEF Onto
      <4>4. \A x, y, z \in Nat : x = y + z => x - z = y
        OBVIOUS
      <4>5. Cardinality(OnBranch(F, s.on[i])) \in Nat
        BY ONLY <4>2
      <4> QED BY <4>1, <4>2, <4>3, <4>4, <4>5
    <3>2. /\ t.bend = s.bend /\ t.on = s.on
          /\ t.count = [j \in 0 .. s.bend |-> s.count[j] - Cardinality(Onto(j))]
      BY <1>6, <2>7
    <3> HIDE DEF t, Onto
    <3>3. t.count = [i \in 0 .. s.bend |-> Cardinality(OnBranch(G, s.on[i]))]
      BY ONLY <3>1, <3>2
    <3> QED BY ONLY <3>2, <3>3
  <2>12. ASSUME NEW g \in DOMAIN t.maps, HasMap(t, g)
         PROVE  Putmap(t, g).count = Cardinality(OfGen(G, g))
    <3>1. CASE g = f.gen
      BY <2>3, <2>4, <2>8, <2>12, <3>1 DEF HasMap
    <3>2. CASE g # f.gen
      <4>1. Putmap(t, g) = Putmap(s, g) /\ g \in DOMAIN s.maps /\ HasMap(s, g)
        BY <2>8, <2>12, <3>2 DEF HasMap
      <4>2. Cardinality(OfGen(F, g)) = Cardinality(OfGen(G, g)) + 0
        BY <1>3, <3>2
      <4>3. Cardinality(OfGen(G, g)) \in Nat
        BY <1>4
      <4> QED BY <1>8, <4>1, <4>2, <4>3
    <3> QED BY <3>1, <3>2
  <2>13. ~ PutBugs(s, f.gen, I)
    <3>1. m.count \notin 1 .. Cardinality(I) - 1
      BY <1>2, <2>3
    <3>2. \A i \in I : i =< m.bend /\ m.map[i] # Wild
      BY <1>1, <2>5, BranchManAssumption
    <3> QED BY <2>1, <3>1, <3>2 DEF PutBugs, MapUsable, m
  <2>14. MapsUsed(s, F) => MapsUsed(t, G)
    <3> SUFFICES ASSUME MapsUsed(s, F), NEW g \in DOMAIN t.maps, HasMap(t, g)
                 PROVE  OfGen(G, g) # {}
      BY DEF MapsUsed
    <3>1. CASE g = f.gen
      <4>1. m.count # Cardinality(I)
        BY <2>8, <3>1 DEF HasMap
      <4>2. Cardinality(OfGen(G, g)) # 0
        BY <1>2, <2>3, <3>1, <4>1
      <4> QED BY <4>2, FS_EmptySet
    <3>2. CASE g # f.gen
      <4>1. OfGen(F, g) # {}
        BY <2>8, <3>2 DEF MapsUsed, HasMap
      <4> QED BY <1>7, <1>1, <3>2, <4>1 DEF OfGen, Uses, f
    <3> QED BY <3>1, <3>2
  <2> QED BY <2>9, <2>10, <2>11, <2>12, <2>13, <2>14 DEF Good, CountsGood, f, t, PositionsOf
<1> QED BY <1>9, <1>10

\* branchget for a file that is opened by the present branches.
LEMMA GetGood ==
    ASSUME NEW s, NEW F, Good(s, F), NEW h \in Handles, F[h] = Closed,
           NEW r \in OpenFiles, r.gen = s.gen, PositionsOf(r.low) # {},
           \A j \in PositionsOf(r.low) :
                r.low[j] \in Has[r.name] /\ j \in 0 .. s.bend /\ r.low[j] = s.on[j],
           NEW G, G = [F EXCEPT ![h] = r]
    PROVE  /\ Good(Get(s, PositionsOf(r.low)), G)
           /\ MapsUsed(s, F) => MapsUsed(Get(s, PositionsOf(r.low)), G)
<1> DEFINE I == DOMAIN r.low
           t == Get(s, I)
<1>1. /\ SuperGood(s) /\ IsSuper(s)
      /\ F = [x \in Handles |-> F[x]]
      /\ s.bend \in Nat /\ s.gen \in Nat \ {0}
  BY DEF Good, FilesGood, SuperGood
<1>2. /\ r # Closed /\ r.low \in Lows
      /\ r \in [name : Names, gen : 1 .. s.gen, low : Lows]
  <2>1. r # Closed
    BY MarkerAssumption
  <2>2. r \in [name : Names, gen : 1 .. MaxGen, low : Lows]
    BY DEF OpenFiles
  <2> QED BY <1>1, <2>1, <2>2
<1>3. /\ G[h] = r /\ \A x \in Handles : x # h => G[x] = F[x]
      /\ G = [x \in Handles |-> G[x]]
      /\ F = [G EXCEPT ![h] = Closed]
  BY <1>1
<1>4. /\ \A b : Cardinality(OnBranch(G, b)) = Cardinality(OnBranch(F, b)) + Cardinality(At(r, b))
      /\ \A g : Cardinality(OfGen(G, g))
                = Cardinality(OfGen(F, g)) + IF r.gen = g THEN Cardinality(I) ELSE 0
  <2>1. G[h] # Closed /\ G[h].low \in Lows
    BY <1>2, <1>3
  <2> QED BY <2>1, <1>3, CloseCounts
<1>5. IsSuper(t) /\ Shape(t) = Shape(s)
  BY <1>1, GetShape
<1>6. t = [s EXCEPT !.count = [i \in 0 .. s.bend |-> IF i \in I THEN @[i] + 1 ELSE @[i]]]
  BY DEF Get, Positions
<1>7. /\ t.first = s.first /\ t.last = s.last /\ t.bend = s.bend /\ t.on = s.on
      /\ t.gen = s.gen /\ t.maps = s.maps
      /\ t.count = [i \in 0 .. s.bend |-> IF i \in I THEN s.count[i] + 1 ELSE s.count[i]]
  BY <1>1, <1>6 DEF IsSuper
<1>8. /\ \A x \in Handles : F[x] # Closed => FileGood(s, F[x])
      /\ s.count = [i \in 0 .. s.bend |-> Cardinality(OnBranch(F, s.on[i]))]
      /\ \A g \in DOMAIN s.maps : HasMap(s, g) => Putmap(s, g).count = Cardinality(OfGen(F, g))
  BY DEF Good, FilesGood, CountsGood
<1> HIDE DEF t
<1>9. SuperGood(t)
  <2>1. \A g \in DOMAIN s.maps :
          HasMap(t, g) => \E n \in Slots : Putmap(t, g) \in Putmaps(n)
    BY <1>1, <1>7 DEF SuperGood, HasMap, Putmap
  <2>2. t.maps = [g \in DOMAIN s.maps |-> t.maps[g]]
    BY <1>1, <1>7 DEF SuperGood
  <2> QED BY <1>1, <1>5, <1>7, <2>1, <2>2, SuperSame
<1>10. FilesGood(t, G)
  <2>1. ASSUME NEW x \in Handles, G[x] # Closed PROVE FileGood(t, G[x])
    <3>1. CASE x = h
      <4>1. /\ r \in [name : Names, gen : 1 .. t.gen, low : Lows]
            /\ DOMAIN r.low # {} /\ r.gen = t.gen
            /\ \A j \in DOMAIN r.low :
                r.low[j] \in Has[r.name] /\ j \in 0 .. t.bend /\ t.on[j] = r.low[j]
        BY <1>2, <1>7 DEF PositionsOf
      <4> QED BY <3>1, <4>1, <1>3 DEF FileGood, Leads
    <3>2. CASE x # h
      <4>1. FileGood(s, F[x]) /\ G[x] = F[x]
        BY <1>3, <1>8, <2>1, <3>2
      <4>2. F[x].gen # s.gen => HasMap(s, F[x].gen)
        BY <4>1 DEF FileGood
      <4> QED BY <4>1, <4>2, <1>5, <1>7, FileSame DEF HasMap, Putmap
    <3> QED BY <3>1, <3>2
  <2> QED BY <1>3, <2>1 DEF FilesGood
<1>11. t.count = [i \in 0 .. t.bend |-> Cardinality(OnBranch(G, t.on[i]))]
  <2>1. ASSUME NEW i \in 0 .. s.bend
        PROVE  (IF i \in I THEN s.count[i] + 1 ELSE s.count[i])
               = Cardinality(OnBranch(G, s.on[i]))
    <3>1. At(r, s.on[i]) = IF i \in I THEN {i} ELSE {}
      BY <1>1 DEF At, SuperGood, PositionsOf
    <3>2. Cardinality(At(r, s.on[i])) = IF i \in I THEN 1 ELSE 0
      BY <3>1, FS_Singleton, FS_EmptySet
    <3>3. /\ Cardinality(OnBranch(G, s.on[i]))
             = Cardinality(OnBranch(F, s.on[i])) + Cardinality(At(r, s.on[i]))
          /\ Cardinality(OnBranch(F, s.on[i])) \in Nat
      BY <1>4, UsesFinite DEF OnBranch
    <3>4. s.count[i] = Cardinality(OnBranch(F, s.on[i]))
      BY <1>8
    <3> DEFINE x == Cardinality(OnBranch(F, s.on[i]))
               y == Cardinality(OnBranch(G, s.on[i]))
               z == Cardinality(At(r, s.on[i]))
               c == s.count[i]
    <3>5. z = (IF i \in I THEN 1 ELSE 0) /\ y = x + z /\ x \in Nat /\ c = x
      BY ONLY <3>2, <3>3, <3>4
    <3> HIDE DEF x, y, z, c
    <3>6. y = IF i \in I THEN c + 1 ELSE c
      BY ONLY <3>5
    <3> QED BY ONLY <3>6 DEF y, c
  <2> HIDE DEF t, I
  <2>2. t.count = [i \in 0 .. s.bend |-> Cardinality(OnBranch(G, s.on[i]))]
    BY ONLY <1>7, <2>1
  <2> QED BY ONLY <1>7, <2>2
<1>12. ASSUME NEW g \in DOMAIN t.maps, HasMap(t, g)
       PROVE  Putmap(t, g).count = Cardinality(OfGen(G, g))
  <2>1. g # r.gen
    BY <1>1, <1>7, MapsOlder
  <2>2. Putmap(t, g) = Putmap(s, g) /\ g \in DOMAIN s.maps /\ HasMap(s, g)
    BY <1>7, <1>12 DEF HasMap, Putmap
  <2>3. Cardinality(OfGen(G, g)) = Cardinality(OfGen(F, g)) + 0
    BY <1>4, <2>1
  <2>4. Cardinality(OfGen(F, g)) \in Nat
    BY UsesFinite DEF OfGen
  <2> QED BY <1>8, <2>2, <2>3, <2>4
<1>13. MapsUsed(s, F) => MapsUsed(t, G)
  <2>1. \A g : OfGen(F, g) \subseteq OfGen(G, g)
    BY <1>3 DEF OfGen, Uses
  <2> QED BY <1>7, <2>1 DEF MapsUsed, HasMap, Putmap
<1> QED BY <1>9, <1>10, <1>11, <1>12, <1>13 DEF Good, CountsGood, t, PositionsOf

\* Every lower file in use has a position in the list of branches, and is of the
\* present generation or of one that has a putmap.
LEMMA UsesPlaced ==
    ASSUME NEW s, NEW F, Good(s, F), NEW u \in Uses(F)
    PROVE  /\ u[1] \in Handles /\ FileGood(s, F[u[1]])
           /\ \E i \in 0 .. s.bend : s.on[i] = F[u[1]].low[u[2]]
           /\ F[u[1]].gen = s.gen \/ HasMap(s, F[u[1]].gen)
BY DEF Uses, Good, FilesGood, FileGood

\* What newputmap computes is the number of lower files of the generation that
\* ends: all that are in use less those that the older putmaps count.
LEMMA NewPutmapCounts ==
    ASSUME NEW s, NEW F, Good(s, F),
           NEW live, live = {g \in DOMAIN s.maps : HasMap(s, g)}
    PROVE  SumFunction(s.count) - SumFunction([g \in live |-> Putmap(s, g).count])
           = Cardinality(OfGen(F, s.gen))
<1> DEFINE U == Uses(F)
           pos == [u \in U |-> CHOOSE i \in 0 .. s.bend : s.on[i] = F[u[1]].low[u[2]]]
           gen == [u \in U |-> F[u[1]].gen]
           counts == [g \in live |-> Putmap(s, g).count]
<1>1. /\ SuperGood(s) /\ s.bend \in Nat
      /\ s.count = [i \in 0 .. s.bend |-> Cardinality(OnBranch(F, s.on[i]))]
      /\ \A g \in live : Putmap(s, g).count = Cardinality(OfGen(F, g))
  BY DEF Good, SuperGood, CountsGood
<1>2. IsFiniteSet(U)
  BY UsesFinite
<1>3. \A u \in U : pos[u] \in 0 .. s.bend /\ s.on[pos[u]] = F[u[1]].low[u[2]]
  BY UsesPlaced
<1>4. SumFunction(s.count) = Cardinality(U)
  <2>1. IsFiniteSet(DOMAIN s.count)
    BY <1>1, IntervalCount
  <2>2. \A i \in DOMAIN s.count : OnBranch(F, s.on[i]) = {u \in U : pos[u] = i}
    <3> HIDE DEF pos
    <3>1. \A i, j \in 0 .. s.bend : s.on[i] = s.on[j] => i = j
      BY <1>1 DEF SuperGood
    <3>2. DOMAIN s.count = 0 .. s.bend
      BY <1>1
    <3> QED BY <3>1, <3>2, <1>3 DEF OnBranch
  <2>3. \A i \in DOMAIN s.count : s.count[i] = Cardinality({u \in U : pos[u] = i})
    BY <1>1, <2>2
  <2>4. {u \in U : pos[u] \in DOMAIN s.count} = U
    BY <1>1, <1>3
  <2> DEFINE c == s.count
  <2> HIDE DEF U, pos, c
  <2>5. SumFunction(c) = Cardinality({u \in U : pos[u] \in DOMAIN c})
    <3>1. IsFiniteSet(DOMAIN c) /\ \A i \in DOMAIN c : c[i] = Cardinality({u \in U : pos[u] = i})
      BY <2>1, <2>3 DEF c
    <3> QED BY <1>2, <3>1, SumCounts
  <2> QED BY <2>4, <2>5 DEF c
<1>5. SumFunction(counts) = Cardinality({u \in U : gen[u] \in live})
  <2>1. IsFiniteSet(live)
    <3>1. live \subseteq s.first .. s.last
      BY <1>1, MapsOlder DEF SuperGood
    <3>2. s.first \in Int /\ s.last \in Int
      BY <1>1 DEF SuperGood
    <3>3. \A i, j \in Int : IsFiniteSet(i .. j)
      BY FS_Interval
    <3>4. IsFiniteSet(s.first .. s.last)
      BY <3>2, <3>3
    <3> QED BY <3>1, <3>4, FS_Subset
  <2>2. \A g \in live : OfGen(F, g) = {u \in U : gen[u] = g}
    BY DEF OfGen
  <2>3. DOMAIN counts = live /\ \A g \in DOMAIN counts : counts[g] = Cardinality({u \in U : gen[u] = g})
    BY <1>1, <2>2
  <2> HIDE DEF U, gen, counts
  <2> QED BY <1>2, <2>1, <2>3, SumCounts
<1>6. /\ U = OfGen(F, s.gen) \cup {u \in U : gen[u] \in live}
      /\ OfGen(F, s.gen) \cap {u \in U : gen[u] \in live} = {}
  <2>1. s.gen \notin live
    BY <1>1, MapsOlder
  <2>2. \A u \in U : gen[u] = s.gen \/ gen[u] \in live
    BY UsesPlaced DEF HasMap
  <2> QED BY <2>1, <2>2 DEF OfGen
<1>7. /\ IsFiniteSet(OfGen(F, s.gen)) /\ Cardinality(OfGen(F, s.gen)) \in Nat
      /\ IsFiniteSet({u \in U : gen[u] \in live}) /\ Cardinality({u \in U : gen[u] \in live}) \in Nat
  BY UsesFinite DEF OfGen
<1>8. Cardinality(U) = Cardinality(OfGen(F, s.gen)) + Cardinality({u \in U : gen[u] \in live})
  <2> HIDE DEF U, gen
  <2> QED BY <1>6, <1>7, DisjointCount
<1> QED BY <1>4, <1>5, <1>7, <1>8

-----------------------------------------------------------------------------
(* A new generation.                                                       *)

\* The putmap of the generation that ends.
EndMap(s, F) ==
    [count |-> Cardinality(OfGen(F, s.gen)), bend |-> s.bend, map |-> [i \in 0 .. s.bend |-> i]]

\* The super block with the putmaps of the generations from first to the present.
Ended(s, F, first) ==
    [s EXCEPT !.first = first,
              !.last = s.gen,
              !.maps = [g \in first .. s.gen |->
                            IF g = s.gen THEN EndMap(s, F) ELSE Putmap(s, g)]]

\* newputmap drops no putmap that has users and makes one for the generation
\* that ends.
LEMMA NewPutmapIs ==
    ASSUME NEW s, NEW F, Good(s, F)
    PROVE  \E first \in 1 .. s.gen :
            /\ \A g \in DOMAIN s.maps : HasMap(s, g) => first =< g
            /\ \A g \in first .. s.gen : g # s.gen => g \in DOMAIN s.maps
            /\ NewPutmap(s) = Ended(s, F, first)
<1> DEFINE live == {g \in s.first .. s.last : s.first > 0 /\ Putmap(s, g) # Freed}
           last == s.last + 1
           first == IF s.first = 0 THEN 1 ELSE Min(live \cup {last})
<1>1. /\ SuperGood(s) /\ s.gen \in Nat \ {0} /\ s.first \in Nat /\ s.last = s.gen - 1
      /\ s.first = 0 <=> s.last = 0
      /\ s.first =< s.last
      /\ DOMAIN s.maps = IF s.first = 0 THEN {} ELSE s.first .. s.last
  BY DEF Good, SuperGood
<1>2. last = s.gen
  BY <1>1
<1>3. live = {g \in DOMAIN s.maps : HasMap(s, g)}
  BY <1>1 DEF HasMap
<1>4. SumFunction(s.count) - SumFunction([g \in live |-> Putmap(s, g).count])
      = Cardinality(OfGen(F, s.gen))
  BY <1>3, NewPutmapCounts
<1>5. first \in 1 .. s.gen /\ (s.first > 0 => first >= s.first) /\ \A g \in live : first =< g
  <2>1. CASE s.first = 0
    BY <1>1, <2>1
  <2>2. CASE s.first # 0
    <3>1. live \cup {last} \subseteq Nat /\ live \cup {last} # {}
      BY <1>1
    <3>2. PICK n \in live \cup {last} : \A m \in live \cup {last} : n =< m
      BY <3>1, LeastNatural
    <3>3. first \in live \cup {last} /\ \A m \in live \cup {last} : first =< m
      BY <2>2, <3>2 DEF Min
    <3>4. \A g \in live \cup {last} : g \in 1 .. s.gen /\ g >= s.first
      BY <1>1, <2>2
    <3> QED BY <3>3, <3>4
  <2> QED BY <2>1, <2>2
<1>6. \A g \in first .. s.gen : g # s.gen => g \in DOMAIN s.maps
  <2>1. CASE s.first = 0
    BY <1>1, <1>5, <2>1
  <2>2. CASE s.first # 0
    BY <1>1, <1>5, <2>2
  <2> QED BY <2>1, <2>2
<1>7. NewPutmap(s) =
        [s EXCEPT !.first = first,
                  !.last = last,
                  !.maps = [g \in first .. last |->
                                IF g = last
                                THEN [count |-> SumFunction(s.count)
                                        - SumFunction([g1 \in live |-> Putmap(s, g1).count]),
                                      bend |-> s.bend,
                                      map |-> [i \in Positions(s) |-> i]]
                                ELSE Putmap(s, g)]]
  BY Zenon DEF NewPutmap
<1>8. [count |-> SumFunction(s.count) - SumFunction([g \in live |-> Putmap(s, g).count]),
       bend |-> s.bend, map |-> [i \in Positions(s) |-> i]] = EndMap(s, F)
  BY <1>4 DEF EndMap, Positions
<1> HIDE DEF live, last, first
<1>9. NewPutmap(s) = Ended(s, F, first)
  BY <1>2, <1>7, <1>8 DEF Ended
<1>10. \A g \in DOMAIN s.maps : HasMap(s, g) => first =< g
  BY <1>3, <1>5
<1>11. first \in 1 .. s.gen
  BY <1>5
<1> WITNESS first \in 1 .. s.gen
<1> QED BY <1>6, <1>9, <1>10

\* After a generation has ended everything is as good as before, and no file is
\* of the new generation yet.
LEMMA BumpGood ==
    ASSUME NEW s, NEW F, Good(s, F), NEW t, t = NewGeneration(NewPutmap(s))
    PROVE  /\ Good(t, F)
           /\ t.bend = s.bend /\ t.on = s.on /\ t.gen = s.gen + 1 /\ t.last = s.gen
           /\ HasMap(t, s.gen) /\ Putmap(t, s.gen) = EndMap(s, F)
           /\ \A h \in Handles : F[h] # Closed => F[h].gen < t.gen
           /\ \A g \in DOMAIN t.maps :
                g # s.gen => g \in DOMAIN s.maps /\ Putmap(t, g) = Putmap(s, g)
<1>1. /\ SuperGood(s) /\ IsSuper(s) /\ s.gen \in Nat \ {0} /\ s.bend \in Nat
      /\ F = [h \in Handles |-> F[h]]
      /\ \A h \in Handles : F[h] # Closed => FileGood(s, F[h])
  BY DEF Good, SuperGood, FilesGood
<1>2. PICK first \in 1 .. s.gen :
        /\ \A g \in DOMAIN s.maps : HasMap(s, g) => first =< g
        /\ \A g \in first .. s.gen : g # s.gen => g \in DOMAIN s.maps
        /\ NewPutmap(s) = Ended(s, F, first)
  BY NewPutmapIs
<1>3. /\ IsSuper(t)
      /\ t.bend = s.bend /\ t.on = s.on /\ t.count = s.count /\ t.gen = s.gen + 1
      /\ t.first = first /\ t.last = s.gen
      /\ t.maps = [g \in first .. s.gen |-> IF g = s.gen THEN EndMap(s, F) ELSE Putmap(s, g)]
  <2> DEFINE maps == [g \in first .. s.gen |-> IF g = s.gen THEN EndMap(s, F) ELSE Putmap(s, g)]
  <2> HIDE DEF maps
  <2>1. t = [[s EXCEPT !.first = first, !.last = s.gen, !.maps = maps] EXCEPT !.gen = @ + 1]
    BY <1>2 DEF NewGeneration, Ended, maps
  <2>2. /\ IsSuper(t)
        /\ t.bend = s.bend /\ t.on = s.on /\ t.count = s.count /\ t.gen = s.gen + 1
        /\ t.first = first /\ t.last = s.gen /\ t.maps = maps
    BY <1>1, <2>1 DEF IsSuper
  <2> QED BY <2>2 DEF maps
<1>4. EndMap(s, F) \in Putmaps(s.bend) /\ s.bend \in Slots /\ EndMap(s, F) # Freed
  <2>1. s.bend \in Slots /\ 0 .. s.bend \subseteq Slots
    BY <1>1, BendInSlots
  <2>2. Cardinality(OfGen(F, s.gen)) \in Int
    BY UsesFinite DEF OfGen
  <2>3. EndMap(s, F) \in Putmaps(s.bend)
    BY <2>1, <2>2 DEF EndMap, Putmaps
  <2> QED BY <2>1, <2>3, MarkerAssumption
<1>5. /\ Putmap(t, s.gen) = EndMap(s, F) /\ HasMap(t, s.gen)
      /\ \A g \in DOMAIN t.maps : g # s.gen => g \in DOMAIN s.maps /\ Putmap(t, g) = Putmap(s, g)
      /\ \A g \in DOMAIN s.maps : HasMap(s, g) => HasMap(t, g) /\ Putmap(t, g) = Putmap(s, g)
  <2>1. \A g \in DOMAIN s.maps : g \in Nat /\ g < s.gen
    BY <1>1, MapsOlder
  <2>2. DOMAIN t.maps = first .. s.gen /\ s.gen \in first .. s.gen
    BY <1>1, <1>3
  <2>3. t.maps[s.gen] = EndMap(s, F)
    BY <1>3, <2>2
  <2>4. \A g \in DOMAIN t.maps : g # s.gen => g \in DOMAIN s.maps /\ t.maps[g] = s.maps[g]
    BY <1>2, <1>3, <2>2 DEF Putmap
  <2>5. \A g \in DOMAIN s.maps : HasMap(s, g) => g \in DOMAIN t.maps /\ g # s.gen
    BY <1>1, <1>2, <2>1, <2>2
  <2> QED BY <1>4, <2>2, <2>3, <2>4, <2>5 DEF HasMap, Putmap
<1>6. SuperGood(t)
  <2>1. \A g \in DOMAIN t.maps : HasMap(t, g) => \E n \in Slots : Putmap(t, g) \in Putmaps(n)
    BY <1>1, <1>4, <1>5 DEF SuperGood, HasMap
  <2>2. t.maps = [g \in t.first .. t.last |-> t.maps[g]] /\ t.first # 0 /\ t.last # 0
    BY <1>1, <1>3
  <2> QED BY <1>1, <1>3, <2>1, <2>2 DEF SuperGood
<1>7. FilesGood(t, F)
  <2>1. ASSUME NEW h \in Handles, F[h] # Closed PROVE FileGood(t, F[h])
    <3> DEFINE f == F[h]
    <3>1. FileGood(s, f)
      BY <1>1, <2>1
    <3> HIDE DEF f
    <3>2. f.gen \in 1 .. s.gen /\ f.gen # t.gen /\ f \in [name : Names, gen : 1 .. t.gen, low : Lows]
      BY <1>1, <1>3, <3>1 DEF FileGood
    <3>3. HasMap(t, f.gen)
      BY <1>5, <3>1 DEF FileGood, HasMap
    <3>4. ASSUME NEW j \in DOMAIN f.low
          PROVE  /\ j =< Putmap(t, f.gen).bend
                 /\ Putmap(t, f.gen).map[j] = Leads(s, f.gen, j)
      <4>1. CASE f.gen = s.gen
        <5>1. j \in 0 .. s.bend
          BY <3>1, <4>1 DEF FileGood, Leads
        <5> QED BY <1>5, <4>1, <5>1, <1>1 DEF EndMap, Leads
      <4>2. CASE f.gen # s.gen
        BY <1>5, <3>1, <4>2 DEF FileGood, Leads, HasMap
      <4> QED BY <4>1, <4>2
    <3> QED BY <1>3, <3>1, <3>2, <3>3, <3>4 DEF FileGood, Leads, f
  <2> QED BY <1>1, <2>1 DEF FilesGood
<1>8. CountsGood(t, F)
  <2>1. t.count = [i \in 0 .. t.bend |-> Cardinality(OnBranch(F, t.on[i]))]
    BY <1>3 DEF Good, CountsGood
  <2>2. ASSUME NEW g \in DOMAIN t.maps, HasMap(t, g)
        PROVE  Putmap(t, g).count = Cardinality(OfGen(F, g))
    BY <1>5, <2>2 DEF Good, CountsGood, HasMap, EndMap
  <2> QED BY <2>1, <2>2 DEF CountsGood
<1>9. \A h \in Handles : F[h] # Closed => F[h].gen < t.gen
  BY <1>1, <1>3 DEF FileGood
<1> QED BY <1>3, <1>5, <1>6, <1>7, <1>8, <1>9 DEF Good

\* The state between a new generation and the move of the branches.
Bumped(t, F) ==
    /\ Good(t, F)
    /\ HasMap(t, t.last)
    /\ Putmap(t, t.last).bend = t.bend
    /\ \A i \in 0 .. t.bend : Putmap(t, t.last).map[i] = i
    /\ \A h \in Handles : F[h] # Closed => F[h].gen < t.gen

\* Branches that have moved: s is the super block t with another list of
\* branches, and m leads every branch in use from its place in t to that in s.
Moved(t, F, s, m) ==
    /\ IsSuper(s)
    /\ s.gen = t.gen /\ s.first = t.first /\ s.last = t.last
    /\ s.maps = [t.maps EXCEPT ![t.last].map = m]
    /\ s.bend \in Nat /\ s.on \in [0 .. s.bend -> Branch]
    /\ \A i, j \in 0 .. s.bend : s.on[i] = s.on[j] => i = j
    /\ s.count = [i \in 0 .. s.bend |-> Cardinality(OnBranch(F, s.on[i]))]
    /\ m \in [0 .. t.bend -> Slots]
    /\ \A i \in 0 .. t.bend : OnBranch(F, t.on[i]) # {} =>
            m[i] \in 0 .. s.bend /\ s.on[m[i]] = t.on[i]

\* fixputmaps makes the older putmaps lead where the newest one does.
LEMMA MoveGood ==
    ASSUME NEW t, NEW F, NEW s, NEW m, Bumped(t, F), Moved(t, F, s, m),
           NEW r, r = FixPutmaps(s)
    PROVE  /\ Good(r, F)
           /\ Shape(r) = Shape(s) /\ r.last = s.last /\ r.first = s.first
           /\ DOMAIN r.maps = DOMAIN t.maps
           /\ \A g \in DOMAIN r.maps : HasMap(r, g) <=> HasMap(t, g)
<1>0. /\ Good(t, F)
      /\ HasMap(t, t.last)
      /\ Putmap(t, t.last).bend = t.bend
      /\ \A i \in 0 .. t.bend : Putmap(t, t.last).map[i] = i
      /\ \A h \in Handles : F[h] # Closed => F[h].gen < t.gen
      /\ IsSuper(s)
      /\ s.gen = t.gen /\ s.first = t.first /\ s.last = t.last
      /\ s.maps = [t.maps EXCEPT ![t.last].map = m]
      /\ s.bend \in Nat /\ s.on \in [0 .. s.bend -> Branch]
      /\ \A i, j \in 0 .. s.bend : s.on[i] = s.on[j] => i = j
      /\ s.count = [i \in 0 .. s.bend |-> Cardinality(OnBranch(F, s.on[i]))]
      /\ m \in [0 .. t.bend -> Slots]
      /\ \A i \in 0 .. t.bend : OnBranch(F, t.on[i]) # {} =>
            m[i] \in 0 .. s.bend /\ s.on[m[i]] = t.on[i]
  BY DEF Bumped, Moved
<1>1. /\ SuperGood(t) /\ IsSuper(t) /\ t.bend \in Nat /\ t.gen \in Nat \ {0}
      /\ DOMAIN t.maps = t.first .. t.last
      /\ t.first \in Nat \ {0} /\ t.last = t.gen - 1 /\ t.last \in t.first .. t.last
      /\ F = [h \in Handles |-> F[h]]
      /\ \A h \in Handles : F[h] # Closed => FileGood(t, F[h])
  <2>1. SuperGood(t) /\ FilesGood(t, F)
    BY <1>0 DEF Good
  <2>2. t.first > 0 /\ t.last \in Nat /\ t.first =< t.last
    BY <1>0, <2>1, MapsOlder DEF HasMap
  <2> QED BY <1>0, <2>1, <2>2 DEF SuperGood, FilesGood
<1>2. PICK k \in Slots : Putmap(t, t.last) \in Putmaps(k)
  BY <1>0, <1>1 DEF SuperGood, HasMap
<1> DEFINE cur == Putmap(s, s.last)
<1>3. /\ cur = [Putmap(t, t.last) EXCEPT !.map = m]
      /\ \A g \in DOMAIN t.maps : g # t.last => Putmap(s, g) = Putmap(t, g)
      /\ DOMAIN s.maps = DOMAIN t.maps
  BY <1>0, <1>1 DEF Putmap
<1>4. /\ cur \in Putmaps(k) /\ cur # Freed
      /\ cur.bend = t.bend /\ cur.map = m /\ cur.count = Putmap(t, t.last).count
  <2>1. cur = [count |-> Putmap(t, t.last).count, bend |-> t.bend, map |-> m] /\ k = t.bend
    BY <1>0, <1>2, <1>3 DEF Putmaps
  <2>2. cur \in Putmaps(k)
    BY <1>0, <1>2, <2>1 DEF Putmaps
  <2> QED BY <1>0, <2>1, <2>2, MarkerAssumption
<1> HIDE DEF cur
<1>5. r = [s EXCEPT !.maps =
            [g \in s.first .. s.last |->
                IF g \in Older(s) THEN Fixed(Putmap(s, g), cur) ELSE @[g]]]
  BY <1>0 DEF FixPutmaps, cur
<1>6. /\ IsSuper(r) /\ Shape(r) = Shape(s)
      /\ r.bend = s.bend /\ r.on = s.on /\ r.gen = t.gen
      /\ r.first = t.first /\ r.last = t.last /\ r.count = s.count
      /\ r.maps = [g \in t.first .. t.last |->
                    IF g \in Older(s) THEN Fixed(Putmap(s, g), cur) ELSE s.maps[g]]
  <2> DEFINE maps == [g \in s.first .. s.last |->
                        IF g \in Older(s) THEN Fixed(Putmap(s, g), cur) ELSE s.maps[g]]
  <2>1. r = [s EXCEPT !.maps = maps]
    BY <1>0, <1>5
  <2> HIDE DEF maps
  <2>2. /\ IsSuper(r) /\ r.bend = s.bend /\ r.on = s.on /\ r.gen = s.gen
        /\ r.first = s.first /\ r.last = s.last /\ r.count = s.count /\ r.maps = maps
    BY <1>0, <2>1 DEF IsSuper
  <2> QED BY <1>0, <2>2 DEF maps, Shape
<1>7. Older(s) = {g \in t.first .. t.last - 1 : Putmap(t, g) # Freed}
  <2>1. t.first \in Int /\ t.last \in Int
    BY <1>0, <1>1
  <2>2. \A g \in t.first .. t.last - 1 : g \in t.first .. t.last /\ g # t.last
    BY <1>0, <2>1
  <2>3. \A g \in t.first .. t.last - 1 : Putmap(s, g) = Putmap(t, g)
    BY <1>0, <1>1, <1>3, <2>2
  <2> QED BY <1>0, <2>3 DEF Older
<1>8. Putmap(r, t.last) = cur
  <2>1. t.last \notin Older(s)
    BY <1>0, <1>1, <1>7
  <2>2. r.maps[t.last] = s.maps[t.last]
    BY <1>0, <1>1, <1>6, <2>1
  <2> QED BY <1>0, <2>2 DEF Putmap, cur
<1>9. ASSUME NEW g \in DOMAIN t.maps, g # t.last, Putmap(t, g) = Freed
      PROVE  Putmap(r, g) = Freed
  <2>1. g \in t.first .. t.last /\ g \notin Older(s) /\ Putmap(s, g) = Freed
    BY <1>0, <1>1, <1>3, <1>7, <1>9
  <2>2. r.maps[g] = s.maps[g]
    BY <1>6, <2>1
  <2> QED BY ONLY <2>1, <2>2 DEF Putmap
<1>10. ASSUME NEW g \in DOMAIN t.maps, g # t.last, HasMap(t, g)
       PROVE  /\ \E n \in Slots : Putmap(r, g) \in Putmaps(n)
              /\ Putmap(r, g).bend = Putmap(t, g).bend
              /\ Putmap(r, g).count = Putmap(t, g).count
              /\ \A j \in 0 .. Putmap(t, g).bend :
                    Putmap(t, g).map[j] \in 0 .. t.bend =>
                        Putmap(r, g).map[j] = m[Putmap(t, g).map[j]]
  <2> DEFINE old == Putmap(t, g)
             map == [i \in 0 .. old.bend |-> Through(cur, old.map[i])]
  <2>1. PICK n \in Slots : old \in Putmaps(n)
    BY <1>0, <1>1, <1>10 DEF SuperGood
  <2>2. Putmap(r, g) = Fixed(old, cur)
    BY <1>0, <1>1, <1>3, <1>6, <1>7, <1>10 DEF Putmap, HasMap
  <2>3. Putmap(r, g) = [old EXCEPT !.map = map]
    BY <1>0, <2>2 DEF Fixed
  <2>4. map \in [0 .. n -> Slots \cup {Wild}]
    BY <1>0, <1>4, <2>1 DEF Through, Putmaps
  <2>5. \A j \in 0 .. old.bend : old.map[j] \in 0 .. t.bend => map[j] = m[old.map[j]]
    BY <1>0, <1>4 DEF Through
  <2> HIDE DEF old, map
  <2>6. Putmap(r, g) = [count |-> old.count, bend |-> old.bend, map |-> map]
    BY <1>0, <2>1, <2>3 DEF Putmaps
  <2>7. Putmap(r, g) \in Putmaps(n)
    BY <1>0, <2>1, <2>4, <2>6 DEF Putmaps
  <2> QED BY <1>0, <2>5, <2>6, <2>7 DEF old
<1>11. DOMAIN r.maps = DOMAIN t.maps /\ \A g \in DOMAIN r.maps : HasMap(r, g) <=> HasMap(t, g)
  <2>1. DOMAIN r.maps = DOMAIN t.maps
    BY <1>0, <1>1, <1>6
  <2>2. ASSUME NEW g \in DOMAIN t.maps PROVE HasMap(r, g) <=> HasMap(t, g)
    <3>1. CASE g = t.last
      BY <1>0, <1>4, <1>8, <2>1, <3>1 DEF HasMap
    <3>2. CASE g # t.last /\ ~ HasMap(t, g)
      BY <1>0, <1>9, <3>2 DEF HasMap
    <3>3. CASE g # t.last /\ HasMap(t, g)
      BY <1>0, <1>10, <2>1, <3>3, MarkerAssumption DEF HasMap
    <3> QED BY <1>0, <3>1, <3>2, <3>3
  <2> QED BY <1>0, <2>1, <2>2
<1>12. SuperGood(r)
  <2>1. ASSUME NEW g \in DOMAIN r.maps, HasMap(r, g)
        PROVE  \E n \in Slots : Putmap(r, g) \in Putmaps(n)
    <3>1. CASE g = t.last
      BY <1>0, <1>4, <1>8, <3>1
    <3>2. CASE g # t.last
      BY <1>0, <1>10, <1>11, <2>1, <3>2
    <3> QED BY <1>0, <3>1, <3>2
  <2>2. r.maps = [g \in r.first .. r.last |-> r.maps[g]] /\ r.first # 0 /\ r.last # 0
    BY <1>0, <1>1, <1>6
  <2> QED BY <1>0, <1>1, <1>6, <2>1, <2>2 DEF SuperGood
<1>13. FilesGood(r, F)
  <2>1. ASSUME NEW h \in Handles, F[h] # Closed PROVE FileGood(r, F[h])
    <3> DEFINE f == F[h]
               g == f.gen
    <3>1. FileGood(t, f) /\ g # t.gen /\ HasMap(t, g) /\ g \in DOMAIN t.maps
      BY <1>0, <1>1, <2>1 DEF FileGood, HasMap
    <3>2. ASSUME NEW j \in DOMAIN f.low
          PROVE  /\ j =< Putmap(r, g).bend
                 /\ Putmap(r, g).map[j] \in 0 .. r.bend
                 /\ r.on[Putmap(r, g).map[j]] = f.low[j]
      <4> DEFINE p == Putmap(t, g).map[j]
      <4>1. /\ p \in 0 .. t.bend /\ t.on[p] = f.low[j] /\ j =< Putmap(t, g).bend /\ j \in Slots
        BY <1>0, <3>1, AtFinite DEF FileGood, Leads
      <4>2. <<h, j>> \in OnBranch(F, t.on[p])
        BY <1>0, <2>1, <4>1 DEF OnBranch, Uses
      <4>3. m[p] \in 0 .. s.bend /\ s.on[m[p]] = f.low[j]
        BY <1>0, <4>1, <4>2
      <4>4. CASE g = t.last
        <5>1. Putmap(r, g) = cur /\ cur.bend = t.bend /\ cur.map = m
          BY <1>0, <1>4, <1>8, <4>4
        <5>2. p = j
          BY <1>0, <4>1, <4>4, SlotsFinite
        <5> QED BY <1>0, <1>6, <4>1, <4>3, <5>1, <5>2
      <4>5. CASE g # t.last
        <5>1. /\ Putmap(r, g).bend = Putmap(t, g).bend
              /\ \A i \in 0 .. Putmap(t, g).bend :
                    Putmap(t, g).map[i] \in 0 .. t.bend =>
                        Putmap(r, g).map[i] = m[Putmap(t, g).map[i]]
          BY <1>0, <1>10, <3>1, <4>5
        <5>2. PICK n \in Slots : Putmap(t, g) \in Putmaps(n)
          BY <1>0, <1>1, <3>1 DEF SuperGood
        <5>3. j \in 0 .. Putmap(t, g).bend
          BY <1>0, <4>1, <5>2, SlotsFinite DEF Putmaps
        <5> QED BY <1>0, <1>6, <4>1, <4>3, <5>1, <5>3
      <4> QED BY <1>0, <4>4, <4>5
    <3>3. HasMap(r, g)
      BY <1>0, <1>11, <3>1
    <3>4. /\ f \in [name : Names, gen : 1 .. r.gen, low : Lows] /\ DOMAIN f.low # {}
          /\ \A j \in DOMAIN f.low : f.low[j] \in Has[f.name]
          /\ f.gen # r.gen
      BY <1>0, <1>6, <3>1 DEF FileGood
    <3> HIDE DEF f
    <3> QED BY <1>0, <3>2, <3>3, <3>4 DEF FileGood, Leads, f
  <2> QED BY <1>0, <1>1, <2>1 DEF FilesGood
<1>14. CountsGood(r, F)
  <2>1. ASSUME NEW g \in DOMAIN r.maps, HasMap(r, g)
        PROVE  Putmap(r, g).count = Cardinality(OfGen(F, g))
    <3>1. HasMap(t, g) /\ g \in DOMAIN t.maps /\ Putmap(t, g).count = Cardinality(OfGen(F, g))
      BY <1>0, <1>11, <2>1 DEF Good, CountsGood
    <3>2. CASE g = t.last
      BY <1>0, <1>4, <1>8, <3>1, <3>2
    <3>3. CASE g # t.last
      BY <1>0, <1>10, <3>1, <3>3
    <3> QED BY <1>0, <3>2, <3>3
  <2>2. r.count = [i \in 0 .. r.bend |-> Cardinality(OnBranch(F, r.on[i]))]
    BY <1>0, <1>6
  <2> QED BY <1>0, <2>1, <2>2 DEF CountsGood
<1> QED BY <1>0, <1>6, <1>11, <1>12, <1>13, <1>14 DEF Good

LEMMA BumpIsBumped ==
    ASSUME NEW s, NEW F, Good(s, F), NEW t, t = NewGeneration(NewPutmap(s))
    PROVE  Bumped(t, F)
<1>1. /\ Good(t, F) /\ t.bend = s.bend /\ t.last = s.gen
      /\ HasMap(t, s.gen) /\ Putmap(t, s.gen) = EndMap(s, F)
      /\ \A h \in Handles : F[h] # Closed => F[h].gen < t.gen
  BY BumpGood
<1> QED BY <1>1 DEF Bumped, EndMap

\* An inserted branch: those to its right move by one, and so do their counts
\* and the putmaps.
LEMMA AddGood ==
    ASSUME NEW t, NEW F, Bumped(t, F), NEW k \in 0 .. t.bend + 1,
           NEW b \in Branch, b \notin {t.on[i] : i \in 0 .. t.bend},
           NEW r, r = FixPutmaps(Added(t, k, b))
    PROVE  /\ Good(r, F)
           /\ r.gen = t.gen /\ r.last = t.last
           /\ DOMAIN r.maps = DOMAIN t.maps
           /\ \A g \in DOMAIN r.maps : HasMap(r, g) <=> HasMap(t, g)
<1> DEFINE n == t.bend + 1
           s == Added(t, k, b)
           on == Inserted(t.on, k, b, t.bend)
           count == Inserted(t.count, k, 0, t.bend)
           m == [i \in 0 .. t.bend |-> IF i >= k THEN i + 1 ELSE i]
           maps == [t.maps EXCEPT ![t.last].map = m]
<1>1. /\ Good(t, F) /\ SuperGood(t) /\ IsSuper(t) /\ t.bend \in Nat
      /\ t.on \in [0 .. t.bend -> Branch]
      /\ t.count = [i \in 0 .. t.bend |-> Cardinality(OnBranch(F, t.on[i]))]
  BY DEF Bumped, Good, SuperGood, CountsGood
<1>2. s = [t EXCEPT !.bend = n, !.on = on, !.count = count, !.maps[t.last].map = m]
  BY DEF Added, Positions
<1>3. /\ IsSuper(s) /\ s.bend = n /\ s.on = on /\ s.count = count /\ s.maps = maps
      /\ s.gen = t.gen /\ s.first = t.first /\ s.last = t.last
  <2> HIDE DEF s, n, on, count, m
  <2>1. s = [t EXCEPT !.bend = n, !.on = on, !.count = count, !.maps = maps]
    BY <1>1, <1>2 DEF IsSuper
  <2>2. IsSuper(t)
    BY <1>1
  <2> HIDE DEF maps
  <2>3. s = [on |-> on, bend |-> n, count |-> count, gen |-> t.gen, first |-> t.first,
             last |-> t.last, maps |-> maps]
    BY ONLY <2>1, <2>2 DEF IsSuper
  <2> QED BY ONLY <2>3 DEF IsSuper
<1>4. n \in Nat /\ on \in [0 .. n -> Branch]
  <2>1. t.bend \in Nat /\ t.on \in [0 .. t.bend -> Branch]
    BY <1>1
  <2> QED BY ONLY <2>1, k \in 0 .. t.bend + 1, b \in Branch DEF Inserted
<1>5. \A i \in 0 .. n : on[i] = IF i < k THEN t.on[i] ELSE IF i = k THEN b ELSE t.on[i - 1]
  BY DEF Inserted
<1>6. \A i, j \in 0 .. n : on[i] = on[j] => i = j
  <2>1. \A i, j \in 0 .. t.bend : t.on[i] = t.on[j] => i = j
    BY <1>1 DEF SuperGood
  <2> DEFINE was(i) == IF i < k THEN i ELSE i - 1
  <2>2. \A i \in 0 .. n : i # k => was(i) \in 0 .. t.bend /\ on[i] = t.on[was(i)] /\ on[i] # b
    <3> HIDE DEF on
    <3> QED BY <1>1, <1>5
  <2>3. \A i, j \in 0 .. n : i # k /\ j # k /\ was(i) = was(j) => i = j
    BY <1>1
  <2>4. on[k] = b
    BY <1>1, <1>5
  <2> HIDE DEF on, was, n
  <2> QED BY <2>1, <2>2, <2>3, <2>4
<1>7. 0 .. n \subseteq Slots
  <2> HIDE DEF n, on
  <2> QED BY <1>4, <1>6, RoomForAll
<1>8. m \in [0 .. t.bend -> Slots] /\ \A i \in 0 .. t.bend : m[i] \in 0 .. n /\ on[m[i]] = t.on[i]
  <2>1. \A i \in 0 .. t.bend : m[i] \in 0 .. n
    BY <1>1
  <2>2. \A i \in 0 .. t.bend : on[m[i]] = t.on[i]
    <3> SUFFICES ASSUME NEW i \in 0 .. t.bend PROVE on[m[i]] = t.on[i]
      OBVIOUS
    <3> HIDE DEF on
    <3>1. CASE i >= k
      <4>1. m[i] = i + 1 /\ i + 1 \in 0 .. n /\ i + 1 > k /\ i + 1 - 1 = i
        BY <1>1, <3>1
      <4> QED BY <1>1, <1>5, <4>1
    <3>2. CASE i < k
      <4>1. m[i] = i /\ i \in 0 .. n
        BY <1>1, <3>2
      <4> QED BY <1>1, <1>5, <3>2, <4>1
    <3> QED BY <1>1, <3>1, <3>2
  <2> QED BY <1>7, <2>1, <2>2
<1>9. count = [i \in 0 .. n |-> Cardinality(OnBranch(F, on[i]))]
  <2>1. OnBranch(F, b) = {}
    <3>1. \A u \in Uses(F) : \E i \in 0 .. t.bend : t.on[i] = F[u[1]].low[u[2]]
      BY <1>1, UsesPlaced
    <3> QED BY <3>1 DEF OnBranch
  <2>2. Cardinality(OnBranch(F, b)) = 0
    BY <2>1, FS_EmptySet
  <2>3. count = [i \in 0 .. n |-> IF i < k THEN t.count[i] ELSE IF i = k THEN 0 ELSE t.count[i - 1]]
    BY DEF Inserted
  <2>4. ASSUME NEW i \in 0 .. n
        PROVE  (IF i < k THEN t.count[i] ELSE IF i = k THEN 0 ELSE t.count[i - 1])
               = Cardinality(OnBranch(F, on[i]))
    <3> HIDE DEF on
    <3>1. CASE i < k
      BY <1>1, <1>5, <3>1
    <3>2. CASE i = k
      BY <1>5, <2>2, <3>2
    <3>3. CASE i > k
      BY <1>1, <1>5, <3>3
    <3> QED BY <3>1, <3>2, <3>3, <1>1
  <2> HIDE DEF count, on
  <2> QED BY <2>3, <2>4
<1> HIDE DEF s, on, count, n, m, maps
<1>10. Moved(t, F, s, m)
  BY <1>1, <1>3, <1>4, <1>6, <1>8, <1>9 DEF Moved, maps
<1>11. r = FixPutmaps(s)
  BY DEF s
<1>12. /\ Good(r, F)
       /\ Shape(r) = Shape(s) /\ r.last = s.last
       /\ DOMAIN r.maps = DOMAIN t.maps
       /\ \A g \in DOMAIN r.maps : HasMap(r, g) <=> HasMap(t, g)
  BY <1>10, <1>11, MoveGood
<1> QED BY <1>3, <1>12 DEF Shape

\* A removed branch that no file is open on: those to its right move by one.
LEMMA RemoveGood ==
    ASSUME NEW t, NEW F, Bumped(t, F), t.bend > 0, NEW k \in 0 .. t.bend,
           t.count[k] = 0,
           NEW r, r = FixPutmaps(Removed(t, k))
    PROVE  /\ Good(r, F)
           /\ r.gen = t.gen /\ r.last = t.last
           /\ DOMAIN r.maps = DOMAIN t.maps
           /\ \A g \in DOMAIN r.maps : HasMap(r, g) <=> HasMap(t, g)
<1> DEFINE n == t.bend - 1
           s == Removed(t, k)
           on == Dropped(t.on, k, t.bend)
           count == Dropped(t.count, k, t.bend)
           m == [i \in 0 .. t.bend |-> IF i > k THEN i - 1 ELSE i]
           maps == [t.maps EXCEPT ![t.last].map = m]
<1>1. /\ Good(t, F) /\ SuperGood(t) /\ IsSuper(t) /\ t.bend \in Nat
      /\ t.on \in [0 .. t.bend -> Branch]
      /\ t.count = [i \in 0 .. t.bend |-> Cardinality(OnBranch(F, t.on[i]))]
  BY DEF Bumped, Good, SuperGood, CountsGood
<1>2. s = [t EXCEPT !.bend = n, !.on = on, !.count = count, !.maps[t.last].map = m]
  BY DEF Removed, Positions
<1>3. /\ IsSuper(s) /\ s.bend = n /\ s.on = on /\ s.count = count /\ s.maps = maps
      /\ s.gen = t.gen /\ s.first = t.first /\ s.last = t.last
  <2> HIDE DEF s, n, on, count, m
  <2>1. s = [t EXCEPT !.bend = n, !.on = on, !.count = count, !.maps = maps]
    BY <1>1, <1>2 DEF IsSuper
  <2>2. IsSuper(t)
    BY <1>1
  <2> HIDE DEF maps
  <2>3. s = [on |-> on, bend |-> n, count |-> count, gen |-> t.gen, first |-> t.first,
             last |-> t.last, maps |-> maps]
    BY ONLY <2>1, <2>2 DEF IsSuper
  <2> QED BY ONLY <2>3 DEF IsSuper
<1>4. n \in Nat /\ on \in [0 .. n -> Branch]
  BY <1>1 DEF Dropped
<1>5. \A i \in 0 .. n : on[i] = IF i < k THEN t.on[i] ELSE t.on[i + 1]
  BY DEF Dropped
<1>6. \A i, j \in 0 .. n : on[i] = on[j] => i = j
  <2>1. \A i, j \in 0 .. t.bend : t.on[i] = t.on[j] => i = j
    BY <1>1 DEF SuperGood
  <2> DEFINE was(i) == IF i < k THEN i ELSE i + 1
  <2>2. \A i \in 0 .. n : was(i) \in 0 .. t.bend /\ on[i] = t.on[was(i)]
    <3> HIDE DEF on
    <3> QED BY <1>1, <1>5
  <2>3. \A i, j \in 0 .. n : was(i) = was(j) => i = j
    BY <1>1
  <2> HIDE DEF on, was, n
  <2> QED BY <2>1, <2>2, <2>3
<1>7. 0 .. t.bend \subseteq Slots
  BY <1>1, BendInSlots
<1>8. /\ m \in [0 .. t.bend -> Slots]
      /\ \A i \in 0 .. t.bend : i # k => m[i] \in 0 .. n /\ on[m[i]] = t.on[i]
  <2>1. \A i \in 0 .. t.bend : m[i] \in 0 .. t.bend /\ (i # k => m[i] \in 0 .. n)
    BY <1>1
  <2>2. \A i \in 0 .. t.bend : i # k => on[m[i]] = t.on[i]
    <3> HIDE DEF on
    <3> QED BY <1>1, <1>5, <2>1
  <2> QED BY <1>7, <2>1, <2>2
<1>9. OnBranch(F, t.on[k]) = {}
  <2>1. Cardinality(OnBranch(F, t.on[k])) = 0
    BY <1>1
  <2>2. IsFiniteSet(OnBranch(F, t.on[k]))
    BY UsesFinite DEF OnBranch
  <2> QED BY <2>1, <2>2, FS_EmptySet
<1>10. count = [i \in 0 .. n |-> Cardinality(OnBranch(F, on[i]))]
  <2>1. count = [i \in 0 .. n |-> IF i < k THEN t.count[i] ELSE t.count[i + 1]]
    BY DEF Dropped
  <2>2. ASSUME NEW i \in 0 .. n
        PROVE  (IF i < k THEN t.count[i] ELSE t.count[i + 1]) = Cardinality(OnBranch(F, on[i]))
    <3> HIDE DEF on
    <3> QED BY <1>1, <1>5
  <2> HIDE DEF count, on
  <2> QED BY <2>1, <2>2
<1> HIDE DEF s, on, count, n, m, maps
<1>13. \A i \in 0 .. t.bend : OnBranch(F, t.on[i]) # {} =>
            m[i] \in 0 .. s.bend /\ s.on[m[i]] = t.on[i]
  BY <1>3, <1>8, <1>9
<1>15. s.on \in [0 .. s.bend -> Branch] /\ s.bend \in Nat
  BY <1>3, <1>4
<1>16. s.count = [i \in 0 .. s.bend |-> Cardinality(OnBranch(F, s.on[i]))]
  BY <1>3, <1>10
<1>17. \A i, j \in 0 .. s.bend : s.on[i] = s.on[j] => i = j
  BY <1>3, <1>6
<1>18. s.maps = [t.maps EXCEPT ![t.last].map = m]
  BY <1>3 DEF maps
<1>11. Moved(t, F, s, m)
  BY <1>3, <1>8, <1>13, <1>15, <1>16, <1>17, <1>18 DEF Moved
<1>12. r = FixPutmaps(s)
  BY DEF s
<1>14. /\ Good(r, F)
       /\ Shape(r) = Shape(s) /\ r.last = s.last
       /\ DOMAIN r.maps = DOMAIN t.maps
       /\ \A g \in DOMAIN r.maps : HasMap(r, g) <=> HasMap(t, g)
  BY <1>11, <1>12, MoveGood
<1> QED BY <1>3, <1>14 DEF Shape

\* The putmap of a generation that had no users is freed at once.
LEMMA FreeGood ==
    ASSUME NEW r, NEW F, Good(r, F), HasMap(r, r.last),
           \A g \in DOMAIN r.maps : g # r.last /\ HasMap(r, g) => OfGen(F, g) # {},
           NEW q, q = FreeIfUnused(r)
    PROVE  Good(q, F) /\ MapsUsed(q, F) /\ q.gen = r.gen
<1>1. /\ SuperGood(r) /\ IsSuper(r) /\ r.last < r.gen
      /\ F = [h \in Handles |-> F[h]]
      /\ \A h \in Handles : F[h] # Closed => FileGood(r, F[h])
      /\ r.count = [i \in 0 .. r.bend |-> Cardinality(OnBranch(F, r.on[i]))]
      /\ \A g \in DOMAIN r.maps : HasMap(r, g) => Putmap(r, g).count = Cardinality(OfGen(F, g))
  BY DEF Good, SuperGood, FilesGood, CountsGood
<1>2. r.last \in DOMAIN r.maps /\ Putmap(r, r.last).count = Cardinality(OfGen(F, r.last))
  BY <1>1 DEF HasMap
<1>3. IsFiniteSet(OfGen(F, r.last))
  BY UsesFinite DEF OfGen
<1>4. CASE Putmap(r, r.last).count # 0
  <2>1. OfGen(F, r.last) # {}
    BY <1>2, <1>4, FS_EmptySet
  <2>2. q = r
    BY <1>4 DEF FreeIfUnused
  <2> QED BY <2>1, <2>2 DEF MapsUsed
<1>5. CASE Putmap(r, r.last).count = 0
  <2>1. OfGen(F, r.last) = {}
    BY <1>2, <1>3, <1>5, FS_EmptySet
  <2>2. q = [r EXCEPT !.maps[r.last] = Freed]
    BY <1>5 DEF FreeIfUnused
  <2>3. /\ IsSuper(q) /\ Shape(q) = Shape(r) /\ q.first = r.first /\ q.last = r.last
        /\ q.bend = r.bend /\ q.on = r.on /\ q.gen = r.gen /\ q.count = r.count
        /\ q.maps = [r.maps EXCEPT ![r.last] = Freed]
    BY <1>1, <2>2 DEF IsSuper, Shape
  <2>4. /\ ~ HasMap(q, r.last)
        /\ DOMAIN q.maps = DOMAIN r.maps
        /\ \A g \in DOMAIN r.maps : g # r.last => Putmap(q, g) = Putmap(r, g)
        /\ q.maps = [g \in DOMAIN r.maps |-> q.maps[g]]
    BY <1>1, <1>2, <2>3 DEF SuperGood, HasMap, Putmap
  <2>5. SuperGood(q)
    <3>1. \A g \in DOMAIN r.maps :
            HasMap(q, g) => \E n \in Slots : Putmap(q, g) \in Putmaps(n)
      BY <1>1, <2>4 DEF SuperGood, HasMap
    <3> QED BY <1>1, <2>3, <2>4, <3>1, SuperSame
  <2>6. FilesGood(q, F)
    <3>1. ASSUME NEW h \in Handles, F[h] # Closed PROVE FileGood(q, F[h])
      <4>1. FileGood(r, F[h])
        BY <1>1, <3>1
      <4>2. F[h].gen # r.last
        <5>1. PICK j : j \in DOMAIN F[h].low /\ j \in Slots
          BY <4>1, AtFinite DEF FileGood
        <5>2. <<h, j>> \in Uses(F)
          BY <3>1, <5>1 DEF Uses
        <5> QED BY <2>1, <5>2 DEF OfGen
      <4>3. F[h].gen # r.gen => HasMap(q, F[h].gen) /\ Putmap(q, F[h].gen) = Putmap(r, F[h].gen)
        BY <2>4, <4>1, <4>2 DEF FileGood, HasMap
      <4> QED BY <2>3, <4>1, <4>3, FileSame
    <3> QED BY <1>1, <3>1 DEF FilesGood
  <2>7. CountsGood(q, F)
    BY <1>1, <2>3, <2>4 DEF CountsGood, HasMap
  <2>8. MapsUsed(q, F)
    BY <2>4 DEF MapsUsed, HasMap
  <2> QED BY <2>3, <2>5, <2>6, <2>7, <2>8 DEF Good
<1> QED BY <1>4, <1>5

-----------------------------------------------------------------------------
(* Lookups and revalidation.                                               *)

\* A lookup finds branches that hold the name, at their positions, and it finds
\* one if there is one.
LEMMA LookupGood ==
    ASSUME NEW s, SuperGood(s), NEW n \in Names
    PROVE  /\ Lookup(s, n) \in Lows
           /\ \A j \in DOMAIN Lookup(s, n) :
                /\ j \in 0 .. s.bend /\ Lookup(s, n)[j] = s.on[j]
                /\ Lookup(s, n)[j] \in Has[n]
           /\ (\E i \in 0 .. s.bend : s.on[i] \in Has[n]) => DOMAIN Lookup(s, n) # {}
<1> DEFINE found == {i \in Positions(s) : s.on[i] \in Has[n]}
           J == {j \in found : n \in Files => \A k \in found : j =< k}
<1>1. Lookup(s, n) = [i \in J |-> s.on[i]]
  BY DEF Lookup
<1>2. found \subseteq 0 .. s.bend /\ J \subseteq found /\ 0 .. s.bend \subseteq Slots
  BY BendInSlots DEF Positions
<1>3. Lookup(s, n) \in [J -> Branch]
  BY <1>1, <1>2 DEF SuperGood
<1>4. Lookup(s, n) \in Lows
  BY <1>2, <1>3 DEF Lows
<1>5. ASSUME found # {} PROVE J # {}
  <2>1. found \subseteq Nat
    BY <1>2, SlotsFinite
  <2>2. PICK k \in found : \A i \in found : k =< i
    BY <1>5, <2>1, LeastNatural
  <2>3. k \in J
    BY <2>2
  <2> QED BY <2>3
<1>6. (\E i \in 0 .. s.bend : s.on[i] \in Has[n]) => found # {}
  BY DEF Positions
<1>7. \A j \in J : j \in 0 .. s.bend /\ s.on[j] \in Has[n]
  BY <1>2
<1> HIDE DEF J, found
<1> QED BY <1>1, <1>4, <1>5, <1>6, <1>7

\* A revalidated dentry is current.
LEMMA RevalidatedIs ==
    ASSUME Inv, Counts, NEW n \in Names
    PROVE  Revalidated(n).gen = sb.gen /\ Revalidated(n).low = Lookup(sb, n)
<1>1. n \notin deleted
  BY DEF Counts
<1>2. Revalidated(n).gen = sb.gen
  BY <1>1 DEF Revalidated, DentryOf
<1> QED BY <1>1, <1>2, RevalidatedGood

\* So is a revalidated file, which still has lower files.
LEMMA FileAfterIs ==
    ASSUME Inv, Counts, NEW h \in Handles, file[h] # Closed
    PROVE  /\ FileAfter(h) \in OpenFiles
           /\ FileAfter(h).gen = sb.gen
           /\ PositionsOf(FileAfter(h).low) # {}
           /\ \A j \in PositionsOf(FileAfter(h).low) :
                /\ FileAfter(h).low[j] \in Has[FileAfter(h).name]
                /\ j \in 0 .. sb.bend
                /\ FileAfter(h).low[j] = sb.on[j]
           /\ ~ Stale(h) => FileAfter(h) = file[h]
<1> DEFINE f == file[h]
           n == f.name
<1>1. /\ FileGood(sb, f) /\ SuperGood(sb) /\ deleted = {} /\ sb.gen =< MaxGen
      /\ sb.gen \in Nat \ {0}
  BY DEF Counts, Good, FilesGood, SuperGood
<1>2. n \in Names /\ f.gen \in 1 .. sb.gen /\ f \in [name : Names, gen : 1 .. sb.gen, low : Lows]
  BY <1>1 DEF FileGood
<1>3. Revalidated(n).gen = sb.gen /\ Revalidated(n).low = Lookup(sb, n)
  BY <1>2, RevalidatedIs
<1>4. FileAfter(h) = [name |-> n, gen |-> sb.gen, low |-> Lookup(sb, n)]
  <2>1. CASE Stale(h)
    BY <1>3, <2>1 DEF FileAfter
  <2>2. CASE ~ Stale(h)
    <3>1. f.gen = sb.gen
      BY <1>1, <1>2, <2>2 DEF Stale
    <3>2. f.low = Lookup(sb, n)
      BY <1>1, <3>1 DEF Inv, FileInv
    <3>3. FileAfter(h) = f
      BY <2>2 DEF FileAfter
    <3> QED BY <1>2, <3>1, <3>2, <3>3
  <2> QED BY <2>1, <2>2
<1>5. \E i \in 0 .. sb.bend : sb.on[i] \in Has[n]
  BY <1>1 DEF FileGood
<1>6. /\ Lookup(sb, n) \in Lows
      /\ \A j \in DOMAIN Lookup(sb, n) :
            /\ j \in 0 .. sb.bend /\ Lookup(sb, n)[j] = sb.on[j]
            /\ Lookup(sb, n)[j] \in Has[n]
      /\ DOMAIN Lookup(sb, n) # {}
  BY <1>1, <1>2, <1>5, LookupGood
<1>7. sb.gen \in 1 .. MaxGen
  BY <1>1, BranchManAssumption
<1>8. FileAfter(h) \in OpenFiles
  BY <1>2, <1>4, <1>6, <1>7 DEF OpenFiles
<1> QED BY <1>4, <1>6, <1>8 DEF FileAfter, PositionsOf

\* Everything is good after a file has been revalidated, and nothing stops the
\* kernel.
LEMMA AfterGood ==
    ASSUME Inv, Counts, NEW h \in Handles, file[h] # Closed,
           NEW G, G = [file EXCEPT ![h] = FileAfter(h)]
    PROVE  /\ Good(SbAfter(h), G) /\ MapsUsed(SbAfter(h), G)
           /\ ~ RevalidateBugs(h)
           /\ SbAfter(h).gen = sb.gen /\ SbAfter(h).bend = sb.bend /\ SbAfter(h).on = sb.on
           /\ OfGen(G, sb.gen) # {}
<1> DEFINE r == FileAfter(h)
           F0 == [file EXCEPT ![h] = Closed]
           s0 == Put(sb, file[h].gen, PositionsOf(file[h].low))
<1>1. /\ Good(sb, file) /\ MapsUsed(sb, file) /\ deleted = {} /\ IsSuper(sb)
      /\ file = [x \in Handles |-> file[x]]
  BY DEF Counts, Inv, SbInv
<1>2. /\ r \in OpenFiles /\ r.gen = sb.gen /\ PositionsOf(r.low) # {}
      /\ \A j \in PositionsOf(r.low) :
            r.low[j] \in Has[r.name] /\ j \in 0 .. sb.bend /\ r.low[j] = sb.on[j]
      /\ ~ Stale(h) => r = file[h]
  BY FileAfterIs
<1> HIDE DEF r
<1>3. Good(s0, F0) /\ MapsUsed(s0, F0) /\ ~ PutBugs(sb, file[h].gen, PositionsOf(file[h].low))
  BY <1>1, PutGood
<1>4. IsSuper(s0) /\ s0.bend = sb.bend /\ s0.on = sb.on /\ s0.gen = sb.gen
  BY <1>1, PutShape DEF Shape
<1> HIDE DEF s0
<1>5. Good(SbAfter(h), G) /\ MapsUsed(SbAfter(h), G)
  <2>1. CASE Stale(h)
    <3>1. F0[h] = Closed /\ G = [F0 EXCEPT ![h] = r]
      BY <1>1 DEF r
    <3> HIDE DEF F0
    <3>2. Good(Get(s0, PositionsOf(r.low)), G) /\ MapsUsed(Get(s0, PositionsOf(r.low)), G)
      <4>1. /\ r.gen = s0.gen
            /\ \A j \in PositionsOf(r.low) :
                r.low[j] \in Has[r.name] /\ j \in 0 .. s0.bend /\ r.low[j] = s0.on[j]
        BY <1>2, <1>4
      <4> QED BY <1>2, <1>3, <3>1, <4>1, GetGood
    <3>3. SbAfter(h) = Get(s0, PositionsOf(r.low))
      BY <2>1 DEF SbAfter, s0, r
    <3> QED BY <3>2, <3>3
  <2>2. CASE ~ Stale(h)
    <3>1. G = file /\ SbAfter(h) = sb
      BY <1>1, <1>2, <2>2 DEF SbAfter, r
    <3> QED BY <1>1, <3>1
  <2> QED BY <2>1, <2>2
<1>6. ~ RevalidateBugs(h)
  BY <1>1, <1>3 DEF RevalidateBugs
<1>7. Shape(SbAfter(h)) = Shape(sb)
  BY <1>1, SbAfterShape
<1>8. OfGen(G, sb.gen) # {}
  <2>1. PICK j : j \in PositionsOf(r.low)
    BY <1>2
  <2>2. r # Closed /\ j \in Slots /\ G[h] = r
    BY <1>1, <1>2, <2>1, MarkerAssumption DEF OpenFiles, Lows, PositionsOf, r
  <2>3. <<h, j>> \in OfGen(G, sb.gen)
    BY <1>2, <2>1, <2>2 DEF OfGen, Uses, PositionsOf
  <2> QED BY <2>3
<1> QED BY <1>5, <1>6, <1>7, <1>8 DEF Shape

-----------------------------------------------------------------------------
(* The actions.                                                            *)

\* Dentries are well typed after one has been revalidated.
LEMMA RememberTyped ==
    ASSUME Inv, Counts, NEW n \in Names, Remember(n)
    PROVE  /\ dentry' \in [Dirs \cup Files -> [gen : 1 .. sb.gen, low : Lows]]
           /\ \A m \in Dirs \cup Files : dentry[m].gen = sb.gen => dentry'[m] = dentry[m]
<1>1. /\ SuperGood(sb) /\ sb.gen \in Nat \ {0} 
      /\ dentry \in [Dirs \cup Files -> [gen : 1 .. sb.gen, low : Lows]]
  BY DEF Inv, Counts, Good, SuperGood
<1>2. CASE n = Root
  <2>1. dentry' = dentry
    BY <1>2 DEF Remember
  <2> QED BY <1>1, <2>1
<1>3. CASE n # Root
  <2>1. dentry' = [dentry EXCEPT ![n] = Revalidated(n)]
    BY <1>3 DEF Remember
  <2>2. \A m \in Dirs \cup Files : dentry'[m] = IF m = n THEN Revalidated(n) ELSE dentry[m]
    BY <1>1, <2>1
  <2>3. \/ Revalidated(n) = dentry[n]
        \/ Revalidated(n) = [gen |-> sb.gen, low |-> Lookup(sb, n)] /\ dentry[n].gen # sb.gen
    BY <1>3 DEF Revalidated, DentryOf
  <2>4. [gen |-> sb.gen, low |-> Lookup(sb, n)] \in [gen : 1 .. sb.gen, low : Lows]
    BY <1>1, LookupGood
  <2>5. \A m \in Dirs \cup Files : dentry[m].gen = sb.gen => dentry'[m] = dentry[m]
    BY <2>2, <2>3
  <2>6. n \in Dirs \cup Files
    BY <1>3 DEF Names
  <2>7. Revalidated(n) \in [gen : 1 .. sb.gen, low : Lows]
    BY <1>1, <2>3, <2>4, <2>6
  <2> QED BY <1>1, <2>1, <2>5, <2>7
<1> QED BY <1>2, <1>3

\* A walk that is pending stays good while the present generation lasts.
LEMMA WalkStays ==
    ASSUME Inv, Counts, sb'.gen = sb.gen, sb'.on = sb.on,
           \A m \in Dirs \cup Files : dentry[m].gen = sb.gen => dentry'[m] = dentry[m],
           NEW h \in Handles, walked[h] # None, walked'[h] = walked[h], file'[h] = file[h]
    PROVE  WalkGood(h)'
<1>1. walked[h] \in Names /\ WalkGood(h)
  BY DEF Inv, Counts
<1>2. walked[h] # Root => walked[h] \in Dirs \cup Files
  BY <1>1 DEF Names
<1>3. CASE walked[h] = Root
  BY <1>1, <1>3 DEF WalkGood, DentryOf
<1>4. CASE walked[h] # Root
  BY <1>1, <1>2, <1>4 DEF WalkGood, DentryOf
<1> QED BY <1>3, <1>4

LEMMA WalkCounts ==
    ASSUME Inv, Counts, NEW h \in Handles, NEW n \in Names, Walk(h, n)
    PROVE  Counts'
<1>1. /\ sb' = sb /\ file' = file /\ deleted' = deleted /\ oops' = oops
      /\ Remember(n) /\ file[h] = Closed
      /\ PositionsOf(Revalidated(n).low) # {}
      /\ walked' = [walked EXCEPT ![h] = n]
      /\ walked = [x \in Handles |-> walked[x]]
  BY DEF Walk, Inv
<1>2. /\ dentry' \in [Dirs \cup Files -> [gen : 1 .. sb.gen, low : Lows]]
      /\ \A m \in Dirs \cup Files : dentry[m].gen = sb.gen => dentry'[m] = dentry[m]
  BY <1>1, RememberTyped
<1>3. ASSUME NEW x \in Handles PROVE WalkGood(x)'
  <2>1. CASE x # h
    <3>1. walked'[x] = walked[x] /\ file'[x] = file[x]
      BY <1>1, <2>1
    <3>2. CASE walked[x] = None
      BY <3>1, <3>2 DEF WalkGood
    <3>3. CASE walked[x] # None
      BY <1>1, <1>2, <3>1, <3>3, WalkStays
    <3> QED BY <3>2, <3>3
  <2>2. CASE x = h
    <3>1. walked'[h] = n
      BY <1>1
    <3>2. DentryOf(n)' = Revalidated(n)
      <4>1. CASE n = Root
        BY <1>1, <4>1 DEF DentryOf, Revalidated
      <4>2. CASE n # Root
        <5>1. n \in Dirs \cup Files
          BY <4>2 DEF Names
        <5>2. dentry' = [dentry EXCEPT ![n] = Revalidated(n)]
          BY <1>1, <4>2 DEF Remember
        <5>3. dentry'[n] = Revalidated(n)
          BY <5>1, <5>2 DEF Inv
        <5> QED BY <4>2, <5>3 DEF DentryOf
      <4> QED BY <4>1, <4>2
    <3>3. Revalidated(n).gen = sb.gen
      BY RevalidatedIs
    <3> QED BY <1>1, <2>2, <3>1, <3>2, <3>3 DEF WalkGood
  <2> QED BY <2>1, <2>2
<1>4. Good(sb, file)' /\ MapsUsed(sb, file)'
  <2>1. Good(sb, file) /\ MapsUsed(sb, file)
    BY DEF Counts
  <2> QED BY <1>1, <2>1
<1> QED BY <1>1, <1>2, <1>3, <1>4 DEF Counts

LEMMA OpenCounts ==
    ASSUME Inv, Counts, NEW h \in Handles, unionfs_open(h)
    PROVE  Counts'
<1> DEFINE n == walked[h]
           d == DentryOf(n)
           r == [name |-> n, gen |-> d.gen, low |-> d.low]
<1>1. /\ n # None /\ n \in Names
      /\ file' = [file EXCEPT ![h] = r] /\ sb' = Get(sb, PositionsOf(r.low))
      /\ walked' = [walked EXCEPT ![h] = None]
      /\ UNCHANGED <<dentry, deleted, oops>>
      /\ walked = [x \in Handles |-> walked[x]] /\ file = [x \in Handles |-> file[x]]
  BY DEF unionfs_open, Inv
<1>2. file[h] = Closed /\ d.gen = sb.gen /\ PositionsOf(d.low) # {}
  BY <1>1 DEF Counts, WalkGood
<1>3. /\ SuperGood(sb) /\ Good(sb, file) /\ MapsUsed(sb, file) /\ IsSuper(sb)
      /\ sb.gen \in 1 .. MaxGen /\ deleted = {}
  BY BranchManAssumption DEF Counts, Good, SuperGood
<1>4. d.low = Lookup(sb, n)
  <2>1. CASE n = Root
    BY <2>1, LookupRoot DEF DentryOf, Inv
  <2>2. CASE n # Root
    BY <1>1, <1>2, <1>3, <2>2 DEF DentryOf, Inv, DentryInv, Names
  <2> QED BY <2>1, <2>2
<1>5. /\ Lookup(sb, n) \in Lows
      /\ \A j \in DOMAIN Lookup(sb, n) :
            /\ j \in 0 .. sb.bend /\ Lookup(sb, n)[j] = sb.on[j]
            /\ Lookup(sb, n)[j] \in Has[n]
  BY <1>1, <1>3, LookupGood
<1> HIDE DEF n, d
<1>6. /\ r \in OpenFiles /\ r.gen = sb.gen /\ PositionsOf(r.low) # {}
      /\ \A j \in PositionsOf(r.low) :
            r.low[j] \in Has[r.name] /\ j \in 0 .. sb.bend /\ r.low[j] = sb.on[j]
  <2>1. r.name = n /\ r.gen = d.gen /\ r.low = d.low
    OBVIOUS
  <2>2. r \in OpenFiles
    BY <1>1, <1>2, <1>3, <1>4, <1>5 DEF OpenFiles
  <2> QED BY <2>1, <2>2, <1>2, <1>4, <1>5 DEF PositionsOf
<1> HIDE DEF r
<1>7. Good(sb, file)' /\ MapsUsed(sb, file)'
  BY <1>1, <1>2, <1>3, <1>6, GetGood
<1>8. sb'.gen = sb.gen /\ sb'.on = sb.on
  BY <1>1, <1>3, GetShape DEF Shape
<1>9. ASSUME NEW x \in Handles PROVE WalkGood(x)'
  <2>1. CASE x = h \/ walked[x] = None
    BY <1>1, <2>1 DEF WalkGood
  <2>2. CASE x # h /\ walked[x] # None
    <3>1. walked'[x] = walked[x] /\ file'[x] = file[x] /\ dentry' = dentry
      BY <1>1, <2>2
    <3> QED BY <1>8, <2>2, <3>1, WalkStays
  <2> QED BY <2>1, <2>2
<1> QED BY <1>1, <1>7, <1>8, <1>9 DEF Counts

LEMMA UseCounts ==
    ASSUME Inv, Counts, NEW h \in Handles, Use(h)
    PROVE  Counts'
<1>1. /\ file[h] # Closed /\ Remember(file[h].name) /\ sb' = SbAfter(h)
      /\ file' = [file EXCEPT ![h] = FileAfter(h)]
      /\ UNCHANGED <<walked, deleted, oops>>
      /\ file = [x \in Handles |-> file[x]] /\ file[h].name \in Names
  BY DEF Use, unionfs_file_revalidate, Inv, FileInv
<1>2. /\ Good(sb, file)' /\ MapsUsed(sb, file)'
      /\ sb'.gen = sb.gen /\ sb'.on = sb.on
  BY <1>1, AfterGood
<1>3. /\ dentry' \in [Dirs \cup Files -> [gen : 1 .. sb.gen, low : Lows]]
      /\ \A m \in Dirs \cup Files : dentry[m].gen = sb.gen => dentry'[m] = dentry[m]
  BY <1>1, RememberTyped
<1>4. ASSUME NEW x \in Handles PROVE WalkGood(x)'
  <2>1. CASE walked[x] = None
    BY <1>1, <2>1 DEF WalkGood
  <2>2. CASE walked[x] # None
    <3>1. x # h
      BY <1>1, <2>2 DEF Counts, WalkGood
    <3>2. walked'[x] = walked[x] /\ file'[x] = file[x]
      BY <1>1, <3>1
    <3> QED BY <1>2, <1>3, <2>2, <3>2, WalkStays
  <2> QED BY <2>1, <2>2
<1> QED BY <1>1, <1>2, <1>3, <1>4 DEF Counts

LEMMA ReleaseCounts ==
    ASSUME Inv, Counts, NEW h \in Handles, unionfs_file_release(h)
    PROVE  Counts'
<1>1. /\ file[h] # Closed /\ sb' = Put(sb, file[h].gen, PositionsOf(file[h].low))
      /\ file' = [file EXCEPT ![h] = Closed]
      /\ UNCHANGED <<dentry, walked, deleted, oops>>
      /\ file = [x \in Handles |-> file[x]] /\ IsSuper(sb)
  BY DEF unionfs_file_release, Inv, SbInv
<1>2. Good(sb, file)' /\ MapsUsed(sb, file)'
  BY <1>1, PutGood DEF Counts
<1>3. sb'.gen = sb.gen /\ sb'.on = sb.on
  BY <1>1, PutShape DEF Shape
<1>4. ASSUME NEW x \in Handles PROVE WalkGood(x)'
  <2>1. CASE walked[x] = None
    BY <1>1, <2>1 DEF WalkGood
  <2>2. CASE walked[x] # None
    <3>1. x # h
      BY <1>1, <2>2 DEF Counts, WalkGood
    <3>2. walked'[x] = walked[x] /\ file'[x] = file[x] /\ dentry' = dentry
      BY <1>1, <3>1
    <3> QED BY <1>3, <2>2, <3>2, WalkStays
  <2> QED BY <2>1, <2>2
<1> QED BY <1>1, <1>2, <1>3, <1>4 DEF Counts

\* No assertion of the code fails.
LEMMA NoBugs ==
    ASSUME Inv, Counts, NEW h \in Handles, Bug(h)
    PROVE  FALSE
<1>1. file[h] # Closed
  BY DEF Bug
<1>2. ~ RevalidateBugs(h)
  BY <1>1, AfterGood
<1>3. ~ PutBugs(sb, file[h].gen, PositionsOf(file[h].low))
  BY <1>1, PutGood DEF Counts
<1> QED BY <1>2, <1>3 DEF Bug

\* The end of a generation that has users leaves no putmap without users.
LEMMA BumpUsed ==
    ASSUME NEW s, NEW F, Good(s, F), MapsUsed(s, F), OfGen(F, s.gen) # {},
           NEW t, t = NewGeneration(NewPutmap(s))
    PROVE  MapsUsed(t, F)
<1>1. \A g \in DOMAIN t.maps :
        g # s.gen => g \in DOMAIN s.maps /\ Putmap(t, g) = Putmap(s, g)
  BY BumpGood
<1> QED BY <1>1 DEF MapsUsed, HasMap

\* What is left to show for an ioctl: no open is pending in a quiet union.
LEMMA IoctlCounts ==
    ASSUME Undisturbed, Inv, Counts, NEW h \in Handles, Ioctl(h), sb.gen < MaxGen,
           Good(sb', file'), MapsUsed(sb', file'), sb'.gen = sb.gen + 1, oops' \in BOOLEAN
    PROVE  Counts'
<1>1. /\ Remember(file[h].name) /\ file[h].name \in Names
      /\ walked' = walked /\ deleted' = deleted /\ deleted = {}
      /\ \A x \in Handles : walked[x] = None
      /\ sb.gen \in Nat \ {0} /\ MaxGen \in Nat
  BY BranchManAssumption
  DEF Undisturbed, Ioctl, Quiet, unionfs_file_revalidate, Inv, FileInv, Counts, Good, SuperGood
<1>2. dentry' \in [Dirs \cup Files -> [gen : 1 .. sb.gen, low : Lows]]
  BY <1>1, RememberTyped
<1>3. 1 .. sb.gen \subseteq 1 .. sb'.gen /\ sb'.gen =< MaxGen
  BY <1>1
<1>4. dentry' \in [Dirs \cup Files -> [gen : 1 .. sb'.gen, low : Lows]]
  BY <1>2, <1>3
<1>5. \A x \in Handles : WalkGood(x)'
  BY <1>1 DEF WalkGood
<1> QED BY <1>1, <1>3, <1>4, <1>5 DEF Counts

\* Everything is good when the file an ioctl came through has been revalidated
\* and the generation has ended.
LEMMA IoctlBump ==
    ASSUME Undisturbed, Inv, Counts, NEW h \in Handles, Ioctl(h),
           NEW t, t = NewGeneration(NewPutmap(SbAfter(h)))
    PROVE  /\ Good(t, file') /\ Bumped(t, file') /\ MapsUsed(t, file')
           /\ t.gen = sb.gen + 1 /\ t.bend = sb.bend /\ t.on = sb.on
<1>1. /\ file[h] # Closed /\ file' = [file EXCEPT ![h] = FileAfter(h)]
  BY DEF Ioctl, unionfs_file_revalidate
<1>2. /\ Good(SbAfter(h), file') /\ MapsUsed(SbAfter(h), file')
      /\ SbAfter(h).gen = sb.gen /\ SbAfter(h).bend = sb.bend /\ SbAfter(h).on = sb.on
      /\ OfGen(file', sb.gen) # {}
  BY <1>1, AfterGood
<1>3. /\ Good(t, file')
      /\ t.bend = SbAfter(h).bend /\ t.on = SbAfter(h).on /\ t.gen = SbAfter(h).gen + 1
  BY <1>2, BumpGood
<1>4. Bumped(t, file')
  BY <1>2, BumpIsBumped
<1>5. MapsUsed(t, file')
  BY <1>2, BumpUsed
<1> QED BY <1>2, <1>3, <1>4, <1>5

LEMMA IncgenCounts ==
    ASSUME Undisturbed, Inv, Counts, NEW h \in Handles, unionfs_ioctl_incgen(h)
    PROVE  Counts'
<1>1. /\ Ioctl(h) /\ sb.gen < MaxGen /\ sb' = NewGeneration(NewPutmap(SbAfter(h)))
      /\ oops' = oops /\ oops \in BOOLEAN
  BY DEF unionfs_ioctl_incgen, Counts
<1>2. Good(sb', file') /\ MapsUsed(sb', file') /\ sb'.gen = sb.gen + 1
  BY <1>1, IoctlBump
<1> QED BY <1>1, <1>2, IoctlCounts

LEMMA RdwrCounts ==
    ASSUME Undisturbed, Inv, Counts, NEW h \in Handles, unionfs_ioctl_rdwrbranch(h)
    PROVE  Counts'
<1>1. /\ Ioctl(h) /\ sb.gen < MaxGen /\ sb' = NewGeneration(NewPutmap(SbAfter(h)))
      /\ oops' = oops /\ oops \in BOOLEAN
  BY DEF unionfs_ioctl_rdwrbranch, Counts, Undisturbed
<1>2. Good(sb', file') /\ MapsUsed(sb', file') /\ sb'.gen = sb.gen + 1
  BY <1>1, IoctlBump
<1> QED BY <1>1, <1>2, IoctlCounts

LEMMA AddCounts ==
    ASSUME Undisturbed, Inv, Counts, NEW h \in Handles,
           NEW k \in 0 .. Cardinality(Branch) - 1, NEW b \in Branch,
           unionfs_ioctl_addbranch(h, k, b)
    PROVE  Counts'
<1> DEFINE t == NewGeneration(NewPutmap(SbAfter(h)))
<1>1. /\ Ioctl(h) /\ sb.gen < MaxGen /\ sb' = FixPutmaps(Added(t, k, b))
      /\ b \notin {sb.on[i] : i \in Positions(sb)} /\ k =< sb.bend + 1
      /\ MayOops(Added(t, k, b))
  BY DEF unionfs_ioctl_addbranch
<1>2. /\ Bumped(t, file') /\ MapsUsed(t, file')
      /\ t.gen = sb.gen + 1 /\ t.bend = sb.bend /\ t.on = sb.on
  BY <1>1, IoctlBump
<1>3. oops' \in BOOLEAN
  BY <1>1 DEF MayOops
<1> HIDE DEF t
<1>4. sb.bend \in Nat
  BY DEF Inv, SbInv
<1>5. k \in 0 .. t.bend + 1 /\ b \notin {t.on[i] : i \in 0 .. t.bend}
  BY <1>1, <1>2, <1>4, SlotsFinite DEF Positions
<1>6. /\ Good(sb', file') /\ sb'.gen = t.gen
      /\ DOMAIN sb'.maps = DOMAIN t.maps
      /\ \A g \in DOMAIN sb'.maps : HasMap(sb', g) <=> HasMap(t, g)
  BY <1>1, <1>2, <1>5, AddGood
<1>7. MapsUsed(sb', file')
  BY <1>2, <1>6 DEF MapsUsed
<1> QED BY <1>1, <1>2, <1>3, <1>6, <1>7, IoctlCounts

LEMMA DelCounts ==
    ASSUME Undisturbed, Inv, Counts, NEW k \in 0 .. Cardinality(Branch) - 1,
           unionfs_ioctl_delbranch(k)
    PROVE  Counts'
<1> DEFINE t == NewGeneration(NewPutmap(sb))
           r == FixPutmaps(Removed(t, k))
<1>1. /\ sb.gen < MaxGen /\ sb' = FreeIfUnused(r) /\ MayOops(Removed(t, k))
      /\ sb.bend > 0 /\ k =< sb.bend /\ sb.count[k] = 0
      /\ UNCHANGED <<dentry, walked, file, deleted>>
      /\ \A x \in Handles : walked[x] = None
  BY DEF unionfs_ioctl_delbranch, Deletable, Undisturbed, Quiet
<1>2. /\ Good(sb, file) /\ MapsUsed(sb, file) /\ sb.bend \in Nat /\ sb.gen \in Nat \ {0}
      /\ sb.count = [i \in 0 .. sb.bend |-> Cardinality(OnBranch(file, sb.on[i]))]
      /\ MaxGen \in Nat
  BY BranchManAssumption DEF Counts, Good, SuperGood, CountsGood
<1>3. oops' \in BOOLEAN
  BY <1>1 DEF MayOops
<1> HIDE DEF t
<1>4. /\ Good(t, file) /\ t.bend = sb.bend /\ t.on = sb.on /\ t.gen = sb.gen + 1
      /\ t.last = sb.gen
      /\ \A g \in DOMAIN t.maps :
            g # sb.gen => g \in DOMAIN sb.maps /\ Putmap(t, g) = Putmap(sb, g)
  <2>1. t = NewGeneration(NewPutmap(sb))
    BY DEF t
  <2> QED BY ONLY <1>2, <2>1, BumpGood
<1>5. Bumped(t, file)
  BY <1>2, BumpIsBumped DEF t
<1>6. t.count[k] = 0 /\ k \in 0 .. t.bend /\ t.bend > 0
  <2>1. t.count = [i \in 0 .. t.bend |-> Cardinality(OnBranch(file, t.on[i]))]
    BY <1>4 DEF Good, CountsGood
  <2>2. k \in 0 .. sb.bend
    BY <1>1, <1>2, SlotsFinite
  <2> QED BY <1>1, <1>2, <1>4, <2>1, <2>2
<1>7. /\ Good(r, file) /\ r.gen = t.gen /\ r.last = t.last
      /\ DOMAIN r.maps = DOMAIN t.maps
      /\ \A g \in DOMAIN r.maps : HasMap(r, g) <=> HasMap(t, g)
  BY <1>5, <1>6, RemoveGood
<1> HIDE DEF r
<1>8. HasMap(r, r.last)
  BY <1>5, <1>7 DEF Bumped, HasMap
<1>9. \A g \in DOMAIN r.maps : g # r.last /\ HasMap(r, g) => OfGen(file, g) # {}
  BY <1>2, <1>4, <1>7 DEF MapsUsed, HasMap
<1>10. Good(sb', file) /\ MapsUsed(sb', file) /\ sb'.gen = r.gen
  BY <1>1, <1>7, <1>8, <1>9, FreeGood
<1>11. 1 .. sb.gen \subseteq 1 .. sb'.gen /\ sb'.gen =< MaxGen
  BY <1>1, <1>2, <1>4, <1>7, <1>10
<1>12. dentry' \in [Dirs \cup Files -> [gen : 1 .. sb'.gen, low : Lows]]
  BY <1>1, <1>11 DEF Counts
<1>13. \A x \in Handles : WalkGood(x)'
  BY <1>1 DEF WalkGood
<1>14. Good(sb, file)' /\ MapsUsed(sb, file)'
  BY <1>1, <1>10
<1>15. (deleted = {})'
  BY <1>1 DEF Counts
<1> QED BY <1>3, <1>11, <1>12, <1>13, <1>14, <1>15 DEF Counts

-----------------------------------------------------------------------------
(* The invariant holds.                                                    *)

LEMMA InitCounts == Init => Counts
<1> SUFFICES ASSUME Init PROVE Counts
  OBVIOUS
<1>1. PICK on \in Lists : sb = Mounted(on)
  BY DEF Init
<1>2. PICK n \in 0 .. Cardinality(Branch) - 1 :
        on \in [0 .. n -> Branch] /\ \A i, j \in 0 .. n : i # j => on[i] # on[j]
  BY <1>1 DEF Lists
<1>3. n \in Nat /\ DOMAIN on = 0 .. n
  BY <1>2, SlotsFinite
<1>4. Cardinality(DOMAIN on) - 1 = n
  <2>1. Cardinality(0 .. n) = n + 1
    BY <1>3, IntervalCount
  <2> QED BY <1>3, <2>1
<1>5. /\ sb.bend = n /\ sb.on = on /\ sb.count = [i \in 0 .. n |-> 0]
      /\ sb.gen = 1 /\ sb.first = 0 /\ sb.last = 0 /\ sb.maps = [g \in {} |-> Freed]
      /\ IsSuper(sb)
  BY <1>1, <1>3, <1>4 DEF Mounted, IsSuper
<1>6. SuperGood(sb)
  <2>1. \A i, j \in 0 .. sb.bend : sb.on[i] = sb.on[j] => i = j
    BY <1>2, <1>5
  <2>2. sb.maps = [g \in IF sb.first = 0 THEN {} ELSE sb.first .. sb.last |-> sb.maps[g]]
    BY <1>5
  <2> QED BY <1>2, <1>3, <1>5, <2>1, <2>2 DEF SuperGood
<1>7. /\ file = [h \in Handles |-> file[h]] /\ \A h \in Handles : file[h] = Closed
      /\ walked = [h \in Handles |-> None]
      /\ deleted = {} /\ oops = FALSE
      /\ dentry = [m \in Dirs \cup Files |-> [gen |-> 1, low |-> Lookup(sb, m)]]
  BY DEF Init
<1>8. Uses(file) = {}
  BY <1>7 DEF Uses
<1>9. \A b : Cardinality(OnBranch(file, b)) = 0
  <2>1. \A b : OnBranch(file, b) = {}
    BY <1>8 DEF OnBranch
  <2> QED BY <2>1, FS_EmptySet
<1>10. CountsGood(sb, file) /\ MapsUsed(sb, file)
  BY <1>5, <1>9 DEF CountsGood, MapsUsed
<1>11. FilesGood(sb, file)
  BY <1>7 DEF FilesGood
<1>12. dentry \in [Dirs \cup Files -> [gen : 1 .. sb.gen, low : Lows]]
  <2> SUFFICES ASSUME NEW m \in Dirs \cup Files
               PROVE  [gen |-> 1, low |-> Lookup(sb, m)] \in [gen : 1 .. sb.gen, low : Lows]
    BY <1>7
  <2>1. m \in Names
    BY DEF Names
  <2>2. Lookup(sb, m) \in Lows
    BY <1>6, <2>1, LookupGood
  <2>3. 1 \in 1 .. sb.gen
    BY <1>5
  <2> QED BY <2>2, <2>3
<1>13. \A h \in Handles : WalkGood(h)
  BY <1>7 DEF WalkGood
<1>14. sb.gen =< MaxGen
  BY <1>5, BranchManAssumption
<1> QED BY <1>6, <1>7, <1>10, <1>11, <1>12, <1>13, <1>14 DEF Counts, Good

LEMMA StutterCounts ==
    ASSUME Counts, UNCHANGED vars
    PROVE  Counts'
<1>1. /\ UNCHANGED <<sb, dentry, walked, file, deleted, oops>>
  BY DEF vars
<1>2. \A h \in Handles : WalkGood(h)'
  BY <1>1 DEF Counts, WalkGood, DentryOf
<1>3. Good(sb, file)' /\ MapsUsed(sb, file)'
  <2>1. Good(sb, file) /\ MapsUsed(sb, file)
    BY DEF Counts
  <2> QED BY <1>1, <2>1
<1> QED BY <1>1, <1>2, <1>3 DEF Counts

LEMMA NextCounts ==
    ASSUME Undisturbed, Inv, Counts, [Next]_vars
    PROVE  Counts'
<1>1. CASE UNCHANGED vars
  BY <1>1, StutterCounts
<1>2. ASSUME NEW h \in Handles, NEW n \in Names, Walk(h, n) PROVE Counts'
  BY <1>2, WalkCounts
<1>3. ASSUME NEW h \in Handles, unionfs_open(h) PROVE Counts'
  BY <1>3, OpenCounts
<1>4. ASSUME NEW h \in Handles, Use(h) PROVE Counts'
  BY <1>4, UseCounts
<1>5. ASSUME NEW h \in Handles, unionfs_file_release(h) PROVE Counts'
  BY <1>5, ReleaseCounts
<1>6. ASSUME NEW h \in Handles, Bug(h) PROVE Counts'
  BY <1>6, NoBugs
<1>7. ASSUME NEW h \in Handles, unionfs_ioctl_incgen(h) PROVE Counts'
  BY <1>7, IncgenCounts
<1>8. ASSUME NEW h \in Handles, unionfs_ioctl_rdwrbranch(h) PROVE Counts'
  BY <1>8, RdwrCounts
<1>9. ASSUME NEW h \in Handles, NEW k \in 0 .. Cardinality(Branch) - 1, NEW b \in Branch,
             unionfs_ioctl_addbranch(h, k, b)
      PROVE  Counts'
  BY <1>9, AddCounts
<1>10. ASSUME NEW n \in Files, Unlink(n) PROVE Counts'
  BY <1>10 DEF Unlink, Undisturbed
<1>11. ASSUME NEW k \in 0 .. Cardinality(Branch) - 1, unionfs_ioctl_delbranch(k)
       PROVE  Counts'
  BY <1>11, DelCounts
<1> QED
  BY <1>1, <1>2, <1>3, <1>4, <1>5, <1>6, <1>7, <1>8, <1>9, <1>10, <1>11 DEF Next

LEMMA CountsHold ==
    ASSUME Undisturbed
    PROVE  Spec => [](Inv /\ Counts)
<1>1. Init => Inv /\ Counts
  BY InitInv, InitCounts
<1>2. Inv /\ Counts /\ [Next]_vars => (Inv /\ Counts)'
  BY NextKeeps, NextCounts
<1> QED BY <1>1, <1>2, PTL DEF Spec

-----------------------------------------------------------------------------
(* What follows from it.                                                   *)

LEMMA TypesFollow ==
    ASSUME Inv, Counts
    PROVE  TypeOK
<1>1. /\ SuperGood(sb) /\ CountsGood(sb, file) /\ FilesGood(sb, file)
      /\ sb.gen =< MaxGen /\ MaxGen \in Nat /\ deleted = {} /\ oops \in BOOLEAN
  BY BranchManAssumption DEF Counts, Good
<1>2. /\ sb.bend \in Slots /\ sb.on \in [Positions(sb) -> Branch]
      /\ sb.gen \in 1 .. MaxGen /\ sb.first \in Nat /\ sb.last \in Nat
      /\ DOMAIN sb.maps = IF sb.first = 0 THEN {} ELSE sb.first .. sb.last
  <2>1. sb.bend \in Slots
    BY <1>1, BendInSlots
  <2>2. sb.on \in [Positions(sb) -> Branch]
    BY <1>1 DEF SuperGood, Positions
  <2>3. sb.gen \in Nat \ {0} /\ sb.first \in Nat /\ sb.last = sb.gen - 1
    BY <1>1 DEF SuperGood
  <2>4. DOMAIN sb.maps = IF sb.first = 0 THEN {} ELSE sb.first .. sb.last
    BY <1>1 DEF SuperGood
  <2> QED BY <1>1, <2>1, <2>2, <2>3, <2>4
<1>3. sb.count \in [Positions(sb) -> Int]
  <2>1. \A b : Cardinality(OnBranch(file, b)) \in Nat
    BY UsesFinite DEF OnBranch
  <2> QED BY <1>1, <2>1 DEF CountsGood, Positions
<1>4. \A g \in DOMAIN sb.maps :
        sb.maps[g] = Freed \/ \E n \in Slots : sb.maps[g] \in Putmaps(n)
  BY <1>1 DEF SuperGood, HasMap, Putmap
<1>5. 1 .. sb.gen \subseteq 1 .. MaxGen
  BY <1>1, <1>2
<1>6. dentry \in [Dirs \cup Files -> [gen : 1 .. MaxGen, low : Lows]]
  BY <1>5 DEF Counts
<1>7. walked \in [Handles -> Names \cup {None}]
  BY DEF Inv
<1>8. file \in [Handles -> OpenFiles \cup {Closed}]
  BY <1>1, <1>5 DEF FilesGood, FileGood, OpenFiles
<1> QED BY <1>1, <1>2, <1>3, <1>4, <1>6, <1>7, <1>8 DEF TypeOK

\* The lower files on a branch, as CountsExact says it.
LEMMA OpenOnBranch ==
    ASSUME FilesGood(sb, file), NEW b
    PROVE  {u \in Handles \X (0 .. Cardinality(Branch)) :
                u[2] \in Opened(u[1]) /\ file[u[1]].low[u[2]] = b} = OnBranch(file, b)
<1>1. Slots \subseteq 0 .. Cardinality(Branch)
  BY SlotsFinite DEF Slots
<1>2. ASSUME NEW h \in Handles, file[h] # Closed
      PROVE  DOMAIN file[h].low \subseteq Slots
  BY <1>2 DEF FilesGood, FileGood, Lows
<1>3. \A u \in Handles \X (0 .. Cardinality(Branch)) :
        u[2] \in Opened(u[1]) <=> file[u[1]] # Closed /\ u[2] \in DOMAIN file[u[1]].low
  BY DEF Opened, PositionsOf
<1> QED BY <1>1, <1>2, <1>3 DEF OnBranch, Uses

\* The state stays within its types, whatever files are opened, used and
\* released while branches come and go.
THEOREM BranchManTypes == ASSUME Undisturbed PROVE Spec => []TypeOK
BY TypesFollow, CountsHold, PTL

\* The count of a branch is the number of lower files open on it, through every
\* open, revalidation, release and change of the branches: branchcount() == 0 is
\* what lets delbranch take a branch away, and what put_super insists on.
THEOREM CountsAreExact == ASSUME Undisturbed PROVE Spec => []CountsExact
<1>1. Counts => CountsExact
  <2> SUFFICES ASSUME Counts, NEW i \in Positions(sb)
               PROVE  sb.count[i] =
                        Cardinality({u \in Handles \X (0 .. Cardinality(Branch)) :
                            u[2] \in Opened(u[1]) /\ file[u[1]].low[u[2]] = sb.on[i]})
    BY DEF CountsExact
  <2>1. FilesGood(sb, file) /\ sb.count[i] = Cardinality(OnBranch(file, sb.on[i]))
    BY DEF Counts, Good, CountsGood, Positions
  <2> QED BY <2>1, OpenOnBranch
<1> QED BY <1>1, CountsHold, PTL

\* delbranch never takes away a branch that a file is open on, although it
\* compares nothing but the count at a position that may have moved since the
\* file was opened.
THEOREM NoOpenBranchGoes == ASSUME Undisturbed PROVE Spec => []OpenBranchesStay
<1>1. Counts => OpenBranchesStay
  BY DEF Counts, Good, FilesGood, FileGood, OpenBranchesStay, Opened, PositionsOf, Positions
<1> QED BY <1>1, CountsHold, PTL

\* Through newputmap and fixputmaps the putmap of a file's generation leads each
\* of its positions to the branch the lower file is on, so that branchput_gen
\* meets none of its BUG_ONs and takes the count from the right branch.
THEOREM PutsAreRight == ASSUME Undisturbed PROVE Spec => []PutsFindTheirBranch
<1>1. Inv /\ Counts => PutsFindTheirBranch
  <2> SUFFICES ASSUME Inv, Counts, NEW h \in Handles, NEW j \in Opened(h)
               PROVE  LET g == file[h].gen
                      IN  /\ g = sb.gen \/ MapUsable(sb, g, Opened(h))
                          /\ Now(g, j) \in Positions(sb)
                          /\ sb.on[Now(g, j)] = file[h].low[j]
    BY DEF PutsFindTheirBranch
  <2>1. file[h] # Closed /\ Opened(h) = PositionsOf(file[h].low)
    BY DEF Opened
  <2>2. Good(sb, file) /\ FileGood(sb, file[h])
    BY <2>1 DEF Counts, Good, FilesGood
  <2>3. ~ PutBugs(sb, file[h].gen, Opened(h))
    BY <2>1, <2>2, PutGood
  <2>4. file[h].gen = sb.gen \/ MapUsable(sb, file[h].gen, Opened(h))
    BY <2>3 DEF PutBugs
  <2>5. Now(file[h].gen, j) = Leads(sb, file[h].gen, j)
    BY DEF Now, Leads
  <2> QED BY <2>1, <2>2, <2>4, <2>5 DEF FileGood, Positions, PositionsOf
<1> QED BY <1>1, CountsHold, PTL

\* A putmap is freed by the branchput of its last file, or at once when it has
\* none: changing the branches again and again piles up no more putmaps than
\* there are open files.
THEOREM NoPutmapIsLeft == ASSUME Undisturbed PROVE Spec => []PutmapsNeeded
<1>1. Counts => PutmapsNeeded
  BY DEF Counts, MapsUsed, HasMap, Putmap, OfGen, Uses, PutmapsNeeded, Opened, PositionsOf
<1> QED BY <1>1, CountsHold, PTL
=============================================================================
