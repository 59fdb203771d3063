--------------------------- MODULE ReadDir_proofs ---------------------------
(***************************************************************************)
(* Proofs about ReadDir: as long as the cookies of a directory's inode do  *)
(* not wrap, no scan shows a name twice, for any number of users, names    *)
(* and branches, whatever the lower directories hold and however they      *)
(* change.                                                                 *)
(*                                                                         *)
(* A scan may wander: into the inode's cache when its file is closed, and  *)
(* out again when a later open finds it by a position that the user has    *)
(* kept.  What has to be shown is that the names noted in an rdstate stay  *)
(* with the user who was shown them.                                       *)
(***************************************************************************)
EXTENDS ReadDir, SequenceTheorems, TLAPS

Rd(u) == file[u].rd
Holds(u) == IsOpen(u) /\ (Rd(u) # NoState \/ file[u].call # "idle")
Cached == 1 .. Len(cache)

\* Of rdstates and files only the fields' names are known.
IsRd(r) ==
    r = [cookie |-> r.cookie, offset |-> r.offset, bindex |-> r.bindex,
         dirpos |-> r.dirpos, seen |-> r.seen]

IsFile(f) ==
    f = [pos |-> f.pos, rd |-> f.rd, low |-> f.low, call |-> f.call,
         room |-> f.room, left |-> f.left, written |-> f.written]

Scans == [got : [Names -> 0 .. 2], ever : SUBSET Names,
          steady : SUBSET Names, split : SUBSET Names, done : BOOLEAN]

\* Cookies are given out in order, as they have not wrapped yet.
CookieInv ==
    /\ made \in Nat /\ changes \in Nat /\ made + changes =< Budget
    /\ cookie = made

Shapes ==
    /\ file = [u \in Users |-> file[u]] /\ DOMAIN at = Users
    /\ scan \in [Users -> Scans]
    /\ \E S : cache \in Seq(S)
    /\ \A i \in Cached : IsRd(cache[i])
    /\ \A u \in Users : IsOpen(u) => IsFile(file[u])
    /\ \A u \in Users : Holds(u) => IsRd(Rd(u))

\* No two rdstates have the same cookie, in whatever place.
OneOwner ==
    /\ \A i \in Cached : cache[i].cookie \in 1 .. made
    /\ \A u \in Users : Holds(u) => Rd(u).cookie \in 1 .. made
    /\ \A i, j \in Cached : cache[i].cookie = cache[j].cookie => i = j
    /\ \A u \in Users, i \in Cached : Holds(u) => cache[i].cookie # Rd(u).cookie
    /\ \A u, v \in Users :
            Holds(u) /\ Holds(v) /\ Rd(u).cookie = Rd(v).cookie => u = v

\* A position that a user has kept is one of his own scans.
OwnMarks ==
    /\ \A u \in Users : at[u].cookie \in 0 .. made
    /\ \A u, v \in Users : at[u].cookie = at[v].cookie => u = v \/ at[u].cookie = 0
    /\ \A u, v \in Users : Holds(u) /\ at[v].cookie = Rd(u).cookie => u = v
    /\ \A u \in Users : Holds(u) => at[u].cookie \in {0, Rd(u).cookie}

\* What was shown is noted, in the rdstate the user reads with or could find.
Noting(u, r) == \A n \in Names : scan[u].got[n] > 0 => n \in r.seen

Shown ==
    /\ NoDuplicates
    /\ \A u \in Users : Holds(u) => Noting(u, Rd(u))
    /\ \A u \in Users, i \in Cached :
            cache[i].cookie = at[u].cookie => Noting(u, cache[i])

Inv == CookieInv /\ Shapes /\ OneOwner /\ OwnMarks /\ Shown

-----------------------------------------------------------------------------
(* Sequences and records.                                                  *)

LEMMA AppendIs ==
    ASSUME NEW s, NEW r, \E S : s \in Seq(S)
    PROVE  /\ \E S : Append(s, r) \in Seq(S)
           /\ Len(s) \in Nat /\ Len(Append(s, r)) = Len(s) + 1
           /\ \A i \in 1 .. Len(s) : Append(s, r)[i] = s[i]
           /\ Append(s, r)[Len(s) + 1] = r
<1>1. PICK S : s \in Seq(S)
  OBVIOUS
<1>2. s \in Seq(S \cup {r}) /\ r \in S \cup {r}
  BY <1>1
<1> QED BY <1>2

LEMMA TailIs ==
    ASSUME NEW s, \E S : s \in Seq(S), s # <<>>
    PROVE  /\ \E S : Tail(s) \in Seq(S)
           /\ \A i \in 1 .. Len(Tail(s)) :
                i + 1 \in 1 .. Len(s) /\ Tail(s)[i] = s[i + 1]
<1>1. PICK S : s \in Seq(S)
  OBVIOUS
<1> QED BY <1>1

LEMMA WithoutIs ==
    ASSUME NEW s, \E S : s \in Seq(S), NEW k \in 1 .. Len(s)
    PROVE  /\ \E S : Without(s, k) \in Seq(S)
           /\ \A i \in 1 .. Len(Without(s, k)) :
                /\ i < k => i \in 1 .. Len(s) /\ Without(s, k)[i] = s[i]
                /\ i >= k => i + 1 \in 1 .. Len(s) /\ Without(s, k)[i] = s[i + 1]
<1>1. PICK S : s \in Seq(S)
  OBVIOUS
<1> DEFINE a == SubSeq(s, 1, k - 1)
           b == SubSeq(s, k + 1, Len(s))
<1>2. Len(s) \in Nat /\ k \in Nat
  BY <1>1
<1>3. a \in Seq(S) /\ Len(a) = k - 1 /\ \A i \in 1 .. k - 1 : a[i] = s[i]
  BY <1>1, <1>2
<1>4. /\ b \in Seq(S) /\ Len(b) = Len(s) - k
      /\ \A i \in 1 .. Len(s) - k : b[i] = s[i + k]
  BY <1>1, <1>2
<1>5. Without(s, k) = a \o b
  BY DEF Without
<1> HIDE DEF a, b
<1>6. a \o b \in Seq(S) /\ Len(a \o b) = Len(a) + Len(b)
  BY <1>3, <1>4, ConcatProperties
<1>7. ASSUME NEW i \in 1 .. Len(a \o b)
      PROVE  /\ i < k => i \in 1 .. Len(s) /\ (a \o b)[i] = s[i]
             /\ i >= k => i + 1 \in 1 .. Len(s) /\ (a \o b)[i] = s[i + 1]
  <2>1. (a \o b)[i] = IF i =< Len(a) THEN a[i] ELSE b[i - Len(a)]
    BY <1>3, <1>4, <1>6, ConcatProperties
  <2>2. i < k => i \in 1 .. Len(s) /\ (a \o b)[i] = s[i]
    BY <1>2, <1>3, <2>1
  <2>3. i >= k => i + 1 \in 1 .. Len(s) /\ (a \o b)[i] = s[i + 1]
    <3> SUFFICES ASSUME i >= k PROVE i + 1 \in 1 .. Len(s) /\ (a \o b)[i] = s[i + 1]
      OBVIOUS
    <3>1. i \in Nat /\ i =< Len(s) - 1
      BY <1>2, <1>3, <1>4, <1>6
    <3>2. (a \o b)[i] = b[i - (k - 1)] /\ i - (k - 1) \in 1 .. Len(s) - k
      BY <1>2, <1>3, <2>1, <3>1
    <3> QED BY <1>2, <1>4, <3>1, <3>2
  <2> QED BY <2>2, <2>3
<1> QED BY <1>5, <1>6, <1>7

LEMMA NextBranchIs ==
    ASSUME NEW r, IsRd(r)
    PROVE  /\ IsRd(NextBranch(r)) /\ NextBranch(r).cookie = r.cookie
           /\ NextBranch(r).seen = r.seen
<1>1. \E b : NextBranch(r) = [r EXCEPT !.bindex = b, !.dirpos = 0]
  BY Zenon DEF NextBranch
<1> QED BY <1>1 DEF IsRd

LEMMA PassedIs ==
    ASSUME NEW f, IsFile(f), IsRd(f.rd)
    PROVE  /\ IsFile(Passed(f)) /\ IsRd(Passed(f).rd)
           /\ Passed(f).rd.cookie = f.rd.cookie /\ Passed(f).rd.seen = f.rd.seen
           /\ Passed(f).call = f.call
<1>1. \E x, y : Passed(f) = [f EXCEPT !.rd.dirpos = x, !.left = y]
  BY Zenon DEF Passed
<1>2. PICK x, y : Passed(f) = [f EXCEPT !.rd.dirpos = x, !.left = y]
  BY <1>1
<1> DEFINE r == [f.rd EXCEPT !.dirpos = x]
<1>3. Passed(f) = [f EXCEPT !.rd = r, !.left = y]
  BY <1>2 DEF IsFile
<1>4. IsRd(r) /\ r.cookie = f.rd.cookie /\ r.seen = f.rd.seen
  BY DEF IsRd
<1> HIDE DEF r
<1>5. IsFile(Passed(f)) /\ Passed(f).rd = r /\ Passed(f).call = f.call
  BY <1>3 DEF IsFile
<1> QED BY <1>4, <1>5

LEMMA NotedIs ==
    ASSUME NEW f, IsFile(f), IsRd(f.rd), NEW n
    PROVE  /\ IsFile(Noted(f, n)) /\ IsRd(Noted(f, n).rd)
           /\ Noted(f, n).rd.cookie = f.rd.cookie
           /\ Noted(f, n).rd.seen = f.rd.seen \cup {n}
           /\ Noted(f, n).call = f.call
<1> DEFINE p == Passed(f)
<1>1. /\ IsFile(p) /\ IsRd(p.rd) /\ p.rd.cookie = f.rd.cookie
      /\ p.rd.seen = f.rd.seen /\ p.call = f.call
  BY PassedIs
<1> DEFINE r == [p.rd EXCEPT !.seen = @ \cup {n}]
<1>2. Noted(f, n) = [p EXCEPT !.rd = r, !.written = TRUE]
  BY <1>1 DEF Noted, IsFile, IsRd
<1> HIDE DEF p
<1>3. IsRd(r) /\ r.cookie = p.rd.cookie /\ r.seen = p.rd.seen \cup {n}
  BY <1>1 DEF IsRd
<1> HIDE DEF r
<1>4. IsFile(Noted(f, n)) /\ Noted(f, n).rd = r /\ Noted(f, n).call = p.call
  BY <1>1, <1>2 DEF IsFile
<1> QED BY <1>1, <1>3, <1>4

-----------------------------------------------------------------------------
(* What a step of user u leaves alone, and the kinds of steps.             *)

LEMMA OnlyUser ==
    ASSUME Shapes, NEW u \in Users, NEW g,
           file' = [file EXCEPT ![u] = g]
    PROVE  /\ file' = [v \in Users |-> file'[v]]
           /\ file'[u] = g
           /\ \A v \in Users : v # u => file'[v] = file[v]
           /\ \A v \in Users : v # u => /\ Rd(v)' = Rd(v)
                                        /\ IsOpen(v)' = IsOpen(v)
                                        /\ Holds(v)' = Holds(v)
BY DEF Shapes, Rd, IsOpen, Holds

\* The user's scan goes on: rdstate g.rd is the old one, with more noted.
GoesOn(u, g) ==
    /\ IsFile(g) /\ IsRd(g.rd)
    /\ g.rd.cookie = Rd(u).cookie /\ Rd(u).seen \subseteq g.rd.seen

LEMMA GoingOnKeeps ==
    ASSUME Inv, NEW u \in Users, Holds(u), NEW g, GoesOn(u, g),
           file' = [file EXCEPT ![u] = g],
           at' = at \/ at' = [at EXCEPT ![u] = rdstate2offset(g.rd)],
           scan' \in [Users -> Scans], NoDuplicates',
           \A v \in Users : v # u => scan'[v] = scan[v],
           \A n \in Names : scan'[u].got[n] > 0 =>
                scan[u].got[n] > 0 \/ n \in g.rd.seen,
           UNCHANGED <<cookie, made, cache, changes>>
    PROVE  Inv'
<1>1. /\ file' = [v \in Users |-> file'[v]] /\ file'[u] = g
      /\ \A v \in Users : v # u => /\ file'[v] = file[v] /\ Rd(v)' = Rd(v)
                                   /\ IsOpen(v)' = IsOpen(v) /\ Holds(v)' = Holds(v)
  BY OnlyUser DEF Inv
<1>2. Rd(u)' = g.rd
  BY <1>1 DEF Rd
<1>3. /\ IsRd(g.rd) /\ IsFile(g) /\ g.rd.cookie = Rd(u).cookie
      /\ Rd(u).seen \subseteq g.rd.seen
  BY DEF GoesOn
<1>4. CookieInv'
  BY DEF Inv, CookieInv
<1>5. Cached' = Cached
  BY DEF Cached
<1>6. Shapes'
  <2>1. DOMAIN at' = Users
    BY DEF Inv, Shapes
  <2>2. \A v \in Users : IsOpen(v)' => IsFile(file'[v])
    BY <1>1, <1>3 DEF Inv, Shapes
  <2>3. \A v \in Users : Holds(v)' => IsRd(Rd(v)')
    BY <1>1, <1>2, <1>3 DEF Inv, Shapes
  <2>4. (\E S : cache \in Seq(S)) /\ \A i \in Cached : IsRd(cache[i])
    BY DEF Inv, Shapes
  <2>5. cache' = cache /\ file' = [v \in Users |-> file'[v]] /\ scan' \in [Users -> Scans]
    BY <1>1
  <2> QED BY ONLY <1>5, <2>1, <2>2, <2>3, <2>4, <2>5 DEF Shapes
<1>7. \A v \in Users : Holds(v)' => Holds(v) /\ Rd(v)'.cookie = Rd(v).cookie
  BY <1>1, <1>2, <1>3
<1>8. OneOwner'
  BY <1>5, <1>7 DEF Inv, OneOwner
<1>9. at'[u].cookie \in {at[u].cookie, Rd(u).cookie}
      /\ \A v \in Users : v # u => at'[v] = at[v]
  BY <1>3 DEF Inv, Shapes, rdstate2offset
<1>10. OwnMarks'
  <2>1. \A v \in Users : at'[v].cookie \in 0 .. made'
    BY <1>9 DEF Inv, OwnMarks, OneOwner, CookieInv
  <2>2. \A v, w \in Users : at'[v].cookie = at'[w].cookie => v = w \/ at'[v].cookie = 0
    BY <1>9 DEF Inv, OwnMarks
  <2>3. \A v, w \in Users : Holds(v)' /\ at'[w].cookie = Rd(v)'.cookie => v = w
    BY <1>7, <1>9 DEF Inv, OwnMarks, OneOwner
  <2>4. \A v \in Users : Holds(v)' => at'[v].cookie \in {0, Rd(v)'.cookie}
    BY <1>7, <1>9 DEF Inv, OwnMarks
  <2> QED BY <2>1, <2>2, <2>3, <2>4 DEF OwnMarks
<1>11. Shown'
  <2>1. \A v \in Users : Holds(v)' => Noting(v, Rd(v))'
    BY <1>1, <1>2, <1>3 DEF Inv, Shown, Noting
  <2>2. ASSUME NEW v \in Users, NEW i \in Cached', cache'[i].cookie = at'[v].cookie
        PROVE  Noting(v, cache[i])'
    <3>1. i \in Cached /\ cache[i].cookie = at'[v].cookie
      BY <1>5, <2>2
    <3>2. v # u
      BY <1>9, <3>1 DEF Inv, OneOwner, OwnMarks, CookieInv
    <3> QED BY <1>9, <3>1, <3>2 DEF Inv, Shown, Noting
  <2> QED BY <2>1, <2>2 DEF Shown
<1> QED BY <1>4, <1>6, <1>8, <1>10, <1>11 DEF Inv

\* A new scan: whatever its file held before is no longer held.
LEMMA BeginningKeeps ==
    ASSUME Inv, Budget < MaxCookie, NEW u \in Users, Allocates,
           NEW g, IsFile(g), NEW low, g.rd = init_rdstate(low),
           file' = [file EXCEPT ![u] = g], NewScan(u),
           UNCHANGED <<cache, changes>>
    PROVE  Inv'
<1> DEFINE r == init_rdstate(low)
<1>1. /\ made \in Nat /\ made' = made + 1 /\ NextCookie = made + 1 /\ CookieInv'
  BY ReadDirAssumption DEF Inv, CookieInv, Allocates, NextCookie
<1>2. IsRd(r) /\ r.cookie = made + 1
  BY <1>1 DEF IsRd, init_rdstate
<1> HIDE DEF r
<1>3. /\ file' = [v \in Users |-> file'[v]] /\ file'[u] = g
      /\ \A v \in Users : v # u => /\ file'[v] = file[v] /\ Rd(v)' = Rd(v)
                                   /\ IsOpen(v)' = IsOpen(v) /\ Holds(v)' = Holds(v)
  BY OnlyUser DEF Inv
<1>4. Rd(u)' = r
  BY <1>3 DEF Rd, r
<1>5. Cached' = Cached
  BY DEF Cached
<1>6. /\ DOMAIN at' = Users /\ at'[u].cookie = 0
      /\ \A v \in Users : v # u => at'[v] = at[v]
  BY DEF NewScan, Start, Inv, Shapes
<1>7. /\ scan' \in [Users -> Scans]
      /\ \A n \in Names : scan'[u].got[n] = 0
      /\ \A v \in Users : v # u => scan'[v] = scan[v]
  BY DEF NewScan, Inv, Shapes, Scans, Visible
<1>8. Shapes'
  <2>1. \A v \in Users : IsOpen(v)' => IsFile(file'[v])
    BY <1>3 DEF Inv, Shapes
  <2>2. \A v \in Users : Holds(v)' => IsRd(Rd(v)')
    BY <1>2, <1>3, <1>4 DEF Inv, Shapes
  <2> QED BY <1>3, <1>5, <1>6, <1>7, <2>1, <2>2 DEF Inv, Shapes
<1>9. OneOwner'
  <2>1. \A i \in Cached' : cache'[i].cookie \in 1 .. made'
    BY <1>1, <1>5 DEF Inv, OneOwner
  <2>2. \A v \in Users : Holds(v)' => Rd(v)'.cookie \in 1 .. made'
    BY <1>1, <1>2, <1>3, <1>4 DEF Inv, OneOwner
  <2>3. \A v \in Users, i \in Cached' : Holds(v)' => cache'[i].cookie # Rd(v)'.cookie
    BY <1>1, <1>2, <1>3, <1>4, <1>5 DEF Inv, OneOwner
  <2>4. \A v, w \in Users :
            Holds(v)' /\ Holds(w)' /\ Rd(v)'.cookie = Rd(w)'.cookie => v = w
    BY <1>1, <1>2, <1>3, <1>4 DEF Inv, OneOwner
  <2> QED BY <1>5, <2>1, <2>2, <2>3, <2>4 DEF Inv, OneOwner
<1>10. OwnMarks'
  <2>1. \A v \in Users : at'[v].cookie \in 0 .. made'
    BY <1>1, <1>6 DEF Inv, OwnMarks
  <2>2. \A v, w \in Users : at'[v].cookie = at'[w].cookie => v = w \/ at'[v].cookie = 0
    BY <1>6 DEF Inv, OwnMarks
  <2>3. \A v, w \in Users : Holds(v)' /\ at'[w].cookie = Rd(v)'.cookie => v = w
    BY <1>1, <1>2, <1>3, <1>4, <1>6 DEF Inv, OwnMarks, OneOwner
  <2>4. \A v \in Users : Holds(v)' => at'[v].cookie \in {0, Rd(v)'.cookie}
    BY <1>3, <1>6 DEF Inv, OwnMarks
  <2> QED BY <2>1, <2>2, <2>3, <2>4 DEF OwnMarks
<1>11. Shown'
  <2>1. \A v \in Users : Holds(v)' => Noting(v, Rd(v))'
    BY <1>3, <1>7 DEF Inv, Shown, Noting
  <2>2. ASSUME NEW v \in Users, NEW i \in Cached', cache'[i].cookie = at'[v].cookie
        PROVE  Noting(v, cache[i])'
    BY <1>5, <1>6, <1>7, <2>2 DEF Inv, Shown, Noting
  <2>3. NoDuplicates'
    BY <1>7 DEF Inv, Shown, NoDuplicates
  <2> QED BY <2>1, <2>2, <2>3 DEF Shown
<1> QED BY <1>1, <1>8, <1>9, <1>10, <1>11 DEF Inv

\* A file that holds no rdstate afterwards, nor has put one into the cache.
LEMMA DroppingKeeps ==
    ASSUME Inv, NEW u \in Users, NEW g, file' = [file EXCEPT ![u] = g],
           IsFile(g), g.rd = NoState, g.call = "idle",
           at' = at \/ at' = [at EXCEPT ![u] = DIREOF],
           scan' \in [Users -> Scans], \A v \in Users : scan'[v].got = scan[v].got,
           UNCHANGED <<cookie, made, cache, changes>>
    PROVE  Inv'
<1>1. /\ file' = [v \in Users |-> file'[v]] /\ file'[u] = g
      /\ \A v \in Users : v # u => /\ file'[v] = file[v] /\ Rd(v)' = Rd(v)
                                   /\ IsOpen(v)' = IsOpen(v) /\ Holds(v)' = Holds(v)
  BY OnlyUser DEF Inv
<1>2. ~Holds(u)'
  BY <1>1 DEF Holds, Rd
<1>3. \A v \in Users : Holds(v)' => v # u /\ Holds(v) /\ Rd(v)' = Rd(v)
  BY <1>1, <1>2
<1>4. CookieInv' /\ Cached' = Cached
  BY DEF Inv, CookieInv, Cached
<1>5. DOMAIN at' = Users /\ \A v \in Users : at'[v] = at[v] \/ at'[v].cookie = 0
  BY DEF Inv, Shapes, DIREOF
<1>6. Shapes'
  <2>1. \A v \in Users : IsOpen(v)' => IsFile(file'[v])
    BY <1>1 DEF Inv, Shapes
  <2> QED BY <1>1, <1>3, <1>4, <1>5, <2>1 DEF Inv, Shapes
<1>7. OneOwner'
  BY <1>3, <1>4 DEF Inv, OneOwner
<1>8. OwnMarks'
  <2>1. \A v \in Users : at'[v].cookie \in 0 .. made'
    BY <1>5 DEF Inv, OwnMarks, CookieInv
  <2>2. \A v, w \in Users : at'[v].cookie = at'[w].cookie => v = w \/ at'[v].cookie = 0
    BY <1>5 DEF Inv, OwnMarks
  <2>3. \A v, w \in Users : Holds(v)' /\ at'[w].cookie = Rd(v)'.cookie => v = w
    BY <1>3, <1>5 DEF Inv, OwnMarks, OneOwner, CookieInv
  <2>4. \A v \in Users : Holds(v)' => at'[v].cookie \in {0, Rd(v)'.cookie}
    BY <1>3, <1>5 DEF Inv, OwnMarks
  <2> QED BY <2>1, <2>2, <2>3, <2>4 DEF OwnMarks
<1>9. Shown'
  <2>1. NoDuplicates'
    BY DEF Inv, Shown, NoDuplicates
  <2>2. \A v \in Users : Holds(v)' => Noting(v, Rd(v))'
    BY <1>3 DEF Inv, Shown, Noting
  <2>3. ASSUME NEW v \in Users, NEW i \in Cached', cache'[i].cookie = at'[v].cookie
        PROVE  Noting(v, cache[i])'
    BY <1>4, <1>5, <2>3 DEF Inv, Shown, Noting, OneOwner, CookieInv
  <2> QED BY <2>1, <2>2, <2>3 DEF Shown
<1> QED BY <1>4, <1>6, <1>7, <1>8, <1>9 DEF Inv

\* Of the cached rdstates some are left, each at a place of its own; the one
\* that is missing may have gone to the user who was looking for it.
LEMMA ThinningKeeps ==
    ASSUME Inv, \E S : cache' \in Seq(S),
           NEW from, \A i \in Cached' : from[i] \in Cached /\ cache'[i] = cache[from[i]],
           \A i, j \in Cached' : from[i] = from[j] => i = j,
           \/ file' = file
           \/ \E u \in Users, k \in Cached :
                /\ ~Holds(u)
                /\ cache[k].cookie = at[u].cookie
                /\ file' = [file EXCEPT ![u].rd = cache[k]]
                /\ IsOpen(u)
                /\ \A i \in Cached' : from[i] # k,
           UNCHANGED <<cookie, made, changes, at, scan>>
    PROVE  Inv'
<1>1. \A i \in Cached' : IsRd(cache'[i]) /\ cache'[i].cookie \in 1 .. made
  BY DEF Inv, Shapes, OneOwner
<1>2. \A i, j \in Cached' : cache'[i].cookie = cache'[j].cookie => i = j
  BY DEF Inv, OneOwner
<1>3. \A v \in Users, i \in Cached' : cache'[i].cookie = at[v].cookie => Noting(v, cache'[i])
  BY DEF Inv, Shown
<1>4. CookieInv'
  BY DEF Inv, CookieInv
<1>5. CASE file' = file
  <2>1. \A v \in Users : Holds(v)' = Holds(v) /\ Rd(v)' = Rd(v) /\ IsOpen(v)' = IsOpen(v)
    BY <1>5 DEF Holds, Rd, IsOpen
  <2>2. Shapes'
    BY <1>1, <1>5, <2>1 DEF Inv, Shapes
  <2>3. OneOwner'
    BY <1>1, <1>2, <2>1 DEF Inv, OneOwner
  <2>4. OwnMarks'
    BY <2>1 DEF Inv, OwnMarks
  <2>5. Shown'
    BY <1>3, <2>1 DEF Inv, Shown, Noting, NoDuplicates
  <2> QED BY <1>4, <2>2, <2>3, <2>4, <2>5 DEF Inv
<1>6. ASSUME NEW u \in Users, NEW k \in Cached, ~Holds(u), IsOpen(u),
             cache[k].cookie = at[u].cookie, \A i \in Cached' : from[i] # k,
             file' = [file EXCEPT ![u].rd = cache[k]]
      PROVE  Inv'
  <2> DEFINE g == [file[u] EXCEPT !.rd = cache[k]]
  <2>1. file' = [file EXCEPT ![u] = g]
    BY <1>6 DEF Inv, Shapes
  <2>2. IsFile(g) /\ g.rd = cache[k]
    BY <1>6 DEF Inv, Shapes, IsFile
  <2> HIDE DEF g
  <2>3. /\ file' = [v \in Users |-> file'[v]] /\ file'[u] = g
        /\ \A v \in Users : v # u => /\ file'[v] = file[v] /\ Rd(v)' = Rd(v)
                                     /\ IsOpen(v)' = IsOpen(v) /\ Holds(v)' = Holds(v)
    BY <2>1, OnlyUser DEF Inv
  <2>4. Rd(u)' = cache[k] /\ IsRd(cache[k]) /\ cache[k].cookie \in 1 .. made
    BY <2>2, <2>3 DEF Rd, Inv, Shapes, OneOwner
  <2>5. Shapes'
    <3>1. /\ DOMAIN at' = Users /\ scan' \in [Users -> Scans] /\ (\E S : cache' \in Seq(S))
          /\ \A i \in Cached' : IsRd(cache'[i])
      BY <1>1 DEF Inv, Shapes
    <3>2. \A v \in Users : IsOpen(v)' => IsFile(file'[v])
      BY <2>2, <2>3 DEF Inv, Shapes
    <3>3. \A v \in Users : Holds(v)' => IsRd(Rd(v)')
      BY <2>3, <2>4 DEF Inv, Shapes
    <3> QED BY ONLY <2>3, <3>1, <3>2, <3>3 DEF Shapes
  <2>6. \A i \in Cached' : cache'[i].cookie # cache[k].cookie
    BY <1>6 DEF Inv, OneOwner
  <2>7. OneOwner'
    <3>1. \A v \in Users : Holds(v)' => Rd(v)'.cookie \in 1 .. made'
      BY <2>3, <2>4 DEF Inv, OneOwner
    <3>2. \A v \in Users, i \in Cached' : Holds(v)' => cache'[i].cookie # Rd(v)'.cookie
      BY <2>3, <2>4, <2>6 DEF Inv, OneOwner
    <3>3. \A v, w \in Users :
            Holds(v)' /\ Holds(w)' /\ Rd(v)'.cookie = Rd(w)'.cookie => v = w
      BY <2>3, <2>4 DEF Inv, OneOwner
    <3> QED BY <1>1, <1>2, <3>1, <3>2, <3>3 DEF OneOwner
  <2>8. OwnMarks'
    <3>1. \A v, w \in Users : Holds(v)' /\ at[w].cookie = Rd(v)'.cookie => v = w
      BY <1>6, <2>3, <2>4 DEF Inv, OwnMarks, CookieInv
    <3>2. \A v \in Users : Holds(v)' => at[v].cookie \in {0, Rd(v)'.cookie}
      BY <1>6, <2>3, <2>4 DEF Inv, OwnMarks
    <3> QED BY <3>1, <3>2 DEF Inv, OwnMarks
  <2>9. Shown'
    <3>1. \A v \in Users : Holds(v)' => Noting(v, Rd(v))'
      BY <1>6, <2>3, <2>4 DEF Inv, Shown, Noting
    <3> QED BY <1>3, <3>1 DEF Inv, Shown, Noting, NoDuplicates
  <2> QED BY <1>4, <2>5, <2>7, <2>8, <2>9 DEF Inv
<1> QED BY <1>5, <1>6

-----------------------------------------------------------------------------
(* The actions.                                                            *)

LEMMA IdleIs ==
    ASSUME NEW p, NEW r
    PROVE  IsFile(Idle(p, r)) /\ Idle(p, r).rd = r /\ Idle(p, r).call = "idle"
BY DEF IsFile, Idle

\* The forms in which a step gives a file new fields.
LEMMA CalledIs ==
    ASSUME NEW f, IsFile(f), NEW g,
           \E low, call, room :
                g = [f EXCEPT !.low = low, !.call = call, !.room = room]
    PROVE  IsFile(g) /\ g.rd = f.rd
BY DEF IsFile

LEMMA NewlyCalledIs ==
    ASSUME NEW f, IsFile(f), NEW r, NEW g,
           \E low, call, room :
                g = [f EXCEPT !.low = low, !.call = call, !.room = room, !.rd = r]
    PROVE  IsFile(g) /\ g.rd = r
BY DEF IsFile

LEMMA LoweredIs ==
    ASSUME NEW f, IsFile(f), NEW g,
           \E call, left, written :
                g = [f EXCEPT !.call = call, !.left = left, !.written = written]
    PROVE  IsFile(g) /\ g.rd = f.rd
BY DEF IsFile

LEMMA MovedIs ==
    ASSUME NEW f, IsFile(f), NEW r, NEW g,
           \/ g = [f EXCEPT !.rd = r]
           \/ \E call : g = [f EXCEPT !.call = call, !.rd = r]
    PROVE  IsFile(g) /\ g.rd = r
BY DEF IsFile

LEMMA OpenKeeps ==
    ASSUME Inv, NEW u \in Users, unionfs_open(u)
    PROVE  Inv'
<1>1. scan' \in [Users -> Scans] /\ \A v \in Users : scan'[v].got = scan[v].got
  BY DEF Inv, Shapes, unionfs_open
<1> QED BY <1>1, IdleIs, DroppingKeeps DEF unionfs_open

LEMMA ReleaseKeeps ==
    ASSUME Inv, NEW u \in Users, unionfs_file_release(u)
    PROVE  Inv'
<1>1. /\ IsOpen(u) /\ file[u].call = "idle"
      /\ cache' = IF Rd(u) = NoState THEN cache ELSE Append(cache, Rd(u))
      /\ file' = [file EXCEPT ![u] = Closed]
      /\ UNCHANGED <<cookie, made, at, scan, changes>>
  BY DEF unionfs_file_release, Rd, InCall
<1>2. /\ file' = [v \in Users |-> file'[v]] /\ file'[u] = Closed
      /\ \A v \in Users : v # u => /\ file'[v] = file[v] /\ Rd(v)' = Rd(v)
                                   /\ IsOpen(v)' = IsOpen(v) /\ Holds(v)' = Holds(v)
  BY <1>1, OnlyUser DEF Inv
<1>3. ~IsOpen(u)' /\ ~Holds(u)'
  BY <1>2 DEF Holds, IsOpen
<1>4. \A v \in Users : Holds(v)' => v # u /\ Holds(v) /\ Rd(v)' = Rd(v)
  BY <1>2, <1>3
<1>5. \A v \in Users : IsOpen(v)' => IsFile(file'[v])
  BY <1>2, <1>3 DEF Inv, Shapes
<1>6. CookieInv'
  BY <1>1 DEF Inv, CookieInv
<1>7. OwnMarks'
  BY <1>1, <1>4 DEF Inv, OwnMarks
<1>8. NoDuplicates' /\ \A v \in Users : Holds(v)' => Noting(v, Rd(v))'
  BY <1>1, <1>4 DEF Inv, Shown, Noting, NoDuplicates
<1>9. CASE Rd(u) = NoState
  <2>1. Cached' = Cached /\ cache' = cache
    BY <1>1, <1>9 DEF Cached
  <2>2. Shapes' /\ OneOwner'
    BY <1>1, <1>2, <1>4, <1>5, <2>1 DEF Inv, Shapes, OneOwner
  <2>3. Shown'
    BY <1>1, <1>8, <2>1 DEF Inv, Shown, Noting
  <2> QED BY <1>6, <1>7, <2>2, <2>3 DEF Inv
<1>10. CASE Rd(u) # NoState
  <2>1. Holds(u) /\ IsRd(Rd(u)) /\ Rd(u).cookie \in 1 .. made
    BY <1>1, <1>10 DEF Holds, Inv, Shapes, OneOwner
  <2>2. /\ \E S : cache' \in Seq(S)
        /\ Len(cache) \in Nat /\ Len(cache') = Len(cache) + 1
        /\ \A i \in Cached : cache'[i] = cache[i]
        /\ cache'[Len(cache) + 1] = Rd(u)
    <3>1. (\E S : cache \in Seq(S)) /\ cache' = Append(cache, Rd(u))
      BY <1>1, <1>10 DEF Inv, Shapes
    <3> DEFINE r == Rd(u)
    <3>2. cache' = Append(cache, r)
      BY <3>1
    <3> HIDE DEF r
    <3>3. /\ \E S : Append(cache, r) \in Seq(S)
          /\ Len(cache) \in Nat /\ Len(Append(cache, r)) = Len(cache) + 1
          /\ \A i \in 1 .. Len(cache) : Append(cache, r)[i] = cache[i]
          /\ Append(cache, r)[Len(cache) + 1] = r
      BY <3>1, AppendIs, Zenon
    <3> QED BY <3>2, <3>3, Zenon DEF Cached, r
  <2>3. \A i \in Cached' : \/ i \in Cached /\ cache'[i] = cache[i]
                           \/ i = Len(cache) + 1 /\ cache'[i] = Rd(u)
    BY <2>2 DEF Cached
  <2>4. Shapes'
    <3>1. \A i \in Cached' : IsRd(cache'[i])
      BY <2>1, <2>3 DEF Inv, Shapes
    <3>2. \A v \in Users : (IsOpen(v)' => IsFile(file'[v])) /\ (Holds(v)' => IsRd(Rd(v)'))
      BY <1>1, <1>2, <1>4, <1>5 DEF Inv, Shapes
    <3>3. /\ file' = [v \in Users |-> file'[v]] /\ DOMAIN at' = Users
          /\ scan' \in [Users -> Scans]
      BY <1>1, <1>2, <1>4, <1>5 DEF Inv, Shapes
    <3> QED BY ONLY <2>2, <3>1, <3>2, <3>3 DEF Shapes
  <2>5. OneOwner'
    <3>1. \A i \in Cached' : cache'[i].cookie \in 1 .. made'
      BY <1>1, <2>1, <2>3 DEF Inv, OneOwner
    <3>2. \A i, j \in Cached' : cache'[i].cookie = cache'[j].cookie => i = j
      BY <2>1, <2>3 DEF Inv, OneOwner
    <3>3. \A v \in Users, i \in Cached' : Holds(v)' => cache'[i].cookie # Rd(v)'.cookie
      BY <1>4, <2>1, <2>3 DEF Inv, OneOwner
    <3> QED BY <1>1, <1>4, <3>1, <3>2, <3>3 DEF Inv, OneOwner
  <2>6. ASSUME NEW v \in Users, NEW i \in Cached', cache'[i].cookie = at'[v].cookie
        PROVE  Noting(v, cache[i])'
    <3>1. CASE i \in Cached /\ cache'[i] = cache[i]
      BY <1>1, <2>6, <3>1 DEF Inv, Shown, Noting
    <3>2. CASE cache'[i] = Rd(u)
      BY <1>1, <2>1, <2>6, <3>2 DEF Inv, OwnMarks, Shown, Noting
    <3> QED BY <2>3, <3>1, <3>2
  <2> QED BY <1>6, <1>7, <1>8, <2>4, <2>5, <2>6 DEF Inv, Shown
<1> QED BY <1>9, <1>10

LEMMA PruningKeeps ==
    ASSUME Inv, unionfs_write_inode
    PROVE  Inv'
<1>1. /\ cache # <<>> /\ cache' = Tail(cache)
      /\ UNCHANGED <<cookie, made, file, at, scan, changes>>
  BY DEF unionfs_write_inode
<1>2. /\ \E S : cache' \in Seq(S)
      /\ \A i \in Cached' : i + 1 \in Cached /\ cache'[i] = cache[i + 1]
  BY <1>1, TailIs DEF Inv, Shapes, Cached
<1>3. PICK from : from = [i \in Cached' |-> i + 1]
  OBVIOUS
<1>4. \A i \in Cached' : i \in Int /\ from[i] = i + 1
  BY <1>3 DEF Cached
<1>5. /\ \A i \in Cached' : from[i] \in Cached /\ cache'[i] = cache[from[i]]
      /\ \A i, j \in Cached' : from[i] = from[j] => i = j
  BY <1>2, <1>4
<1> QED BY <1>1, <1>2, <1>5, ThinningKeeps

LEMMA SeekToStartKeeps ==
    ASSUME Inv, Budget < MaxCookie, NEW u \in Users, SeekToStart(u)
    PROVE  Inv'
<1> DEFINE g == [file[u] EXCEPT !.rd = init_rdstate(Lower)]
<1>1. file' = [file EXCEPT ![u] = g]
  BY DEF SeekToStart, Inv, Shapes
<1>2. IsFile(g) /\ g.rd = init_rdstate(Lower)
  BY DEF SeekToStart, Inv, Shapes, IsFile
<1> HIDE DEF g
<1> QED BY <1>1, <1>2, BeginningKeeps DEF SeekToStart

LEMMA SeekToCookieKeeps ==
    ASSUME Inv, NEW u \in Users, SeekToCookie(u)
    PROVE  Inv'
<1>1. PICK k \in find_rdstate(at[u]) :
            /\ file' = [file EXCEPT ![u].rd = cache[k]]
            /\ cache' = Without(cache, k)
  BY DEF SeekToCookie
<1>2. k \in Cached /\ cache[k].cookie = at[u].cookie
  BY DEF find_rdstate, rdstate2offset, Cached
<1>3. IsOpen(u) /\ ~Holds(u) /\ UNCHANGED <<cookie, made, at, scan, changes>>
  BY DEF SeekToCookie, InCall, Holds, Rd
<1>4. /\ \E S : cache' \in Seq(S)
      /\ \A i \in Cached' :
            /\ i < k => i \in Cached /\ cache'[i] = cache[i]
            /\ i >= k => i + 1 \in Cached /\ cache'[i] = cache[i + 1]
  BY <1>1, <1>2, WithoutIs DEF Inv, Shapes, Cached
<1>5. PICK from : from = [i \in Cached' |-> IF i < k THEN i ELSE i + 1]
  OBVIOUS
<1>6. /\ k \in Int
      /\ \A i \in Cached' : i \in Int /\ from[i] = IF i < k THEN i ELSE i + 1
  BY <1>2, <1>5 DEF Cached
<1>7. /\ \A i \in Cached' : from[i] \in Cached /\ cache'[i] = cache[from[i]]
      /\ \A i, j \in Cached' : from[i] = from[j] => i = j
      /\ \A i \in Cached' : from[i] # k
  BY <1>4, <1>6
<1> QED BY <1>1, <1>2, <1>3, <1>4, <1>7, ThinningKeeps

LEMMA StartCallKeeps ==
    ASSUME Inv, Budget < MaxCookie, NEW u \in Users, NEW room, StartCall(u, room)
    PROVE  Inv'
<1> DEFINE g == [file[u] EXCEPT !.low = Lower, !.call = "loop", !.room = room]
           h == [file[u] EXCEPT !.low = Lower, !.call = "loop", !.room = room,
                                !.rd = init_rdstate(Lower)]
<1>1. CASE /\ file[u].rd # NoState /\ file' = [file EXCEPT ![u] = g]
           /\ UNCHANGED <<cookie, made, at, scan>>
  <2>1. IsOpen(u) /\ Holds(u) /\ UNCHANGED <<cache, changes>>
    BY <1>1 DEF StartCall, Holds, Rd
  <2>2. IsFile(file[u]) /\ \E low, call, rm :
            g = [file[u] EXCEPT !.low = low, !.call = call, !.room = rm]
    BY <2>1, Zenon DEF Inv, Shapes
  <2> HIDE DEF g
  <2>3. GoesOn(u, g)
    BY <2>1, <2>2, CalledIs DEF GoesOn, Inv, Shapes, Rd
  <2>4. scan' \in [Users -> Scans] /\ NoDuplicates'
    BY <1>1 DEF Inv, Shapes, Shown, NoDuplicates
  <2> QED BY <1>1, <2>1, <2>3, <2>4, GoingOnKeeps
<1>2. CASE Allocates /\ NewScan(u) /\ file' = [file EXCEPT ![u] = h]
  <2> DEFINE r == init_rdstate(Lower)
  <2>a. IsFile(file[u]) /\ \E low, call, rm :
            h = [file[u] EXCEPT !.low = low, !.call = call, !.room = rm, !.rd = r]
    BY Zenon DEF StartCall, Inv, Shapes
  <2>2. UNCHANGED <<cache, changes>>
    BY DEF StartCall
  <2> HIDE DEF h, r
  <2>b. IsFile(h) /\ h.rd = r
    BY <2>a, NewlyCalledIs
  <2>1. IsFile(h) /\ h.rd = init_rdstate(Lower)
    BY <2>b DEF r
  <2> QED BY <1>2, <2>1, <2>2, BeginningKeeps
<1>3. \/ /\ file[u].rd # NoState /\ file' = [file EXCEPT ![u] = g]
         /\ UNCHANGED <<cookie, made, at, scan>>
      \/ Allocates /\ NewScan(u) /\ file' = [file EXCEPT ![u] = h]
  BY DEF StartCall, Inv, Shapes
<1> QED BY <1>1, <1>2, <1>3

LEMMA TellKeeps ==
    ASSUME Inv, NEW u \in Users, Tell(u)
    PROVE  Inv'
<1>1. /\ IsOpen(u) /\ UNCHANGED <<cookie, made, cache, file, scan, changes>>
      /\ \/ file[u].pos = DIREOF /\ at' = [at EXCEPT ![u] = DIREOF]
         \/ Rd(u) # NoState /\ at' = [at EXCEPT ![u] = rdstate2offset(Rd(u))]
         \/ at' = at
  BY DEF Tell, Rd
<1>2. CASE at' = at
  <2>1. \A v \in Users : Holds(v)' = Holds(v) /\ Rd(v)' = Rd(v) /\ IsOpen(v)' = IsOpen(v)
    BY <1>1 DEF Holds, Rd, IsOpen
  <2>2. CookieInv' /\ Shapes' /\ Cached' = Cached
    BY <1>1, <1>2, <2>1 DEF Inv, CookieInv, Shapes, Cached
  <2>3. OneOwner' /\ OwnMarks'
    BY <1>1, <1>2, <2>1, <2>2 DEF Inv, OneOwner, OwnMarks
  <2>4. Shown'
    BY <1>1, <1>2, <2>1, <2>2 DEF Inv, Shown, Noting, NoDuplicates
  <2> QED BY <2>2, <2>3, <2>4 DEF Inv
<1>3. CASE Rd(u) # NoState /\ at' = [at EXCEPT ![u] = rdstate2offset(Rd(u))]
  <2>1. Holds(u) /\ IsFile(file[u])
    BY <1>1, <1>3 DEF Holds, Inv, Shapes
  <2>a. file[u].rd = Rd(u) /\ GoesOn(u, file[u])
    BY <2>1 DEF GoesOn, Inv, Shapes, Rd
  <2>3. scan' \in [Users -> Scans] /\ NoDuplicates'
    BY <1>1 DEF Inv, Shapes, Shown, NoDuplicates
  <2> DEFINE g == file[u]
  <2>4. GoesOn(u, g) /\ file' = [file EXCEPT ![u] = g] /\ g.rd = Rd(u)
    BY <1>1, <2>a DEF Inv, Shapes
  <2>5. at' = [at EXCEPT ![u] = rdstate2offset(g.rd)]
    BY <1>3, <2>4
  <2> HIDE DEF g
  <2> QED BY <1>1, <2>1, <2>3, <2>4, <2>5, GoingOnKeeps
<1>4. CASE at' = [at EXCEPT ![u] = DIREOF]
  <2>1. \A v \in Users : Holds(v)' = Holds(v) /\ Rd(v)' = Rd(v) /\ IsOpen(v)' = IsOpen(v)
    BY <1>1 DEF Holds, Rd, IsOpen
  <2>2. /\ DOMAIN at' = Users /\ at'[u].cookie = 0
        /\ \A v \in Users : v # u => at'[v] = at[v]
    BY <1>4 DEF Inv, Shapes, DIREOF
  <2>3. CookieInv' /\ Shapes' /\ OneOwner' /\ Cached' = Cached
    BY <1>1, <2>1, <2>2 DEF Inv, CookieInv, Shapes, OneOwner, Cached
  <2>4. OwnMarks'
    BY <1>1, <2>1, <2>2 DEF Inv, OwnMarks, OneOwner, CookieInv
  <2>5. NoDuplicates' /\ \A v \in Users : Holds(v)' => Noting(v, Rd(v))'
    BY <1>1, <2>1 DEF Inv, Shown, Noting, NoDuplicates
  <2>6. ASSUME NEW v \in Users, NEW i \in Cached', cache'[i].cookie = at'[v].cookie
        PROVE  Noting(v, cache[i])'
    BY <1>1, <2>2, <2>3, <2>6 DEF Inv, Shown, Noting, OneOwner, CookieInv
  <2> QED BY <2>3, <2>4, <2>5, <2>6 DEF Inv, Shown
<1> QED BY <1>1, <1>2, <1>3, <1>4

\* A step of the kernel that shows nothing.
LEMMA QuietKeeps ==
    ASSUME Inv, NEW u \in Users, Holds(u), NEW g, GoesOn(u, g),
           file' = [file EXCEPT ![u] = g],
           at' = at \/ at' = [at EXCEPT ![u] = rdstate2offset(g.rd)],
           UNCHANGED <<cookie, made, cache, scan, changes>>
    PROVE  Inv'
<1>1. scan' \in [Users -> Scans] /\ NoDuplicates'
  BY DEF Inv, Shapes, Shown, NoDuplicates
<1> QED BY <1>1, GoingOnKeeps

LEMMA CalledHolds ==
    ASSUME Inv, NEW u \in Users, IsOpen(u), file[u].call # "idle"
    PROVE  Holds(u) /\ IsFile(file[u]) /\ IsRd(file[u].rd) /\ Rd(u) = file[u].rd
BY DEF Holds, Inv, Shapes, Rd

LEMMA PickBranchKeeps ==
    ASSUME Inv, NEW u \in Users, PickBranch(u)
    PROVE  Inv'
<1> DEFINE f == file[u]
           next == [f EXCEPT !.rd = NextBranch(@)]
           into == [f EXCEPT !.call = "lower", !.left = Chunk, !.written = FALSE]
<1>1. /\ IsOpen(u) /\ f.call = "loop"
      /\ file' = [file EXCEPT ![u] = next] \/ file' = [file EXCEPT ![u] = into]
      /\ UNCHANGED <<cookie, made, cache, at, scan, changes>>
  BY DEF PickBranch
<1>2. Holds(u) /\ IsFile(f) /\ IsRd(f.rd) /\ Rd(u) = f.rd
  BY <1>1, CalledHolds
<1>3. IsFile(next) /\ next.rd = NextBranch(f.rd) /\ IsFile(into) /\ into.rd = f.rd
  <2>1. \E call, left, written :
            into = [f EXCEPT !.call = call, !.left = left, !.written = written]
    BY Zenon
  <2>2. next = [f EXCEPT !.rd = NextBranch(f.rd)]
    OBVIOUS
  <2> HIDE DEF f, next, into
  <2>3. IsFile(into) /\ into.rd = f.rd
    BY <1>2, <2>1, LoweredIs
  <2> DEFINE r == NextBranch(f.rd)
  <2>a. next = [f EXCEPT !.rd = r]
    BY <2>2
  <2> HIDE DEF r
  <2>b. IsFile(next) /\ next.rd = r
    BY <1>2, <2>a, MovedIs
  <2>4. IsFile(next) /\ next.rd = NextBranch(f.rd)
    BY <2>b DEF r
  <2> QED BY <2>3, <2>4
<1>4. GoesOn(u, next) /\ GoesOn(u, into)
  BY <1>2, <1>3, NextBranchIs DEF GoesOn
<1> HIDE DEF next, into
<1> QED BY <1>1, <1>2, <1>4, QuietKeeps

LEMMA LowerReturnsKeeps ==
    ASSUME Inv, NEW u \in Users, LowerReturns(u)
    PROVE  Inv'
<1> DEFINE f == file[u]
           r == IF f.written THEN f.rd ELSE NextBranch(f.rd)
           g == [f EXCEPT !.call = "loop", !.rd = r]
<1>1. /\ IsOpen(u) /\ f.call = "lower" /\ file' = [file EXCEPT ![u] = g]
      /\ UNCHANGED <<cookie, made, cache, at, scan, changes>>
  BY DEF LowerReturns
<1>2. Holds(u) /\ IsFile(f) /\ IsRd(f.rd) /\ Rd(u) = f.rd
  BY <1>1, CalledHolds
<1>3. IsRd(r) /\ r.cookie = f.rd.cookie /\ r.seen = f.rd.seen
  BY <1>2, NextBranchIs
<1> HIDE DEF r
<1>4. IsFile(g) /\ g.rd = r
  <2>1. \E call : g = [f EXCEPT !.call = call, !.rd = r]
    BY Zenon
  <2> HIDE DEF f, g
  <2> QED BY <1>2, <2>1, MovedIs
<1>5. GoesOn(u, g)
  BY <1>2, <1>3, <1>4 DEF GoesOn
<1> HIDE DEF g
<1> QED BY <1>1, <1>2, <1>5, QuietKeeps

LEMMA EndOfScanKeeps ==
    ASSUME Inv, NEW u \in Users, EndOfScan(u)
    PROVE  Inv'
<1>1. scan' = [scan EXCEPT ![u].done = TRUE]
  BY DEF EndOfScan
<1>2. scan' \in [Users -> Scans] /\ \A v \in Users : scan'[v].got = scan[v].got
  <2>1. scan \in [Users -> Scans]
    BY DEF Inv, Shapes
  <2>2. \A s \in Scans : [s EXCEPT !.done = TRUE] \in Scans /\ [s EXCEPT !.done = TRUE].got = s.got
    BY DEF Scans
  <2>3. scan' = [scan EXCEPT ![u] = [scan[u] EXCEPT !.done = TRUE]]
    BY <1>1, <2>1
  <2> QED BY <2>1, <2>2, <2>3
<1>3. /\ file' = [file EXCEPT ![u] = Idle(DIREOF, NoState)]
      /\ at' = [at EXCEPT ![u] = DIREOF]
      /\ UNCHANGED <<cookie, made, cache, changes>>
  BY DEF EndOfScan
<1> QED BY <1>2, <1>3, IdleIs, DroppingKeeps

LEMMA SkipEntryKeeps ==
    ASSUME Inv, NEW u \in Users, SkipEntry(u)
    PROVE  Inv'
<1>1. /\ IsOpen(u) /\ file[u].call # "idle"
      /\ file' = [file EXCEPT ![u] = Passed(file[u])]
      /\ UNCHANGED <<cookie, made, cache, at, scan, changes>>
  BY DEF SkipEntry, Reading
<1>2. Holds(u) /\ GoesOn(u, Passed(file[u]))
  BY <1>1, CalledHolds, PassedIs DEF GoesOn
<1> QED BY <1>1, <1>2, QuietKeeps

LEMMA NoteWhiteoutKeeps ==
    ASSUME Inv, NEW u \in Users, NoteWhiteout(u)
    PROVE  Inv'
<1>1. /\ IsOpen(u) /\ file[u].call # "idle"
      /\ file' = [file EXCEPT ![u] = Noted(file[u], NextSlot(file[u]).name)]
      /\ UNCHANGED <<cookie, made, cache, at, scan, changes>>
  BY DEF NoteWhiteout, Reading
<1>2. Holds(u) /\ GoesOn(u, Noted(file[u], NextSlot(file[u]).name))
  BY <1>1, CalledHolds, NotedIs DEF GoesOn
<1> QED BY <1>1, <1>2, QuietKeeps

\* The one step that shows something: a name that was not noted.
LEMMA ShowEntryKeeps ==
    ASSUME Inv, NEW u \in Users, ShowEntry(u)
    PROVE  Inv'
<1> DEFINE f == file[u]
           name == NextSlot(f).name
           p == Noted(f, name)
           g == [p EXCEPT !.room = @ - 1, !.rd.offset = @ + 1]
<1>1. /\ IsOpen(u) /\ f.call # "idle" /\ name \notin f.rd.seen
      /\ file' = [file EXCEPT ![u] = g]
      /\ scan' = [scan EXCEPT ![u].got[name] = IF @ = 2 THEN 2 ELSE @ + 1]
      /\ UNCHANGED <<cookie, made, cache, at, changes>>
  BY DEF ShowEntry, Reading, Known
<1>2. Holds(u) /\ IsFile(f) /\ IsRd(f.rd) /\ Rd(u) = f.rd
  BY <1>1, CalledHolds
<1>3. /\ IsFile(p) /\ IsRd(p.rd) /\ p.rd.cookie = f.rd.cookie
      /\ p.rd.seen = f.rd.seen \cup {name}
  BY <1>2, NotedIs
<1>4. GoesOn(u, g) /\ name \in g.rd.seen
  <2> HIDE DEF p
  <2>1. \E x, y : g = [p EXCEPT !.room = x, !.rd.offset = y]
    BY Zenon
  <2>2. PICK x, y : g = [p EXCEPT !.room = x, !.rd.offset = y]
    BY <2>1
  <2> DEFINE r == [p.rd EXCEPT !.offset = y]
  <2>3. g = [p EXCEPT !.room = x, !.rd = r]
    BY <1>3, <2>2 DEF IsFile
  <2>4. IsRd(r) /\ r.cookie = p.rd.cookie /\ r.seen = p.rd.seen
    BY <1>3 DEF IsRd
  <2> HIDE DEF r, g
  <2>5. IsFile(g) /\ g.rd = r
    BY <1>3, <2>3 DEF IsFile
  <2> QED BY <1>2, <1>3, <2>4, <2>5 DEF GoesOn
<1> HIDE DEF g, p
<1>5. /\ scan \in [Users -> Scans] /\ scan[u].got \in [Names -> 0 .. 2]
      /\ \A n \in Names : scan[u].got[n] =< 1
      /\ name \in Names => scan[u].got[name] = 0
  BY <1>1, <1>2 DEF Inv, Shapes, Shown, Noting, NoDuplicates, Scans
<1> HIDE DEF name
<1>6. /\ scan' \in [Users -> Scans]
      /\ \A v \in Users : v # u => scan'[v] = scan[v]
      /\ \A n \in Names : scan'[u].got[n] =
            IF n = name THEN scan[u].got[n] + 1 ELSE scan[u].got[n]
  <2> DEFINE old == scan[u].got
             k == IF old[name] = 2 THEN 2 ELSE old[name] + 1
             new == [old EXCEPT ![name] = k]
             c == [scan[u] EXCEPT !.got = new]
  <2>1. scan[u] \in Scans
    BY <1>5
  <2>2. scan' = [scan EXCEPT ![u] = c]
    BY <1>1, <1>5
  <2>3. old \in [Names -> 0 .. 2] /\ \A n \in Names : old[n] =< 1
    BY <1>5
  <2>4. name \in Names => old[name] = 0 /\ k = 1
    BY <1>5
  <2> HIDE DEF old, k
  <2>5. new \in [Names -> 0 .. 2]
    <3>1. CASE name \in Names
      BY <2>3, <2>4, <3>1
    <3>2. CASE name \notin Names
      <4>1. new = old
        BY <2>3, <3>2
      <4> QED BY <2>3, <4>1
    <3> QED BY <3>1, <3>2
  <2>6. \A n \in Names : new[n] = IF n = name THEN old[n] + 1 ELSE old[n]
    BY <2>3, <2>4
  <2> HIDE DEF new
  <2>7. c \in Scans /\ c.got = new
    BY <2>1, <2>5 DEF Scans
  <2> HIDE DEF c
  <2>8. scan' \in [Users -> Scans] /\ scan'[u] = c
        /\ \A v \in Users : v # u => scan'[v] = scan[v]
    BY <1>5, <2>2, <2>7
  <2> QED BY <2>6, <2>7, <2>8 DEF old
<1>7. NoDuplicates'
  BY <1>5, <1>6 DEF Inv, Shown, NoDuplicates
<1>8. \A n \in Names : scan'[u].got[n] > 0 => scan[u].got[n] > 0 \/ n \in g.rd.seen
  BY <1>4, <1>6
<1> QED BY <1>1, <1>2, <1>4, <1>6, <1>7, <1>8, GoingOnKeeps

LEMMA BufferFullKeeps ==
    ASSUME Inv, NEW u \in Users, BufferFull(u)
    PROVE  Inv'
<1> DEFINE r == [file[u].rd EXCEPT !.offset = @ + 1]
           g == Idle(rdstate2offset(r), r)
<1>1. /\ IsOpen(u) /\ file[u].call # "idle"
      /\ file' = [file EXCEPT ![u] = g]
      /\ at' = [at EXCEPT ![u] = rdstate2offset(r)]
      /\ UNCHANGED <<cookie, made, cache, scan, changes>>
  BY DEF BufferFull, Reading
<1>2. Holds(u) /\ IsRd(file[u].rd) /\ Rd(u) = file[u].rd
  BY <1>1, CalledHolds
<1>3. \E y : r = [file[u].rd EXCEPT !.offset = y]
  BY Zenon
<1>4. IsRd(r) /\ r.cookie = Rd(u).cookie /\ r.seen = Rd(u).seen
  <2> HIDE DEF r
  <2> QED BY <1>2, <1>3 DEF IsRd
<1> HIDE DEF r
<1>5. g.rd = r /\ GoesOn(u, g)
  BY <1>4, IdleIs DEF GoesOn
<1> HIDE DEF g
<1> QED BY <1>1, <1>2, <1>5, QuietKeeps

\* What others do to the directory and the branches changes no scan.
LEMMA ChangesKeep ==
    ASSUME Inv, UNCHANGED <<cookie, made, cache, file, at>>,
           NEW out \in SUBSET Names, Watched(out)
    PROVE  Inv'
<1>1. made + changes < Budget /\ changes' = changes + 1
  BY DEF Watched
<1> DEFINE V == Visible'
<1>a. /\ V \subseteq Names
      /\ scan' = [u \in Users |->
                    [scan[u] EXCEPT !.ever = @ \cup V, !.steady = @ \cap V,
                                    !.split = @ \cup out]]
  BY DEF Watched, Visible
<1> HIDE DEF V
<1>2. scan' \in [Users -> Scans] /\ \A v \in Users : scan'[v].got = scan[v].got
  <2>1. ASSUME NEW v \in Users
        PROVE  scan'[v] \in Scans /\ scan'[v].got = scan[v].got
    <3> DEFINE e == scan[v].ever \cup V
               s == scan[v].steady \cap V
               o == scan[v].split \cup out
    <3>1. scan[v] \in Scans
      BY DEF Inv, Shapes
    <3>2. e \in SUBSET Names /\ s \in SUBSET Names /\ o \in SUBSET Names
      BY <1>a, <3>1 DEF Scans
    <3>3. scan'[v] = [scan[v] EXCEPT !.ever = e, !.steady = s, !.split = o]
      BY <1>a
    <3> HIDE DEF e, s, o
    <3> QED BY <3>1, <3>2, <3>3 DEF Scans
  <2> QED BY <1>a, <2>1
<1>3. \A v \in Users : Holds(v)' = Holds(v) /\ Rd(v)' = Rd(v) /\ IsOpen(v)' = IsOpen(v)
  BY DEF Holds, Rd, IsOpen
<1>4. CookieInv' /\ Cached' = Cached
  <2>1. CookieInv'
    <3>1. made \in Nat /\ changes \in Nat /\ cookie = made /\ Budget \in Nat
      BY ReadDirAssumption DEF Inv, CookieInv
    <3>2. made' = made /\ cookie' = cookie
      OBVIOUS
    <3> QED BY <1>1, <3>1, <3>2 DEF CookieInv
  <2> QED BY <2>1 DEF Cached
<1>5. Shapes' /\ OneOwner' /\ OwnMarks'
  BY <1>2, <1>3, <1>4 DEF Inv, Shapes, OneOwner, OwnMarks
<1>6. Shown'
  BY <1>2, <1>3, <1>4 DEF Inv, Shown, Noting, NoDuplicates
<1> QED BY <1>4, <1>5, <1>6 DEF Inv

-----------------------------------------------------------------------------
(* The specification.                                                      *)

LEMMA InitGood ==
    ASSUME Init
    PROVE  Inv
<1>1. CookieInv
  BY ReadDirAssumption DEF Init, CookieInv
<1>2. \A u \in Users : ~IsOpen(u) /\ ~Holds(u)
  BY DEF Init, IsOpen, Holds
<1>3. Cached = {} /\ cache \in Seq(Nat)
  BY DEF Init, Cached
<1>4. \A u \in Users : at[u].cookie = 0
  BY DEF Init, Start
<1>5. scan \in [Users -> Scans] /\ \A u \in Users, n \in Names : scan[u].got[n] = 0
  BY DEF Init, Scans
<1>6. Shapes
  BY <1>2, <1>3, <1>5 DEF Init, Shapes
<1> QED BY <1>1, <1>2, <1>3, <1>4, <1>5, <1>6
        DEF Inv, CookieInv, OneOwner, OwnMarks, Shown, NoDuplicates

LEMMA KernelKeeps ==
    ASSUME Inv, NEW u \in Users, Kernel(u)
    PROVE  Inv'
BY PickBranchKeeps, EndOfScanKeeps, LowerReturnsKeeps, SkipEntryKeeps,
   NoteWhiteoutKeeps, ShowEntryKeeps, BufferFullKeeps DEF Kernel

LEMMA StepKeeps ==
    ASSUME Inv, Budget < MaxCookie, [Next]_vars
    PROVE  Inv'
<1>1. CASE UNCHANGED vars
  <2>1. \A v \in Users : Holds(v)' = Holds(v) /\ Rd(v)' = Rd(v) /\ IsOpen(v)' = IsOpen(v)
    BY <1>1 DEF Holds, Rd, IsOpen, vars
  <2> QED BY <1>1, <2>1
          DEF vars, Inv, CookieInv, Shapes, OneOwner, OwnMarks, Shown, Noting,
              NoDuplicates, Cached
<1>2. ASSUME NEW u \in Users,
             \/ unionfs_open(u) \/ unionfs_file_release(u)
             \/ SeekToStart(u) \/ SeekToCookie(u) \/ Tell(u)
             \/ \E room \in 1 .. MaxRoom : StartCall(u, room)
             \/ Kernel(u)
      PROVE  Inv'
  BY <1>2, OpenKeeps, ReleaseKeeps, SeekToStartKeeps, SeekToCookieKeeps,
     TellKeeps, StartCallKeeps, KernelKeeps
<1>3. ASSUME NEW n \in Names, create(n) \/ unlink(n) \/ copyup(n)
      PROVE  Inv'
  <2>1. UNCHANGED <<cookie, made, cache, file, at>> /\ Watched({})
    BY <1>3 DEF create, unlink, copyup, Write
  <2> QED BY <2>1, ChangesKeep
<1>4. ASSUME NEW b \in Branch, NEW i, addbranch(b, i)
      PROVE  Inv'
  <2> DEFINE out == {n \in Names : Divides(b, i, n)}
  <2>1. UNCHANGED <<cookie, made, cache, file, at>> /\ Watched(out)
    BY <1>4 DEF addbranch
  <2>2. out \in SUBSET Names
    OBVIOUS
  <2> HIDE DEF out
  <2> QED BY <2>1, <2>2, ChangesKeep
<1> QED BY <1>1, <1>2, <1>3, <1>4, PruningKeeps DEF Next

\* No scan shows a name twice, unless so many are begun that the cookies wrap.
THEOREM NoRepeats ==
    ASSUME Budget < MaxCookie
    PROVE  Spec => []NoDuplicates
<1>1. Init => Inv
  BY InitGood
<1>2. Inv /\ [Next]_vars => Inv'
  BY StepKeeps
<1>3. Inv => NoDuplicates
  BY DEF Inv, Shown
<1> QED BY <1>1, <1>2, <1>3, PTL DEF Spec
=============================================================================
