------------------------- MODULE ReadDirScans_proofs -------------------------
(***************************************************************************)
(* Proofs about ReadDir, for any users, names, branches and lower          *)
(* directories: the types, that a scan misses no name that was there all   *)
(* the time, but for those whose copies an inserted whiteout divides, and  *)
(* that it shows none that never was.                                      *)
(*                                                                         *)
(* What a scan still has to read is a set of slots.  Every step but the    *)
(* reading of a slot keeps it or adds to it, wherever the rdstate is and   *)
(* however the branches move under its position.                           *)
(***************************************************************************)
EXTENDS ReadDir_proofs, FiniteSetTheorems

\* The lower directories that a user's file goes through.
List(u) == IF file[u].call = "idle" THEN table ELSE file[u].low

\* The slots of branches in list t that are ahead of rdstate r.
Ahead(t, r, b, s) ==
    \E i \in 1 .. Len(t) :
        t[i] = b /\ (i > r.bindex \/ (i = r.bindex /\ s > r.dirpos))
Todo(t, r) == {x \in (Branch \ Dirless) \X (1 .. Slots) : Ahead(t, r, x[1], x[2])}

\* Different branches, of which the leftmost has the directory.
TableGood ==
    /\ table \in Seq(Branch) /\ table # <<>>
    /\ \A p, q \in 1 .. Len(table) : table[p] = table[q] => p = q
    /\ table[1] \in Writable \ Dirless

\* The lower directories of a call are branches of the union, in their order; a
\* lower call that ends early has come to the end of its directory.
CallGood(f) ==
    /\ f.rd # NoState
    /\ f.low # <<>> /\ f.low[1] # None
    /\ \A i \in 1 .. Len(f.low) : f.low[i] # None =>
            f.low[i] \notin Dirless /\ \E p \in i .. Len(table) : table[p] = f.low[i]
    /\ \A i, j \in 1 .. Len(f.low), p, q \in 1 .. Len(table) :
            i < j /\ table[p] = f.low[i] /\ table[q] = f.low[j] => p < q
    /\ f.call = "lower" =>
            /\ f.rd.bindex \in 1 .. Len(f.low) /\ f.low[f.rd.bindex] # None
            /\ Chunk >= Slots => f.left + f.rd.dirpos >= Slots

TypeInv ==
    /\ TypeOK
    /\ TableGood
    /\ \A u \in Users : InCall(u) => CallGood(file[u])

\* Entries of names, and the order of branches in table t.
Live(d, x, n) == d[x[1]][x[2]] = [name |-> n, wh |-> FALSE]
White(d, x, n) == d[x[1]][x[2]] = [name |-> n, wh |-> TRUE]
In(t, b) == \E p \in 1 .. Len(t) : t[p] = b
Before(t, a, b) == \E p, q \in 1 .. Len(t) : p < q /\ t[p] = a /\ t[q] = b
Places(t) == {x \in (Branch \ Dirless) \X (1 .. Slots) : In(t, x[1])}
LeftOf(t, b) == {x \in Places(t) : Before(t, x[1], b)}

\* Left of branch b no whiteout hides n; no entry shows it; there is neither.
Clear(d, t, b, n) == In(t, b) /\ \A x \in LeftOf(t, b) : ~White(d, x, n)
Dark(d, t, b, n) == In(t, b) /\ \A x \in LeftOf(t, b) : ~Live(d, x, n)
Unnamed(d, t, b, n) == Clear(d, t, b, n) /\ Dark(d, t, b, n)

\* Among the slots T is one with n that will be shown.
Coming(d, t, n, T) == \E x \in T : Live(d, x, n) /\ Clear(d, t, x[1], n)

\* A whiteout of n in T comes before all that would show n.  Once all branches
\* are there it need not be the leftmost.
Veiled(d, t, n, T) ==
    \/ \A x \in Places(t) : ~Live(d, x, n)
    \/ \E x \in T : White(d, x, n) /\ Dark(d, t, x[1], n)
VeiledFirst(d, t, n, T) ==
    \/ \A x \in Places(t) : ~Live(d, x, n) /\ ~White(d, x, n)
    \/ \E x \in T : White(d, x, n) /\ Unnamed(d, t, x[1], n)

\* At most one branch can be inserted.
OneToInsert == \A b, c \in Branch : In(Mounted, b) \/ In(Mounted, c) \/ b = c
Full(t) == \A b \in Branch : In(t, b)

\* What was there all the time, with no whiteout inserted among its copies, has
\* been shown or will be: c is the scan, seen the names that are noted, T the
\* slots that are still to be read.
Owed(c) == c.steady \ c.split
Promise(d, t, c, seen, T) ==
    \A n \in Owed(c) : c.got[n] = 0 => n \notin seen /\ Coming(d, t, n, T)

\* What was never there will not be shown.
Denial(d, t, c, seen, T) ==
    \A n \in Names \ c.ever : n \notin seen =>
        Veiled(d, t, n, T) /\ (~Full(t) => VeiledFirst(d, t, n, T))

Good(d, t, c, seen, T) ==
    Promise(d, t, c, seen, T) /\ (OneToInsert => Denial(d, t, c, seen, T))

Outcome(c) ==
    /\ c.done => \A n \in Owed(c) : c.got[n] > 0
    /\ OneToInsert => \A n \in Names : c.got[n] > 0 => n \in c.ever

\* Scan c goes on well with rdstate r in the directories of low; V is what shows.
GoesWell(d, t, V, c, low, r) ==
    Good(d, t, c, r.seen, Todo(low, r)) /\ V \subseteq c.ever

\* So it does with the rdstate that a user holds or could find.
HeldWell(u) == Holds(u) => GoesWell(dir, table, Visible, scan[u], List(u), Rd(u))
CachedWell(u) ==
    \A i \in Cached : cache[i].cookie = at[u].cookie =>
        GoesWell(dir, table, Visible, scan[u], table, cache[i])
ScanWell(u) == scan[u].steady \subseteq Visible /\ Outcome(scan[u])
Branches == OneToInsert => Full(table) \/ table = Mounted

ScanInv ==
    /\ \A u \in Users : HeldWell(u) /\ CachedWell(u) /\ ScanWell(u)
    /\ Branches

-----------------------------------------------------------------------------
(* First and last of a set of positions, and the list of branches.         *)

LEMMA FirstIs ==
    ASSUME NEW S, S \subseteq Nat, S # {}
    PROVE  First(S) \in S /\ \A j \in S : First(S) =< j
<1> DEFINE R == OpToRel(<, Nat)
<1>1. IsWellFoundedOn(R, Nat)
  BY NatLessThanWellFounded
<1>2. \A m, n \in Nat : m < n => <<m, n>> \in R
  BY DEF OpToRel
<1> HIDE DEF R
<1>3. PICK n \in S : \A m \in S : ~ (<<m, n>> \in R)
  BY <1>1, WFMin
<1>4. ASSUME NEW m \in S PROVE n =< m
  <2>1. ~ (m < n) /\ m \in Nat /\ n \in Nat
    BY <1>2, <1>3
  <2> QED BY <2>1
<1> QED BY <1>4 DEF First

\* A bounded set of positions has a last one.
LEMMA LastIs ==
    ASSUME NEW n \in Nat, NEW S, S \subseteq 1 .. n, S # {}
    PROVE  \E k \in S : \A j \in S : j =< k
<1> DEFINE T == {k \in Nat : \A j \in S : j =< k}
<1>1. n \in T
  OBVIOUS
<1>2. First(T) \in T /\ \A j \in T : First(T) =< j
  BY <1>1, FirstIs
<1> DEFINE k == First(T)
<1>3. k \in S
  <2> SUFFICES ASSUME k \notin S PROVE FALSE
    OBVIOUS
  <2>1. PICK i : i \in S
    OBVIOUS
  <2>2. i \in Nat /\ i >= 1 /\ i =< k /\ k \in Nat
    BY <1>2, <2>1
  <2>3. \A j \in S : j =< k - 1
    <3> SUFFICES ASSUME NEW j \in S PROVE j =< k - 1
      OBVIOUS
    <3>1. j =< k /\ j # k /\ j \in Nat
      BY <1>2
    <3> QED BY <2>2, <3>1
  <2>4. k - 1 \in T
    BY <2>2, <2>3
  <2>5. k =< k - 1
    BY <1>2, <2>4
  <2> QED BY <2>2, <2>5
<1> QED BY <1>2, <1>3

LEMMA TableIs ==
    ASSUME TableGood
    PROVE  /\ Len(table) \in Nat \ {0} /\ \A p \in 1 .. Len(table) : table[p] \in Branch
           /\ 1 \in 1 .. Len(table)
BY DEF TableGood

\* The lower directories by position.
LEMMA LowerIs ==
    ASSUME TableGood
    PROVE  /\ Lower \in Seq(Branch \cup {None}) /\ Lower # <<>>
           /\ Len(Lower) = Len(table)
           /\ \A p \in 1 .. Len(table) :
                Lower[p] = IF table[p] \in Dirless THEN None ELSE table[p]
           /\ Lower[1] # None
<1>1. Len(table) \in Nat \ {0} /\ \A p \in 1 .. Len(table) : table[p] \in Branch
  BY TableIs
<1>2. Lower \in [1 .. Len(table) -> Branch \cup {None}]
  BY <1>1 DEF Lower
<1>3. Lower \in Seq(Branch \cup {None}) /\ Len(Lower) = Len(table)
  BY <1>1, <1>2
<1>4. \A p \in 1 .. Len(table) : Lower[p] = IF table[p] \in Dirless THEN None ELSE table[p]
  BY DEF Lower
<1>5. Lower[1] # None
  BY <1>1, <1>4, MarkerAssumption DEF TableGood
<1> QED BY <1>1, <1>3, <1>4, <1>5

LEMMA FbstartIs ==
    ASSUME NEW low \in Seq(Branch \cup {None}), low # <<>>, low[1] # None
    PROVE  fbstart(low) = 1
<1> DEFINE S == {i \in 1 .. Len(low) : low[i] # None}
<1>1. 1 \in S /\ S \subseteq Nat
  OBVIOUS
<1>2. First(S) \in S /\ First(S) =< 1
  BY <1>1, FirstIs
<1> QED BY <1>1, <1>2 DEF fbstart

\* The last lower directory.
LEMMA FbendIs ==
    ASSUME NEW low \in Seq(Branch \cup {None}), low # <<>>, low[1] # None
    PROVE  /\ fbend(low) \in 1 .. Len(low) /\ low[fbend(low)] # None
           /\ \A i \in 1 .. Len(low) : low[i] # None => i =< fbend(low)
<1> DEFINE S == {i \in 1 .. Len(low) : low[i] # None}
<1>1. Len(low) \in Nat /\ S \subseteq 1 .. Len(low) /\ 1 \in S
  OBVIOUS
<1>2. PICK k \in S : \A j \in S : j =< k
  BY <1>1, LastIs
<1>3. /\ k \in 1 .. Len(low) /\ low[k] # None
      /\ \A j \in k + 1 .. Len(low) : low[j] = None
  BY <1>1, <1>2
<1> DEFINE e == fbend(low)
<1>4. e \in 1 .. Len(low) /\ low[e] # None /\ \A j \in e + 1 .. Len(low) : low[j] = None
  BY <1>3 DEF fbend
<1> HIDE DEF e
<1>5. ASSUME NEW i \in 1 .. Len(low), low[i] # None PROVE i =< e
  <2>1. i \notin e + 1 .. Len(low)
    BY <1>4, <1>5
  <2> QED BY <1>1, <1>4, <2>1
<1> QED BY <1>4, <1>5 DEF e

\* The table after a branch has been inserted.
Inserted(b, i) == SubSeq(table, 1, i - 1) \o <<b>> \o SubSeq(table, i, Len(table))

LEMMA InsertIs ==
    ASSUME TableGood, NEW b \in Branch, NEW i \in 1 .. Len(table) + 1
    PROVE  /\ Inserted(b, i) \in Seq(Branch) /\ Len(Inserted(b, i)) = Len(table) + 1
           /\ \A p \in 1 .. Len(table) + 1 :
                Inserted(b, i)[p] =
                    IF p < i THEN table[p] ELSE IF p = i THEN b ELSE table[p - 1]
<1>1. Len(table) \in Nat \ {0} /\ table \in Seq(Branch)
  BY TableIs DEF TableGood
<1> DEFINE x == SubSeq(table, 1, i - 1)
           y == SubSeq(table, i, Len(table))
<1>2. x \in Seq(Branch) /\ Len(x) = i - 1 /\ \A p \in 1 .. i - 1 : x[p] = table[p]
  BY <1>1
<1>3. /\ y \in Seq(Branch) /\ Len(y) = Len(table) - i + 1
      /\ \A p \in 1 .. Len(table) - i + 1 : y[p] = table[p + i - 1]
  BY <1>1
<1> HIDE DEF x, y
<1> DEFINE z == x \o <<b>>
<1>4. z \in Seq(Branch) /\ Len(z) = i /\ \A p \in 1 .. i : z[p] = IF p < i THEN x[p] ELSE b
  BY <1>1, <1>2
<1> HIDE DEF z
<1> DEFINE w == z \o y
<1>5. /\ w \in Seq(Branch) /\ Len(w) = Len(table) + 1
      /\ \A p \in 1 .. Len(table) + 1 : w[p] = IF p =< i THEN z[p] ELSE y[p - i]
  BY <1>1, <1>3, <1>4
<1> HIDE DEF w
<1>6. ASSUME NEW p \in 1 .. Len(table) + 1
      PROVE  w[p] = IF p < i THEN table[p] ELSE IF p = i THEN b ELSE table[p - 1]
  <2>0. p \in Nat /\ i \in Nat /\ p =< Len(table) + 1 /\ i =< Len(table) + 1 /\ p >= 1
    BY <1>1
  <2>1. CASE p < i
    <3>1. p \in 1 .. i - 1 /\ p \in 1 .. i /\ p =< i
      BY <2>0, <2>1
    <3>2. x[p] = table[p]
      BY <1>2, <3>1
    <3>3. z[p] = x[p]
      BY <1>4, <2>1, <3>1
    <3>4. w[p] = z[p]
      BY <1>5, <3>1
    <3> QED BY <2>1, <3>2, <3>3, <3>4
  <2>2. CASE p = i
    BY <1>4, <1>5, <2>0, <2>2
  <2>3. CASE p > i
    <3>1. w[p] = y[p - i] /\ p - i \in 1 .. Len(table) - i + 1
      BY <1>1, <1>5, <2>0, <2>3
    <3>2. y[p - i] = table[p - i + i - 1] /\ p - i + i - 1 = p - 1
      BY <1>1, <1>3, <2>0, <3>1
    <3> QED BY <2>0, <2>3, <3>1, <3>2
  <2> QED BY <2>0, <2>1, <2>2, <2>3
<1>7. Inserted(b, i) = w
  BY DEF x, y, z, w, Inserted
<1> QED BY <1>5, <1>6, <1>7

-----------------------------------------------------------------------------
(* Files and rdstates, step by step.                                       *)

LEMMA NextTypes ==
    ASSUME NEW r \in RdStates
    PROVE  /\ NextBranch(r) \in RdStates
           /\ NextBranch(r).bindex = r.bindex + 1 /\ NextBranch(r).dirpos = 0
           /\ NextBranch(r).seen = r.seen /\ NextBranch(r).cookie = r.cookie
<1> DEFINE b == r.bindex + 1
<1>1. NextBranch(r) = [r EXCEPT !.bindex = b, !.dirpos = 0]
  BY DEF NextBranch, RdStates
<1>2. b \in Nat \ {0} /\ 0 \in 0 .. Slots
  BY ReadDirAssumption DEF RdStates
<1> HIDE DEF b
<1>3. /\ NextBranch(r) \in RdStates /\ NextBranch(r).bindex = b
      /\ NextBranch(r).dirpos = 0 /\ NextBranch(r).seen = r.seen
      /\ NextBranch(r).cookie = r.cookie
  BY <1>1, <1>2 DEF RdStates
<1> QED BY <1>3 DEF b

LEMMA InitTypes ==
    ASSUME NEW low \in Seq(Branch \cup {None}), low # <<>>, low[1] # None,
           cookie \in 0 .. MaxCookie - 1
    PROVE  /\ init_rdstate(low) \in RdStates
           /\ init_rdstate(low).bindex = 1 /\ init_rdstate(low).dirpos = 0
           /\ init_rdstate(low).seen = {}
           /\ NextCookie \in 1 .. MaxCookie - 1
<1>1. NextCookie \in 1 .. MaxCookie - 1
  BY ReadDirAssumption DEF NextCookie
<1>2. fbstart(low) = 1
  BY FbstartIs
<1>3. 0 \in 0 .. Slots /\ {} \in SUBSET Names
  BY ReadDirAssumption
<1> QED BY <1>1, <1>2, <1>3 DEF init_rdstate, RdStates

LEMMA IdleTypes ==
    ASSUME NEW p \in Positions, NEW r \in RdStates \cup {NoState}
    PROVE  /\ Idle(p, r) \in Files /\ Idle(p, r).call = "idle" /\ Idle(p, r).rd = r
           /\ Idle(p, r).pos = p
BY DEF Idle, Files

LEMMA PositionTypes ==
    /\ Start \in Positions /\ DIREOF \in Positions
    /\ \A r \in RdStates : rdstate2offset(r) \in Positions
BY ReadDirAssumption DEF Start, DIREOF, Positions, RdStates, rdstate2offset

\* The file at the start of a call.
Called(f, low, room, r) ==
    [f EXCEPT !.low = low, !.call = "loop", !.room = room, !.rd = r]

LEMMA CallTypes ==
    ASSUME NEW f \in Files, NEW low, low \in Seq(Branch \cup {None}), NEW room \in Nat,
           NEW r, r \in RdStates
    PROVE  /\ Called(f, low, room, r) \in Files /\ Called(f, low, room, r).low = low
           /\ Called(f, low, room, r).call = "loop" /\ Called(f, low, room, r).rd = r
BY DEF Files, Called

LEMMA PassedTypes ==
    ASSUME NEW f \in Files, f.rd \in RdStates, f.rd.dirpos < Slots, f.left > 0
    PROVE  /\ Passed(f) \in Files /\ Passed(f).rd \in RdStates
           /\ Passed(f).rd.bindex = f.rd.bindex
           /\ Passed(f).rd.dirpos = f.rd.dirpos + 1 /\ Passed(f).left = f.left - 1
           /\ Passed(f).rd.seen = f.rd.seen /\ Passed(f).rd.cookie = f.rd.cookie
           /\ Passed(f).low = f.low /\ Passed(f).call = f.call /\ Passed(f).room = f.room
<1> DEFINE d == f.rd.dirpos + 1
           l == f.left - 1
           r == [f.rd EXCEPT !.dirpos = d]
<1>1. d \in 0 .. Slots /\ l \in Nat
  BY ReadDirAssumption DEF Files, RdStates
<1>2. Passed(f) = [f EXCEPT !.rd = r, !.left = l]
  BY DEF Passed, Files
<1> HIDE DEF d, l
<1>3. /\ r \in RdStates /\ r.bindex = f.rd.bindex /\ r.dirpos = d /\ r.seen = f.rd.seen
      /\ r.cookie = f.rd.cookie
  BY <1>1 DEF RdStates
<1> HIDE DEF r
<1>4. /\ Passed(f) \in Files /\ Passed(f).rd = r /\ Passed(f).left = l
      /\ Passed(f).low = f.low /\ Passed(f).call = f.call /\ Passed(f).room = f.room
  BY <1>1, <1>2, <1>3 DEF Files
<1> QED BY <1>3, <1>4 DEF d, l

LEMMA NotedTypes ==
    ASSUME NEW f \in Files, f.rd \in RdStates, f.rd.dirpos < Slots, f.left > 0,
           NEW n \in Names
    PROVE  /\ Noted(f, n) \in Files /\ Noted(f, n).rd \in RdStates
           /\ Noted(f, n).rd.bindex = f.rd.bindex
           /\ Noted(f, n).rd.dirpos = f.rd.dirpos + 1 /\ Noted(f, n).left = f.left - 1
           /\ Noted(f, n).rd.seen = f.rd.seen \cup {n}
           /\ Noted(f, n).rd.cookie = f.rd.cookie
           /\ Noted(f, n).low = f.low /\ Noted(f, n).call = f.call
           /\ Noted(f, n).room = f.room
<1> DEFINE p == Passed(f)
           r == [p.rd EXCEPT !.seen = @ \cup {n}]
<1>1. /\ p \in Files /\ p.rd \in RdStates /\ p.rd.bindex = f.rd.bindex
      /\ p.rd.dirpos = f.rd.dirpos + 1 /\ p.left = f.left - 1
      /\ p.rd.seen = f.rd.seen /\ p.rd.cookie = f.rd.cookie
      /\ p.low = f.low /\ p.call = f.call /\ p.room = f.room
  BY PassedTypes
<1>2. Noted(f, n) = [p EXCEPT !.rd = r, !.written = TRUE]
  BY <1>1 DEF Noted, Files
<1> HIDE DEF p
<1>3. /\ r \in RdStates /\ r.bindex = p.rd.bindex /\ r.dirpos = p.rd.dirpos
      /\ r.cookie = p.rd.cookie /\ r.seen = p.rd.seen \cup {n}
  BY <1>1 DEF RdStates
<1> HIDE DEF r
<1>4. /\ Noted(f, n) \in Files /\ Noted(f, n).rd = r /\ Noted(f, n).left = p.left
      /\ Noted(f, n).low = p.low /\ Noted(f, n).call = p.call /\ Noted(f, n).room = p.room
  BY <1>1, <1>2, <1>3 DEF Files
<1> QED BY <1>1, <1>3, <1>4

\* The file after an entry has been shown, in which the buffer has got smaller.
Told(p) == [p EXCEPT !.room = @ - 1, !.rd.offset = @ + 1]

LEMMA ToldTypes ==
    ASSUME NEW p \in Files, p.rd \in RdStates, p.room > 0
    PROVE  /\ Told(p) \in Files /\ Told(p).rd \in RdStates
           /\ Told(p).rd.bindex = p.rd.bindex /\ Told(p).rd.dirpos = p.rd.dirpos
           /\ Told(p).rd.seen = p.rd.seen /\ Told(p).rd.cookie = p.rd.cookie
           /\ Told(p).left = p.left /\ Told(p).low = p.low /\ Told(p).call = p.call
<1> DEFINE o == p.rd.offset + 1
           m == p.room - 1
           r == [p.rd EXCEPT !.offset = o]
<1>1. o \in Nat /\ m \in Nat
  BY DEF Files, RdStates
<1>2. Told(p) = [p EXCEPT !.room = m, !.rd = r]
  BY DEF Told, Files
<1> HIDE DEF o, m
<1>3. /\ r \in RdStates /\ r.bindex = p.rd.bindex /\ r.dirpos = p.rd.dirpos
      /\ r.seen = p.rd.seen /\ r.cookie = p.rd.cookie
  BY <1>1 DEF RdStates
<1> HIDE DEF r
<1> QED BY <1>1, <1>2, <1>3 DEF Files

\* The rdstate when the buffer is full.
Counted(r) == [r EXCEPT !.offset = @ + 1]

LEMMA CountedTypes ==
    ASSUME NEW r \in RdStates
    PROVE  /\ Counted(r) \in RdStates
           /\ Counted(r).bindex = r.bindex /\ Counted(r).dirpos = r.dirpos
           /\ Counted(r).seen = r.seen /\ Counted(r).cookie = r.cookie
BY DEF Counted, RdStates

-----------------------------------------------------------------------------
(* Types.                                                                  *)

LEMMA CallMeans ==
    ASSUME TypeInv, NEW u \in Users, IsOpen(u)
    PROVE  /\ file[u] \in Files
           /\ file[u].rd # NoState => file[u].rd \in RdStates
           /\ file[u].call # "idle" => CallGood(file[u]) /\ file[u].rd \in RdStates
BY DEF TypeInv, TypeOK, IsOpen, InCall, CallGood, Files

\* One file changes, the directory and its branches do not.
LEMMA FileStep ==
    ASSUME TypeInv, NEW u \in Users, NEW g \in Files \cup {Closed},
           g # Closed /\ g.call # "idle" => CallGood(g),
           file' = [file EXCEPT ![u] = g],
           UNCHANGED <<dir, table>>,
           cookie' \in 0 .. MaxCookie - 1, made' \in 0 .. Budget,
           changes' \in 0 .. Budget, cache' \in Seq(RdStates),
           at' \in [Users -> Positions], scan' \in [Users -> Scans], oops' \in BOOLEAN
    PROVE  TypeInv'
<1>1. file \in [Users -> Files \cup {Closed}] /\ TableGood
  BY DEF TypeInv, TypeOK
<1>2. /\ file' \in [Users -> Files \cup {Closed}] /\ file'[u] = g
      /\ \A v \in Users : v # u => file'[v] = file[v]
  BY <1>1
<1>3. TypeOK'
  BY <1>2 DEF TypeInv, TypeOK, Scans
<1>4. TableGood'
  BY <1>1 DEF TableGood
<1>5. ASSUME NEW v \in Users, InCall(v)' PROVE CallGood(file[v])'
  <2>1. CASE v = u
    BY <1>2, <1>5, <2>1 DEF InCall, IsOpen, CallGood
  <2>2. CASE v # u
    <3>1. CallGood(file[v])
      BY <1>2, <1>5, <2>2 DEF InCall, IsOpen, TypeInv
    <3> QED BY <1>2, <2>2, <3>1 DEF CallGood
  <2> QED BY <2>1, <2>2
<1> QED BY <1>3, <1>4, <1>5 DEF TypeInv

\* The rest of the state stays as it is, or changes in a well typed way.
LEMMA TypesAre ==
    ASSUME TypeInv
    PROVE  /\ cookie \in 0 .. MaxCookie - 1 /\ made \in 0 .. Budget
           /\ changes \in 0 .. Budget /\ cache \in Seq(RdStates)
           /\ at \in [Users -> Positions] /\ scan \in [Users -> Scans]
           /\ oops \in BOOLEAN /\ TableGood
BY DEF TypeInv, TypeOK, Scans

LEMMA VisibleIs == Visible \subseteq Names
BY DEF Visible

LEMMA NewScanTypes ==
    ASSUME TypeInv, NEW u \in Users, NewScan(u), Allocates
    PROVE  /\ at' \in [Users -> Positions] /\ scan' \in [Users -> Scans]
           /\ made' \in 0 .. Budget /\ cookie' \in 0 .. MaxCookie - 1
<1>1. at' \in [Users -> Positions]
  BY TypesAre, PositionTypes DEF NewScan
<1> DEFINE c == [got |-> [n \in Names |-> 0], ever |-> Visible, steady |-> Visible,
                 split |-> {}, done |-> FALSE]
<1>2. c \in Scans
  BY VisibleIs DEF Scans
<1>3. scan' = [scan EXCEPT ![u] = c]
  BY DEF NewScan
<1> HIDE DEF c
<1>4. scan' \in [Users -> Scans]
  BY <1>2, <1>3, TypesAre
<1>5. made' \in 0 .. Budget
  <2>1. made' = made + 1 /\ made + changes < Budget /\ made \in 0 .. Budget
        /\ changes \in 0 .. Budget /\ Budget \in Nat
    BY TypesAre, ReadDirAssumption DEF Allocates
  <2> QED BY <2>1
<1>6. cookie' \in 0 .. MaxCookie - 1
  BY TypesAre, ReadDirAssumption DEF Allocates, NextCookie
<1> QED BY <1>1, <1>4, <1>5, <1>6

\* A file between calls.
LEMMA IdleStep ==
    ASSUME TypeInv, NEW u \in Users, NEW g \in Files \cup {Closed},
           g = Closed \/ g.call = "idle",
           file' = [file EXCEPT ![u] = g],
           UNCHANGED <<dir, table, changes>>,
           cookie' \in 0 .. MaxCookie - 1, made' \in 0 .. Budget,
           cache' \in Seq(RdStates), oops' \in BOOLEAN,
           at' \in [Users -> Positions], scan' \in [Users -> Scans]
    PROVE  TypeInv'
BY TypesAre, FileStep

LEMMA OpenTypes == ASSUME TypeInv, NEW u \in Users, unionfs_open(u) PROVE TypeInv'
<1>1. Idle(Start, NoState) \in Files /\ Idle(Start, NoState).call = "idle"
  BY PositionTypes, IdleTypes
<1> QED BY <1>1, TypesAre, IdleStep DEF unionfs_open

LEMMA ReleaseTypes ==
    ASSUME TypeInv, NEW u \in Users, unionfs_file_release(u) PROVE TypeInv'
<1>1. cache' \in Seq(RdStates)
  BY TypesAre, CallMeans DEF unionfs_file_release
<1> QED BY <1>1, TypesAre, IdleStep DEF unionfs_file_release

LEMMA WriteInodeTypes == ASSUME TypeInv, unionfs_write_inode PROVE TypeInv'
<1>1. cache' \in Seq(RdStates)
  BY TypesAre DEF unionfs_write_inode
<1>2. TypeOK'
  BY <1>1 DEF TypeInv, TypeOK, unionfs_write_inode
<1>3. TableGood'
  BY DEF TypeInv, TableGood, unionfs_write_inode
<1>4. \A u \in Users : InCall(u)' => CallGood(file[u])'
  BY DEF TypeInv, InCall, IsOpen, CallGood, unionfs_write_inode
<1> QED BY <1>2, <1>3, <1>4 DEF TypeInv

\* The rdstate of a file between calls.
LEMMA RdSet ==
    ASSUME NEW f \in Files, NEW r \in RdStates
    PROVE  [f EXCEPT !.rd = r] \in Files /\ [f EXCEPT !.rd = r].call = f.call
BY DEF Files

LEMMA RdStep ==
    ASSUME TypeInv, NEW u \in Users, IsOpen(u), ~InCall(u), NEW r \in RdStates,
           file' = [file EXCEPT ![u].rd = r],
           UNCHANGED <<dir, table, changes>>,
           cookie' \in 0 .. MaxCookie - 1, made' \in 0 .. Budget,
           cache' \in Seq(RdStates), oops' \in BOOLEAN,
           at' \in [Users -> Positions], scan' \in [Users -> Scans]
    PROVE  TypeInv'
<1> DEFINE g == [file[u] EXCEPT !.rd = r]
<1>1. g \in Files /\ g.call = "idle"
  BY CallMeans, RdSet DEF InCall
<1>2. file' = [file EXCEPT ![u] = g]
  OBVIOUS
<1> HIDE DEF g
<1> QED BY <1>1, <1>2, IdleStep

LEMMA SeekToStartTypes ==
    ASSUME TypeInv, NEW u \in Users, SeekToStart(u) PROVE TypeInv'
<1>1. init_rdstate(Lower) \in RdStates
  BY TypesAre, LowerIs, InitTypes
<1>2. /\ at' \in [Users -> Positions] /\ scan' \in [Users -> Scans]
      /\ made' \in 0 .. Budget /\ cookie' \in 0 .. MaxCookie - 1
  BY NewScanTypes DEF SeekToStart
<1> QED BY <1>1, <1>2, TypesAre, RdStep DEF SeekToStart

LEMMA WithoutTypes ==
    ASSUME NEW S, NEW s \in Seq(S), NEW k \in 1 .. Len(s)
    PROVE  Without(s, k) \in Seq(S)
<1>1. SubSeq(s, 1, k - 1) \in Seq(S) /\ SubSeq(s, k + 1, Len(s)) \in Seq(S)
  OBVIOUS
<1> QED BY <1>1 DEF Without

LEMMA SeekToCookieTypes ==
    ASSUME TypeInv, NEW u \in Users, SeekToCookie(u) PROVE TypeInv'
<1>1. PICK i \in find_rdstate(at[u]) :
        /\ file' = [file EXCEPT ![u].rd = cache[i]]
        /\ cache' = Without(cache, i)
  BY DEF SeekToCookie
<1>2. i \in 1 .. Len(cache) /\ cache \in Seq(RdStates)
  BY TypesAre DEF find_rdstate
<1>3. cache[i] \in RdStates /\ cache' \in Seq(RdStates)
  BY <1>1, <1>2, WithoutTypes
<1> QED BY <1>1, <1>3, TypesAre, RdStep DEF SeekToCookie

LEMMA TellTypes == ASSUME TypeInv, NEW u \in Users, Tell(u) PROVE TypeInv'
<1>1. file[u] \in Files
  BY CallMeans DEF Tell
<1>2. at' \in [Users -> Positions] /\ oops' \in BOOLEAN
  BY <1>1, TypesAre DEF Tell, Files
<1>3. TypeOK'
  BY <1>2 DEF TypeInv, TypeOK, Tell
<1>4. TableGood'
  BY DEF TypeInv, TableGood, Tell
<1>5. UNCHANGED <<file, table>>
  BY DEF Tell
<1>6. ASSUME NEW v \in Users, InCall(v)' PROVE CallGood(file[v])'
  <2>1. CallGood(file[v])
    BY <1>5, <1>6 DEF TypeInv, InCall, IsOpen
  <2> QED BY <1>5, <2>1 DEF CallGood
<1> QED BY <1>3, <1>4, <1>6 DEF TypeInv

\* At the start of a call the lower directories are those of the union.
LEMMA LowerGood ==
    ASSUME TableGood, NEW f, f.rd # NoState, f.low = Lower, f.call = "loop"
    PROVE  CallGood(f)
<1>1. /\ Len(table) \in Nat \ {0} /\ 1 \in 1 .. Len(table)
      /\ \A p \in 1 .. Len(table) : table[p] \in Branch
  BY TableIs
<1>2. /\ Lower # <<>> /\ Lower[1] # None /\ Len(Lower) = Len(table)
      /\ \A p \in 1 .. Len(table) :
            Lower[p] = IF table[p] \in Dirless THEN None ELSE table[p]
  BY LowerIs
<1>3. ASSUME NEW i \in 1 .. Len(Lower), Lower[i] # None
      PROVE  Lower[i] = table[i] /\ table[i] \notin Dirless /\ i \in i .. Len(table)
  BY <1>1, <1>2, <1>3
<1>4. ASSUME NEW i \in 1 .. Len(Lower), NEW j \in 1 .. Len(Lower),
             NEW p \in 1 .. Len(table), NEW q \in 1 .. Len(table),
             i < j, table[p] = Lower[i], table[q] = Lower[j]
      PROVE  p < q
  <2>1. table[p] # None /\ table[q] # None
    BY <1>1, MarkerAssumption
  <2>2. table[i] = table[p] /\ table[j] = table[q] /\ i \in 1 .. Len(table)
        /\ j \in 1 .. Len(table)
    BY <1>2, <1>3, <1>4, <2>1
  <2> QED BY <1>4, <2>2 DEF TableGood
<1> QED BY <1>2, <1>3, <1>4 DEF CallGood

\* A call begins, with an rdstate that there was or a new one.
LEMMA CalledGood ==
    ASSUME TypeInv, NEW u \in Users, IsOpen(u), NEW r, r \in RdStates, NEW room \in Nat
    PROVE  /\ Called(file[u], Lower, room, r) \in Files
           /\ CallGood(Called(file[u], Lower, room, r))
<1> DEFINE f == file[u]
           l == Lower
           g == Called(f, l, room, r)
<1>1. f \in Files /\ l \in Seq(Branch \cup {None})
  BY CallMeans, LowerIs, TypesAre
<1> HIDE DEF f, l
<1>2. g \in Files /\ g.low = l /\ g.call = "loop" /\ g.rd = r
  BY <1>1, CallTypes
<1> HIDE DEF g
<1>3. CallGood(g)
  BY <1>2, LowerGood, TypesAre, MarkerAssumption DEF l
<1> QED BY <1>2, <1>3 DEF f, l, g

LEMMA CallStep ==
    ASSUME TypeInv, NEW u \in Users, IsOpen(u), NEW r, r \in RdStates, NEW room \in Nat,
           file' = [file EXCEPT ![u] = Called(file[u], Lower, room, r)],
           UNCHANGED <<dir, table, changes>>,
           cookie' \in 0 .. MaxCookie - 1, made' \in 0 .. Budget,
           cache' \in Seq(RdStates), oops' \in BOOLEAN,
           at' \in [Users -> Positions], scan' \in [Users -> Scans]
    PROVE  TypeInv'
<1> DEFINE g == Called(file[u], Lower, room, r)
<1>1. g \in Files /\ CallGood(g)
  BY CalledGood
<1>2. file' = [file EXCEPT ![u] = g]
  OBVIOUS
<1> HIDE DEF g
<1> QED BY <1>1, <1>2, TypesAre, FileStep

\* StartCall names the fields one by one.
LEMMA CallIs ==
    ASSUME TypeInv, NEW u \in Users, NEW room, StartCall(u, room)
    PROVE  /\ IsOpen(u) /\ UNCHANGED <<dir, table, cache, changes, oops>>
           /\ \/ /\ file[u].rd # NoState /\ UNCHANGED <<cookie, made, at, scan>>
                 /\ file' = [file EXCEPT ![u] = Called(file[u], Lower, room, file[u].rd)]
              \/ /\ Allocates /\ NewScan(u)
                 /\ file' = [file EXCEPT ![u] =
                                Called(file[u], Lower, room, init_rdstate(Lower))]
<1> DEFINE l == Lower
<1>1. IsOpen(u) /\ UNCHANGED <<dir, table, cache, changes, oops>>
  BY DEF StartCall
<1>2. \/ /\ file[u].rd # NoState /\ UNCHANGED <<cookie, made, at, scan>>
         /\ file' = [file EXCEPT ![u].low = l, ![u].call = "loop", ![u].room = room]
      \/ /\ Allocates /\ NewScan(u)
         /\ file' = [file EXCEPT ![u].low = l, ![u].call = "loop", ![u].room = room,
                                 ![u].rd = init_rdstate(l)]
  BY DEF StartCall
<1>3. file \in [Users -> Files \cup {Closed}] /\ file[u] \in Files
  BY <1>1, CallMeans DEF TypeInv, TypeOK
<1> HIDE DEF l
<1>4. /\ [file EXCEPT ![u].low = l, ![u].call = "loop", ![u].room = room]
            = [file EXCEPT ![u] = Called(file[u], l, room, file[u].rd)]
      /\ [file EXCEPT ![u].low = l, ![u].call = "loop", ![u].room = room,
                      ![u].rd = init_rdstate(l)]
            = [file EXCEPT ![u] = Called(file[u], l, room, init_rdstate(l))]
  BY <1>3 DEF Called, Files
<1>5. \/ /\ file[u].rd # NoState /\ UNCHANGED <<cookie, made, at, scan>>
         /\ file' = [file EXCEPT ![u] = Called(file[u], l, room, file[u].rd)]
      \/ /\ Allocates /\ NewScan(u)
         /\ file' = [file EXCEPT ![u] = Called(file[u], l, room, init_rdstate(l))]
  BY <1>2, <1>4
<1> QED BY <1>1, <1>5 DEF l

LEMMA StartCallTypes ==
    ASSUME TypeInv, NEW u \in Users, NEW room \in Nat, StartCall(u, room) PROVE TypeInv'
<1>1. CASE /\ file[u].rd # NoState /\ UNCHANGED <<cookie, made, at, scan>>
           /\ file' = [file EXCEPT ![u] = Called(file[u], Lower, room, file[u].rd)]
  <2>1. file[u].rd \in RdStates /\ IsOpen(u)
    BY <1>1, CallIs, CallMeans
  <2> QED BY <1>1, <2>1, CallIs, TypesAre, CallStep
<1>2. CASE /\ Allocates /\ NewScan(u)
           /\ file' = [file EXCEPT ![u] =
                            Called(file[u], Lower, room, init_rdstate(Lower))]
  <2>1. init_rdstate(Lower) \in RdStates
    BY TypesAre, LowerIs, InitTypes
  <2>2. /\ at' \in [Users -> Positions] /\ scan' \in [Users -> Scans]
        /\ made' \in 0 .. Budget /\ cookie' \in 0 .. MaxCookie - 1
    BY <1>2, NewScanTypes
  <2> QED BY <1>2, <2>1, <2>2, CallIs, TypesAre, CallStep
<1> QED BY <1>1, <1>2, CallIs

\* The call goes on with the same lower directories.
LEMMA GoodGoesOn ==
    ASSUME NEW f, CallGood(f), NEW g, g.low = f.low, g.rd \in RdStates,
           g.call = "lower" =>
                /\ g.rd.bindex \in 1 .. Len(g.low) /\ g.low[g.rd.bindex] # None
                /\ Chunk >= Slots => g.left + g.rd.dirpos >= Slots
    PROVE  CallGood(g)
BY MarkerAssumption DEF CallGood

\* A step of the kernel changes the file and the rdstate in it.
LEMMA KernelStep ==
    ASSUME TypeInv, NEW u \in Users, IsOpen(u), file[u].call # "idle",
           NEW g \in Files, g.low = file[u].low, g.rd \in RdStates,
           g.call = "lower" =>
                /\ g.rd.bindex \in 1 .. Len(g.low) /\ g.low[g.rd.bindex] # None
                /\ Chunk >= Slots => g.left + g.rd.dirpos >= Slots,
           file' = [file EXCEPT ![u] = g],
           UNCHANGED <<dir, table, cookie, made, cache, at, changes, oops>>,
           scan' \in [Users -> Scans]
    PROVE  TypeInv'
<1>1. CallGood(g)
  BY CallMeans, GoodGoesOn
<1> QED BY <1>1, TypesAre, FileStep

\* The file with another state of the call.
Turned(f, call, r) == [f EXCEPT !.call = call, !.rd = r]
Opened(f) == [f EXCEPT !.call = "lower", !.left = Chunk, !.written = FALSE]

LEMMA TurnedTypes ==
    ASSUME NEW f \in Files, NEW r, r \in RdStates,
           NEW call, call \in {"idle", "loop", "lower"}
    PROVE  /\ Turned(f, call, r) \in Files /\ Turned(f, call, r).low = f.low
           /\ Turned(f, call, r).call = call /\ Turned(f, call, r).rd = r
BY DEF Files, Turned

LEMMA OpenedTypes ==
    ASSUME NEW f \in Files
    PROVE  /\ Opened(f) \in Files /\ Opened(f).low = f.low /\ Opened(f).rd = f.rd
           /\ Opened(f).call = "lower" /\ Opened(f).left = Chunk
BY ReadDirAssumption DEF Files, Opened

\* PickBranch and LowerReturns, as changes of the file.
LEMMA PickIs ==
    ASSUME TypeInv, NEW u \in Users, PickBranch(u)
    PROVE  /\ IsOpen(u) /\ file[u] \in Files /\ file[u].call = "loop" /\ CallGood(file[u])
           /\ file[u].rd \in RdStates /\ file[u].rd.bindex =< fbend(file[u].low)
           /\ \/ /\ file[u].low[file[u].rd.bindex] = None
                 /\ file' = [file EXCEPT ![u] =
                                Turned(file[u], "loop", NextBranch(file[u].rd))]
              \/ /\ file[u].low[file[u].rd.bindex] # None
                 /\ file' = [file EXCEPT ![u] = Opened(file[u])]
           /\ UNCHANGED <<dir, table, cookie, made, cache, at, scan, changes, oops>>
<1>1. /\ IsOpen(u) /\ file[u].call = "loop"
      /\ file[u].rd.bindex =< fbend(file[u].low)
      /\ UNCHANGED <<dir, table, cookie, made, cache, at, scan, changes, oops>>
      /\ file' = [file EXCEPT ![u] =
            IF file[u].low[file[u].rd.bindex] = None
            THEN [file[u] EXCEPT !.rd = NextBranch(@)]
            ELSE [file[u] EXCEPT !.call = "lower", !.left = Chunk, !.written = FALSE]]
  BY DEF PickBranch
<1>2. file[u] \in Files /\ CallGood(file[u]) /\ file[u].rd \in RdStates
  BY <1>1, CallMeans
<1>3. [file[u] EXCEPT !.rd = NextBranch(@)]
        = Turned(file[u], "loop", NextBranch(file[u].rd))
  BY <1>1, <1>2 DEF Turned, Files
<1> QED BY <1>1, <1>2, <1>3 DEF Opened

LEMMA ReturnIs ==
    ASSUME TypeInv, NEW u \in Users, LowerReturns(u)
    PROVE  /\ IsOpen(u) /\ file[u] \in Files /\ file[u].call = "lower" /\ CallGood(file[u])
           /\ file[u].rd \in RdStates
           /\ Chunk >= Slots => file[u].rd.dirpos = Slots
           /\ \E r \in {file[u].rd, NextBranch(file[u].rd)} :
                file' = [file EXCEPT ![u] = Turned(file[u], "loop", r)]
           /\ UNCHANGED <<dir, table, cookie, made, cache, at, scan, changes, oops>>
<1>1. /\ IsOpen(u) /\ file[u].call = "lower" /\ ~Reading(u)
      /\ UNCHANGED <<dir, table, cookie, made, cache, at, scan, changes, oops>>
      /\ file' = [file EXCEPT ![u] = [file[u] EXCEPT !.call = "loop",
                      !.rd = IF file[u].written THEN @ ELSE NextBranch(@)]]
  BY DEF LowerReturns
<1>2. file[u] \in Files /\ CallGood(file[u]) /\ file[u].rd \in RdStates
  BY <1>1, CallMeans
<1>3. [file[u] EXCEPT !.call = "loop", !.rd = IF file[u].written THEN @ ELSE NextBranch(@)]
        \in {Turned(file[u], "loop", file[u].rd),
             Turned(file[u], "loop", NextBranch(file[u].rd))}
  BY <1>2 DEF Turned, Files
<1>4. ASSUME Chunk >= Slots PROVE file[u].rd.dirpos = Slots
  <2>1. file[u].left + file[u].rd.dirpos >= Slots
    BY <1>1, <1>2, <1>4 DEF CallGood
  <2>2. file[u].rd.dirpos \in 0 .. Slots /\ file[u].left \in Nat /\ Slots \in Nat
    BY <1>2, ReadDirAssumption DEF Files, RdStates
  <2>3. ~ (file[u].rd.dirpos < Slots /\ file[u].left > 0)
    BY <1>1 DEF Reading
  <2> QED BY <2>1, <2>2, <2>3
<1> QED BY <1>1, <1>2, <1>3, <1>4

LEMMA PickTypes == ASSUME TypeInv, NEW u \in Users, PickBranch(u) PROVE TypeInv'
<1> DEFINE f == file[u]
           n == NextBranch(f.rd)
           t == Turned(f, "loop", n)
           o == Opened(f)
<1>1. /\ IsOpen(u) /\ f \in Files /\ f.call = "loop" /\ CallGood(f)
      /\ f.rd \in RdStates /\ f.rd.bindex =< fbend(f.low)
      /\ \/ f.low[f.rd.bindex] = None /\ file' = [file EXCEPT ![u] = t]
         \/ f.low[f.rd.bindex] # None /\ file' = [file EXCEPT ![u] = o]
      /\ UNCHANGED <<dir, table, cookie, made, cache, at, scan, changes, oops>>
  BY PickIs
<1>2. scan' \in [Users -> Scans]
  BY <1>1, TypesAre
<1>3. t \in Files /\ t.low = f.low /\ t.call = "loop" /\ t.rd \in RdStates
  BY <1>1, NextTypes, TurnedTypes
<1>4. /\ o \in Files /\ o.low = f.low /\ o.call = "lower" /\ o.rd = f.rd /\ o.left = Chunk
  BY <1>1, OpenedTypes
<1> HIDE DEF t, o
<1>5. CASE file' = [file EXCEPT ![u] = t]
  BY <1>1, <1>2, <1>3, <1>5, KernelStep
<1>6. CASE f.low[f.rd.bindex] # None /\ file' = [file EXCEPT ![u] = o]
  <2>1. f.rd.bindex \in 1 .. Len(f.low)
    <3>1. f.low \in Seq(Branch \cup {None}) /\ f.low # <<>> /\ f.low[1] # None
      BY <1>1 DEF CallGood, Files
    <3>2. fbend(f.low) \in 1 .. Len(f.low) /\ Len(f.low) \in Nat
      BY <3>1, FbendIs
    <3>3. f.rd.bindex \in Nat \ {0}
      BY <1>1 DEF RdStates
    <3> QED BY <1>1, <3>2, <3>3
  <2>2. Chunk >= Slots => o.left + o.rd.dirpos >= Slots
    BY <1>1, <1>4, ReadDirAssumption DEF RdStates
  <2> QED BY <1>1, <1>2, <1>4, <1>6, <2>1, <2>2, KernelStep
<1> QED BY <1>1, <1>5, <1>6

LEMMA ReturnTypes == ASSUME TypeInv, NEW u \in Users, LowerReturns(u) PROVE TypeInv'
<1> DEFINE f == file[u]
<1>1. PICK r \in {f.rd, NextBranch(f.rd)} :
        file' = [file EXCEPT ![u] = Turned(f, "loop", r)]
  BY ReturnIs
<1>2. /\ IsOpen(u) /\ f \in Files /\ f.call = "lower" /\ r \in RdStates
      /\ UNCHANGED <<dir, table, cookie, made, cache, at, scan, changes, oops>>
  BY ReturnIs, NextTypes
<1> DEFINE g == Turned(f, "loop", r)
<1>3. g \in Files /\ g.low = f.low /\ g.call = "loop" /\ g.rd \in RdStates
  BY <1>2, TurnedTypes
<1>4. file' = [file EXCEPT ![u] = g]
  BY <1>1
<1> HIDE DEF g
<1>5. scan' \in [Users -> Scans]
  BY <1>2, TypesAre
<1> QED BY <1>2, <1>3, <1>4, <1>5, KernelStep

\* The scan after something of it has changed.
LEMMA ScanTypes ==
    ASSUME TypeInv, NEW u \in Users, NEW c \in Scans, scan' = [scan EXCEPT ![u] = c]
    PROVE  scan' \in [Users -> Scans]
BY TypesAre

LEMMA EndTypes == ASSUME TypeInv, NEW u \in Users, EndOfScan(u) PROVE TypeInv'
<1>1. Idle(DIREOF, NoState) \in Files /\ Idle(DIREOF, NoState).call = "idle"
  BY PositionTypes, IdleTypes
<1> DEFINE c == [scan[u] EXCEPT !.done = TRUE]
<1>2. c \in Scans /\ scan' = [scan EXCEPT ![u] = c]
  BY TypesAre DEF EndOfScan, Scans
<1> HIDE DEF c
<1>3. at' \in [Users -> Positions] /\ scan' \in [Users -> Scans]
  BY <1>2, ScanTypes, TypesAre, PositionTypes DEF EndOfScan
<1> QED BY <1>1, <1>3, TypesAre, IdleStep DEF EndOfScan

\* A slot that is read is one of a branch of the union.
LEMMA ReadingIs ==
    ASSUME TypeInv, NEW u \in Users, Reading(u)
    PROVE  /\ IsOpen(u) /\ file[u] \in Files /\ file[u].call = "lower"
           /\ file[u].rd \in RdStates /\ CallGood(file[u])
           /\ file[u].rd.dirpos < Slots /\ file[u].left > 0
           /\ file[u].rd.bindex \in 1 .. Len(file[u].low)
           /\ file[u].low[file[u].rd.bindex] \in Branch \ Dirless
           /\ file[u].rd.dirpos + 1 \in 1 .. Slots
           /\ NextSlot(file[u]) \in Entries \cup {NoEntry}
<1> DEFINE f == file[u]
           b == f.low[f.rd.bindex]
<1>1. /\ IsOpen(u) /\ f \in Files /\ f.call = "lower" /\ f.rd \in RdStates /\ CallGood(f)
      /\ f.rd.dirpos < Slots /\ f.left > 0
  BY CallMeans DEF Reading
<1>2. f.rd.bindex \in 1 .. Len(f.low) /\ b # None /\ b \notin Dirless
  BY <1>1 DEF CallGood
<1>3. b \in Branch
  BY <1>1, <1>2 DEF Files
<1>4. f.rd.dirpos + 1 \in 1 .. Slots
  <2>1. f.rd.dirpos \in 0 .. Slots
    BY <1>1 DEF RdStates
  <2>2. Slots \in Nat /\ f.rd.dirpos < Slots
    BY <1>1, ReadDirAssumption
  <2> QED BY ONLY <2>1, <2>2
<1>5. NextSlot(f) \in Entries \cup {NoEntry}
  <2>1. dir[b] \in Directories
    BY <1>3 DEF TypeInv, TypeOK, SoundDirs
  <2> HIDE DEF b
  <2>2. dir[b][f.rd.dirpos + 1] \in Entries \cup {NoEntry}
    BY <1>4, <2>1 DEF Directories
  <2> QED BY <2>2 DEF NextSlot, b
<1> QED BY <1>1, <1>2, <1>3, <1>4, <1>5

\* The step past a slot.
LEMMA PassStep ==
    ASSUME TypeInv, NEW u \in Users, Reading(u),
           NEW g \in Files, g.low = file[u].low, g.rd \in RdStates,
           g.rd.bindex = file[u].rd.bindex, g.rd.dirpos = file[u].rd.dirpos + 1,
           g.left = file[u].left - 1,
           file' = [file EXCEPT ![u] = g],
           UNCHANGED <<dir, table, cookie, made, cache, at, changes, oops>>,
           scan' \in [Users -> Scans]
    PROVE  TypeInv'
<1>1. /\ IsOpen(u) /\ file[u].call = "lower" /\ CallGood(file[u])
      /\ file[u] \in Files /\ file[u].rd \in RdStates
  BY ReadingIs
<1>2. /\ g.rd.bindex \in 1 .. Len(g.low) /\ g.low[g.rd.bindex] # None
      /\ Chunk >= Slots => file[u].left + file[u].rd.dirpos >= Slots
  BY <1>1 DEF CallGood
<1>3. file[u].left \in Nat /\ file[u].rd.dirpos \in Nat
  BY <1>1, ReadDirAssumption DEF Files, RdStates
<1>4. g.left + g.rd.dirpos = file[u].left + file[u].rd.dirpos
  BY <1>3
<1> QED BY <1>1, <1>2, <1>4, KernelStep

LEMMA SkipTypes == ASSUME TypeInv, NEW u \in Users, SkipEntry(u) PROVE TypeInv'
<1> DEFINE g == Passed(file[u])
<1>1. /\ Reading(u) /\ file' = [file EXCEPT ![u] = g]
      /\ UNCHANGED <<dir, table, cookie, made, cache, at, scan, changes, oops>>
  BY DEF SkipEntry
<1>2. /\ g \in Files /\ g.low = file[u].low /\ g.rd \in RdStates
      /\ g.rd.bindex = file[u].rd.bindex /\ g.rd.dirpos = file[u].rd.dirpos + 1
      /\ g.left = file[u].left - 1
  BY <1>1, ReadingIs, PassedTypes
<1> HIDE DEF g
<1>3. scan' \in [Users -> Scans]
  BY <1>1, TypesAre
<1> QED BY <1>1, <1>2, <1>3, PassStep

LEMMA WhiteoutTypes == ASSUME TypeInv, NEW u \in Users, NoteWhiteout(u) PROVE TypeInv'
<1> DEFINE n == NextSlot(file[u]).name
           g == Noted(file[u], n)
<1>1. /\ Reading(u) /\ file' = [file EXCEPT ![u] = g] /\ NextSlot(file[u]) # NoEntry
      /\ UNCHANGED <<dir, table, cookie, made, cache, at, scan, changes, oops>>
  BY DEF NoteWhiteout
<1>2. n \in Names
  BY <1>1, ReadingIs DEF Entries
<1> HIDE DEF n
<1>3. /\ g \in Files /\ g.low = file[u].low /\ g.rd \in RdStates
      /\ g.rd.bindex = file[u].rd.bindex /\ g.rd.dirpos = file[u].rd.dirpos + 1
      /\ g.left = file[u].left - 1
  BY <1>1, <1>2, ReadingIs, NotedTypes
<1> HIDE DEF g
<1>4. scan' \in [Users -> Scans]
  BY <1>1, TypesAre
<1> QED BY <1>1, <1>3, <1>4, PassStep
\* An entry is shown: the file and the scan after it.
LEMMA ShowIs ==
    ASSUME TypeInv, NEW u \in Users, ShowEntry(u)
    PROVE  /\ Reading(u) /\ NextSlot(file[u]) \in Entries /\ ~NextSlot(file[u]).wh
           /\ NextSlot(file[u]).name \notin file[u].rd.seen /\ file[u].room > 0
           /\ file' = [file EXCEPT ![u] =
                            Told(Noted(file[u], NextSlot(file[u]).name))]
           /\ scan' \in [Users -> Scans]
           /\ \A v \in Users : v # u => scan'[v] = scan[v]
           /\ scan'[u].ever = scan[u].ever /\ scan'[u].steady = scan[u].steady
           /\ scan'[u].split = scan[u].split /\ scan'[u].done = scan[u].done
           /\ scan'[u].got[NextSlot(file[u]).name] > 0
           /\ \A m \in Names : m # NextSlot(file[u]).name =>
                                scan'[u].got[m] = scan[u].got[m]
           /\ UNCHANGED <<dir, table, cookie, made, cache, at, changes, oops>>
<1> DEFINE n == NextSlot(file[u]).name
<1>1. /\ Reading(u) /\ NextSlot(file[u]) # NoEntry /\ ~NextSlot(file[u]).wh
      /\ n \notin file[u].rd.seen /\ file[u].room > 0
      /\ file' = [file EXCEPT ![u] = Told(Noted(file[u], n))]
      /\ scan' = [scan EXCEPT ![u].got[n] = IF @ = 2 THEN 2 ELSE @ + 1]
      /\ UNCHANGED <<dir, table, cookie, made, cache, at, changes, oops>>
  BY DEF ShowEntry, Known, Told
<1>2. NextSlot(file[u]) \in Entries /\ n \in Names
  BY <1>1, ReadingIs DEF Entries
<1> HIDE DEF n
<1> DEFINE k == IF scan[u].got[n] = 2 THEN 2 ELSE scan[u].got[n] + 1
           c == [scan[u] EXCEPT !.got = [scan[u].got EXCEPT ![n] = k]]
<1>3. scan[u] \in Scans /\ scan \in [Users -> Scans]
  BY TypesAre
<1>4. scan' = [scan EXCEPT ![u] = c]
  BY <1>1, <1>3
<1>5. k \in 0 .. 2 /\ k > 0
  BY <1>2, <1>3 DEF Scans
<1> HIDE DEF k
<1>6. /\ c \in Scans /\ c.ever = scan[u].ever /\ c.steady = scan[u].steady
      /\ c.split = scan[u].split /\ c.done = scan[u].done /\ c.got[n] = k
      /\ \A m \in Names : m # n => c.got[m] = scan[u].got[m]
  BY <1>2, <1>3, <1>5 DEF Scans
<1> HIDE DEF c
<1>7. /\ scan' \in [Users -> Scans] /\ scan'[u] = c
      /\ \A v \in Users : v # u => scan'[v] = scan[v]
  BY <1>3, <1>4, <1>6
<1>8. /\ scan'[u].ever = scan[u].ever /\ scan'[u].steady = scan[u].steady
      /\ scan'[u].split = scan[u].split /\ scan'[u].done = scan[u].done
      /\ scan'[u].got[n] > 0
      /\ \A m \in Names : m # n => scan'[u].got[m] = scan[u].got[m]
  BY <1>5, <1>6, <1>7
<1> QED BY <1>1, <1>2, <1>7, <1>8 DEF n

LEMMA ShowTypes == ASSUME TypeInv, NEW u \in Users, ShowEntry(u) PROVE TypeInv'
<1> DEFINE n == NextSlot(file[u]).name
           g == Told(Noted(file[u], n))
<1>1. /\ Reading(u) /\ file' = [file EXCEPT ![u] = g] /\ NextSlot(file[u]) \in Entries
      /\ file[u].room > 0 /\ scan' \in [Users -> Scans]
      /\ UNCHANGED <<dir, table, cookie, made, cache, at, changes, oops>>
  BY ShowIs
<1>2. n \in Names
  BY <1>1 DEF Entries
<1> HIDE DEF n
<1> DEFINE h == Noted(file[u], n)
<1>3. /\ h \in Files /\ h.low = file[u].low /\ h.rd \in RdStates
      /\ h.rd.bindex = file[u].rd.bindex /\ h.rd.dirpos = file[u].rd.dirpos + 1
      /\ h.left = file[u].left - 1 /\ h.room = file[u].room
  BY <1>1, <1>2, ReadingIs, NotedTypes
<1> HIDE DEF h
<1>4. /\ Told(h) \in Files /\ Told(h).low = file[u].low /\ Told(h).rd \in RdStates
      /\ Told(h).rd.bindex = file[u].rd.bindex
      /\ Told(h).rd.dirpos = file[u].rd.dirpos + 1
      /\ Told(h).left = file[u].left - 1
  BY <1>1, <1>3, ToldTypes
<1>5. g = Told(h)
  BY DEF h
<1> HIDE DEF g
<1> QED BY <1>1, <1>4, <1>5, PassStep

LEMMA FullTypes == ASSUME TypeInv, NEW u \in Users, BufferFull(u) PROVE TypeInv'
<1> DEFINE r == Counted(file[u].rd)
           g == Idle(rdstate2offset(r), r)
<1>1. /\ Reading(u) /\ file' = [file EXCEPT ![u] = g]
      /\ at' = [at EXCEPT ![u] = rdstate2offset(r)]
      /\ UNCHANGED <<dir, table, cookie, made, cache, scan, changes, oops>>
  BY DEF BufferFull, Counted
<1>2. r \in RdStates
  BY <1>1, ReadingIs, CountedTypes
<1> HIDE DEF r
<1>3. g \in Files /\ g.call = "idle" /\ rdstate2offset(r) \in Positions
  BY <1>2, IdleTypes, PositionTypes
<1> HIDE DEF g
<1>4. at' \in [Users -> Positions]
  BY <1>1, <1>3, TypesAre
<1> QED BY <1>1, <1>3, <1>4, TypesAre, IdleStep

\* What a change of the directory does to the users' scans.
LEMMA WatchedIs ==
    ASSUME TypeInv, NEW out \in SUBSET Names, Watched(out), UNCHANGED made
    PROVE  /\ scan' \in [Users -> Scans] /\ changes' \in 0 .. Budget
           /\ \A u \in Users :
                /\ scan'[u].got = scan[u].got /\ scan'[u].done = scan[u].done
                /\ scan'[u].ever = scan[u].ever \cup Visible'
                /\ scan'[u].steady = scan[u].steady \cap Visible'
                /\ scan'[u].split = scan[u].split \cup out
<1>1. Visible' \subseteq Names
  BY DEF Visible
<1> DEFINE c(u) == [scan[u] EXCEPT !.ever = @ \cup Visible',
                                   !.steady = @ \cap Visible',
                                   !.split = @ \cup out]
<1>2. \A u \in Users : /\ c(u) \in Scans /\ c(u).got = scan[u].got
                       /\ c(u).done = scan[u].done
                       /\ c(u).ever = scan[u].ever \cup Visible'
                       /\ c(u).steady = scan[u].steady \cap Visible'
                       /\ c(u).split = scan[u].split \cup out
  BY <1>1, TypesAre DEF Scans
<1>3. scan' = [u \in Users |-> c(u)]
  BY DEF Watched
<1>4. changes' \in 0 .. Budget
  <2>1. made + changes < Budget /\ changes' = changes + 1
    BY DEF Watched
  <2> QED BY <2>1, TypesAre, ReadDirAssumption
<1> HIDE DEF c
<1> QED BY <1>2, <1>3, <1>4

\* A new entry takes the place of all there was of the name.
LEMMA ReplacedIs ==
    ASSUME NEW d \in SoundDirs, NEW n \in Names, NEW wh \in BOOLEAN,
           NEW x, x \in Replaced(d, n, [name |-> n, wh |-> wh])
    PROVE  /\ x \in SoundDirs
           /\ \E k \in 1 .. Slots :
                /\ x[k] = [name |-> n, wh |-> wh]
                /\ d[k] # NoEntry => d[k].name = n
                /\ \A s \in 1 .. Slots : s # k =>
                        x[s] = IF d[s] # NoEntry /\ d[s].name = n THEN NoEntry ELSE d[s]
<1> DEFINE e == [name |-> n, wh |-> wh]
           c == [i \in 1 .. Slots |-> IF i \in Named(d, n) THEN NoEntry ELSE d[i]]
<1>1. PICK k \in {j \in 1 .. Slots : c[j] = NoEntry} : x = [c EXCEPT ![k] = e]
  BY Zenon DEF Replaced
<1>2. k \in 1 .. Slots /\ c[k] = NoEntry
  BY <1>1
<1>3. \A s \in 1 .. Slots :
        c[s] = IF d[s] # NoEntry /\ d[s].name = n THEN NoEntry ELSE d[s]
  BY DEF Named
<1>4. e \in Entries /\ e # NoEntry /\ e.name = n
  BY MarkerAssumption DEF Entries
<1>5. d \in Directories
  BY DEF SoundDirs
<1>6. \A s \in 1 .. Slots : c[s] \in Entries \cup {NoEntry}
  BY <1>3, <1>5 DEF Directories
<1>7. DOMAIN c = 1 .. Slots /\ c = [s \in 1 .. Slots |-> c[s]]
  OBVIOUS
<1> HIDE DEF c, e
<1>8. /\ x[k] = e /\ x = [s \in 1 .. Slots |-> x[s]]
      /\ \A s \in 1 .. Slots : s # k => x[s] = c[s]
  BY <1>1, <1>2, <1>7
<1>9. x \in Directories
  BY <1>4, <1>6, <1>8 DEF Directories
<1>10. ASSUME NEW i \in 1 .. Slots, NEW j \in 1 .. Slots,
              x[i] # NoEntry, x[j] # NoEntry, x[i].name = x[j].name
       PROVE  i = j
  <2>1. ASSUME NEW s \in 1 .. Slots, s # k, x[s] # NoEntry
        PROVE  x[s] = d[s] /\ d[s] # NoEntry /\ d[s].name # n
    BY <1>3, <1>8, <2>1
  <2>2. CASE i = k
    BY <1>4, <1>8, <1>10, <2>1, <2>2
  <2>3. CASE i # k
    <3>1. j # k
      BY <1>4, <1>8, <1>10, <2>1, <2>3
    <3> QED BY <1>10, <2>1, <2>3, <3>1 DEF SoundDirs
  <2> QED BY <2>2, <2>3
<1>11. x \in SoundDirs
  BY <1>9, <1>10 DEF SoundDirs
<1>12. d[k] # NoEntry => d[k].name = n
  BY <1>2, <1>3
<1> QED BY <1>2, <1>3, <1>8, <1>11, <1>12 DEF e

LEMMA WriteIs ==
    ASSUME TypeInv, NEW i, NEW n \in Names, NEW wh \in BOOLEAN, Write(i, n, wh)
    PROVE  /\ ~BeingRead(table[i]) /\ dir' \in [Branch -> SoundDirs]
           /\ \A b \in Branch : b # table[i] => dir'[b] = dir[b]
           /\ table[i] \in Branch => \E k \in 1 .. Slots :
                /\ dir'[table[i]][k] = [name |-> n, wh |-> wh]
                /\ dir[table[i]][k] # NoEntry => dir[table[i]][k].name = n
                /\ \A s \in 1 .. Slots : s # k =>
                        dir'[table[i]][s] =
                            IF dir[table[i]][s] # NoEntry /\ dir[table[i]][s].name = n
                            THEN NoEntry ELSE dir[table[i]][s]
           /\ UNCHANGED <<table, cookie, made, cache, file, at, oops>>
           /\ scan' \in [Users -> Scans] /\ changes' \in 0 .. Budget
           /\ \A u \in Users :
                /\ scan'[u].got = scan[u].got /\ scan'[u].done = scan[u].done
                /\ scan'[u].ever = scan[u].ever \cup Visible'
                /\ scan'[u].steady = scan[u].steady \cap Visible'
                /\ scan'[u].split = scan[u].split
<1> DEFINE t == table[i]
           d == dir[t]
<1>1. PICK x \in Replaced(d, n, [name |-> n, wh |-> wh]) : dir' = [dir EXCEPT ![t] = x]
  BY DEF Write
<1>2. /\ ~BeingRead(t) /\ UNCHANGED <<table, cookie, made, cache, file, at, oops>>
      /\ Watched({})
  BY DEF Write
<1>3. /\ scan' \in [Users -> Scans] /\ changes' \in 0 .. Budget
      /\ \A u \in Users :
            /\ scan'[u].got = scan[u].got /\ scan'[u].done = scan[u].done
            /\ scan'[u].ever = scan[u].ever \cup Visible'
            /\ scan'[u].steady = scan[u].steady \cap Visible'
            /\ scan'[u].split = scan[u].split
  <2> DEFINE out == {}
  <2>1. out \in SUBSET Names /\ \A v : v \cup out = v
    OBVIOUS
  <2>2. Watched(out) /\ UNCHANGED made
    BY <1>2
  <2> HIDE DEF out
  <2>3. /\ scan' \in [Users -> Scans] /\ changes' \in 0 .. Budget
        /\ \A u \in Users :
            /\ scan'[u].got = scan[u].got /\ scan'[u].done = scan[u].done
            /\ scan'[u].ever = scan[u].ever \cup Visible'
            /\ scan'[u].steady = scan[u].steady \cap Visible'
            /\ scan'[u].split = scan[u].split \cup out
    BY <2>1, <2>2, WatchedIs
  <2> QED BY <2>1, <2>3
<1>4. dir \in [Branch -> SoundDirs]
  BY DEF TypeInv, TypeOK
<1>5. CASE t \in Branch
  <2>1. d \in SoundDirs
    BY <1>4, <1>5
  <2> HIDE DEF d, t
  <2>2. /\ x \in SoundDirs
        /\ \E k \in 1 .. Slots :
            /\ x[k] = [name |-> n, wh |-> wh]
            /\ d[k] # NoEntry => d[k].name = n
            /\ \A s \in 1 .. Slots : s # k =>
                    x[s] = IF d[s] # NoEntry /\ d[s].name = n THEN NoEntry ELSE d[s]
    BY <2>1, ReplacedIs
  <2>3. /\ dir' \in [Branch -> SoundDirs] /\ dir'[t] = x
        /\ \A b \in Branch : b # t => dir'[b] = dir[b]
    BY <1>1, <1>4, <1>5, <2>2
  <2> QED BY <1>2, <1>3, <2>2, <2>3 DEF d, t
<1>6. CASE t \notin Branch
  <2> HIDE DEF d, t
  <2>1. dir' \in [Branch -> SoundDirs] /\ \A b \in Branch : b # t => dir'[b] = dir[b]
    BY <1>1, <1>4, <1>6
  <2> QED BY <1>2, <1>3, <1>6, <2>1 DEF t
<1> QED BY <1>5, <1>6

LEMMA WriteTypes ==
    ASSUME TypeInv, NEW i, NEW n \in Names, NEW wh \in BOOLEAN, Write(i, n, wh)
    PROVE  TypeInv'
<1>1. /\ UNCHANGED <<table, cookie, made, cache, file, at, oops>>
      /\ dir' \in [Branch -> SoundDirs] /\ scan' \in [Users -> Scans]
      /\ changes' \in 0 .. Budget
  BY WriteIs
<1>2. TypeOK'
  BY <1>1 DEF TypeInv, TypeOK, Scans
<1>3. TableGood'
  BY <1>1 DEF TypeInv, TableGood
<1>4. ASSUME NEW u \in Users, InCall(u)' PROVE CallGood(file[u])'
  <2>1. CallGood(file[u])
    BY <1>1, <1>4 DEF TypeInv, InCall, IsOpen
  <2> QED BY <1>1, <2>1 DEF CallGood
<1> QED BY <1>2, <1>3, <1>4 DEF TypeInv

\* Every branch but the one inserted at i came from the place before it or from
\* its own.
CameFrom(i) ==
    \A q \in 1 .. Len(table') : q # i =>
        \E p \in 1 .. Len(table) : table[p] = table'[q]
                                   /\ q = IF p < i THEN p ELSE p + 1

\* Where branches are after one has been inserted at i.
LEMMA BranchesMove ==
    ASSUME TypeInv, NEW b \in Branch, NEW i, i \in 1 .. Len(table) + 1, addbranch(b, i)
    PROVE  /\ table' \in Seq(Branch) /\ Len(table') = Len(table) + 1
           /\ i \in 1 .. Len(table') /\ table'[i] = b
           /\ \A p \in 1 .. Len(table) : table[p] # b
           /\ \A p \in 1 .. Len(table) :
                /\ p < i => p \in 1 .. Len(table') /\ table'[p] = table[p]
                /\ p >= i => p + 1 \in 1 .. Len(table') /\ table'[p + 1] = table[p]
           /\ CameFrom(i)
           /\ UNCHANGED <<dir, cookie, made, cache, file, at, oops>>
           /\ i = 1 => b \in Writable \ Dirless
           /\ scan' \in [Users -> Scans] /\ changes' \in 0 .. Budget
<1>1. /\ \A p \in 1 .. Len(table) : table[p] # b
      /\ i = 1 => b \in Writable \ Dirless
      /\ UNCHANGED <<dir, cookie, made, cache, file, at, oops>>
      /\ Watched({n \in Names : Divides(b, i, n)})
  BY DEF addbranch
<1>2. table' = Inserted(b, i)
  BY DEF addbranch, Inserted
<1>3. Len(table) \in Nat /\ i \in Nat /\ i >= 1 /\ i =< Len(table) + 1
  BY TypesAre, TableIs
<1>4. /\ table' \in Seq(Branch) /\ Len(table') = Len(table) + 1
      /\ \A p \in 1 .. Len(table') :
            table'[p] = IF p < i THEN table[p] ELSE IF p = i THEN b ELSE table[p - 1]
  BY <1>2, TypesAre, InsertIs
<1>5. scan' \in [Users -> Scans] /\ changes' \in 0 .. Budget
  <2> DEFINE out == {n \in Names : Divides(b, i, n)}
  <2>1. out \in SUBSET Names
    OBVIOUS
  <2> HIDE DEF out
  <2> QED BY <1>1, <2>1, WatchedIs DEF out
<1>6. ASSUME NEW p \in 1 .. Len(table)
      PROVE  /\ p < i => p \in 1 .. Len(table') /\ table'[p] = table[p]
             /\ p >= i => p + 1 \in 1 .. Len(table') /\ table'[p + 1] = table[p]
  <2>1. p \in Nat /\ p + 1 - 1 = p /\ p \in 1 .. Len(table') /\ p + 1 \in 1 .. Len(table')
    BY <1>3, <1>4
  <2>2. CASE p < i
    BY <1>4, <2>1, <2>2, <1>3
  <2>3. CASE p >= i
    <3>1. ~ (p + 1 < i) /\ p + 1 # i
      BY <1>3, <2>1, <2>3
    <3>2. table'[p + 1] = table[p + 1 - 1]
      BY <1>4, <2>1, <3>1
    <3> QED BY <1>3, <2>1, <2>3, <3>2
  <2> QED BY <1>3, <2>1, <2>2, <2>3
<1>7. ASSUME NEW q \in 1 .. Len(table'), q # i
      PROVE  \E p \in 1 .. Len(table) : table[p] = table'[q]
                                        /\ q = IF p < i THEN p ELSE p + 1
  <2>1. q \in Nat /\ q >= 1 /\ q =< Len(table) + 1
    BY <1>3, <1>4
  <2>2. CASE q < i
    <3>1. q \in 1 .. Len(table) /\ table[q] = table'[q]
      BY <1>3, <1>4, <2>1, <2>2
    <3> QED BY <2>2, <3>1
  <2>3. CASE q > i
    <3>1. ~ (q < i) /\ ~ (q - 1 < i) /\ q - 1 \in 1 .. Len(table) /\ q = q - 1 + 1
      BY <1>3, <2>1, <2>3
    <3>2. table'[q] = table[q - 1]
      BY <1>4, <1>7, <3>1
    <3> QED BY <3>1, <3>2
  <2> QED BY <1>3, <1>7, <2>1, <2>2, <2>3
<1>8. i \in 1 .. Len(table') /\ table'[i] = b
  BY <1>3, <1>4
<1>9. CameFrom(i)
  BY <1>7 DEF CameFrom
<1> QED BY <1>1, <1>4, <1>5, <1>6, <1>8, <1>9

\* A call's lower directories keep their order when branches come in between.
LEMMA GoodMoves ==
    ASSUME TypeInv, NEW b \in Branch, NEW i, i \in 1 .. Len(table) + 1, addbranch(b, i),
           NEW f, CallGood(f), f.low \in Seq(Branch \cup {None})
    PROVE  CallGood(f)'
<1> DEFINE To(p) == IF p < i THEN p ELSE p + 1
<1>1. Len(table) \in Nat /\ i \in Nat /\ Len(table') = Len(table) + 1 /\ Len(f.low) \in Nat
  BY BranchesMove, TypesAre, TableIs
<1>b. /\ table'[i] = b
      /\ \A p \in 1 .. Len(table) : table[p] # b
      /\ CameFrom(i)
  BY BranchesMove
<1>c. \A q \in 1 .. Len(table') : q # i =>
          \E p \in 1 .. Len(table) : table[p] = table'[q]
                                     /\ q = IF p < i THEN p ELSE p + 1
  BY <1>b DEF CameFrom
<1>a. /\ table'[i] = b
      /\ \A p \in 1 .. Len(table) : table[p] # b
      /\ \A q \in 1 .. Len(table') : q # i =>
            \E p \in 1 .. Len(table) : table[p] = table'[q]
                                       /\ q = IF p < i THEN p ELSE p + 1
  BY <1>b, <1>c
<1>2. ASSUME NEW k \in 1 .. Len(f.low), f.low[k] # None
      PROVE  f.low[k] \notin Dirless /\ \E p \in k .. Len(table') : table'[p] = f.low[k]
  <2>1. f.low[k] \notin Dirless
    BY <1>2 DEF CallGood
  <2>2. PICK p \in k .. Len(table) : table[p] = f.low[k]
    BY <1>2 DEF CallGood
  <2>3. p \in 1 .. Len(table) /\ p \in Nat /\ k \in Nat
    BY <1>1, <2>2
  <2>4. To(p) \in k .. Len(table') /\ table'[To(p)] = table[p]
    <3>1. CASE p < i
      <4>1. table'[p] = table[p]
        BY <2>3, <3>1, BranchesMove
      <4> QED BY <1>1, <2>2, <2>3, <3>1, <4>1
    <3>2. CASE p >= i
      <4>1. table'[p + 1] = table[p]
        BY <2>3, <3>2, BranchesMove
      <4>2. To(p) = p + 1
        BY <1>1, <2>3, <3>2
      <4> QED BY <1>1, <2>2, <2>3, <4>1, <4>2
    <3> QED BY <1>1, <2>3, <3>1, <3>2
  <2> QED BY <2>1, <2>2, <2>4
<1>3. ASSUME NEW j \in 1 .. Len(f.low), NEW k \in 1 .. Len(f.low), j < k,
             NEW p \in 1 .. Len(table'), NEW q \in 1 .. Len(table'),
             table'[p] = f.low[j], table'[q] = f.low[k]
      PROVE  p < q
  <2>1. f.low[j] # b /\ f.low[k] # b
    <3>1. f.low[j] # None /\ f.low[k] # None
      <4>1. table'[p] \in Branch /\ table'[q] \in Branch
        BY BranchesMove
      <4> QED BY <1>3, <4>1, MarkerAssumption
    <3>2. PICK x \in j .. Len(table) : table[x] = f.low[j]
      BY <3>1 DEF CallGood
    <3>3. PICK y \in k .. Len(table) : table[y] = f.low[k]
      BY <3>1 DEF CallGood
    <3>4. x \in 1 .. Len(table) /\ y \in 1 .. Len(table)
      BY <1>1
    <3> QED BY <1>a, <3>2, <3>3, <3>4
  <2>2. p # i /\ q # i
    BY <1>3, <1>a, <2>1
  <2>3. PICK x \in 1 .. Len(table) : table[x] = table'[p] /\ p = To(x)
    BY <1>a, <2>2
  <2>4. PICK y \in 1 .. Len(table) : table[y] = table'[q] /\ q = To(y)
    BY <1>a, <2>2
  <2>5. x < y
    BY <1>3, <2>3, <2>4 DEF CallGood
  <2> QED BY <1>1, <2>3, <2>4, <2>5
<1>4. /\ f.rd # NoState /\ f.low # <<>> /\ f.low[1] # None
      /\ f.call = "lower" =>
            /\ f.rd.bindex \in 1 .. Len(f.low) /\ f.low[f.rd.bindex] # None
            /\ Chunk >= Slots => f.left + f.rd.dirpos >= Slots
  BY DEF CallGood
<1> QED BY <1>2, <1>3, <1>4 DEF CallGood

LEMMA AddTypes ==
    ASSUME TypeInv, NEW b \in Branch, NEW i, i \in 1 .. Len(table) + 1, addbranch(b, i)
    PROVE  TypeInv'
<1>1. /\ table' \in Seq(Branch) /\ Len(table') = Len(table) + 1
      /\ i \in 1 .. Len(table') /\ table'[i] = b
      /\ \A p \in 1 .. Len(table) : table[p] # b
      /\ UNCHANGED <<dir, cookie, made, cache, file, at, oops>>
      /\ i = 1 => b \in Writable \ Dirless
      /\ scan' \in [Users -> Scans] /\ changes' \in 0 .. Budget
  BY BranchesMove
<1>2. TypeOK'
  BY <1>1 DEF TypeInv, TypeOK, Scans
<1>z. CameFrom(i)
  BY BranchesMove
<1>a. \A q \in 1 .. Len(table') : q # i =>
            \E p \in 1 .. Len(table) : table[p] = table'[q]
                                       /\ q = IF p < i THEN p ELSE p + 1
  BY <1>z DEF CameFrom
<1>3. Len(table) \in Nat \ {0} /\ TableGood /\ 1 \in 1 .. Len(table) /\ i \in Nat
  BY TypesAre, TableIs
<1>4. table' # <<>>
  BY <1>1, <1>3
<1>5. table'[1] \in Writable \ Dirless
  <2>1. CASE i = 1
    BY <1>1, <2>1
  <2>2. CASE i # 1
    <3>1. 1 < i
      BY <1>1, <1>3, <2>2
    <3>2. table'[1] = table[1]
      BY <1>3, <3>1, BranchesMove
    <3> QED BY <1>3, <3>2 DEF TableGood
  <2> QED BY <2>1, <2>2
<1>6. ASSUME NEW p \in 1 .. Len(table'), NEW q \in 1 .. Len(table'), table'[p] = table'[q]
      PROVE  p = q
  <2>1. CASE p = i \/ q = i
    <3>1. \A v \in 1 .. Len(table') : v # i => table'[v] # b
      <4> SUFFICES ASSUME NEW v \in 1 .. Len(table'), v # i PROVE table'[v] # b
        OBVIOUS
      <4>1. PICK x \in 1 .. Len(table) : table[x] = table'[v]
        BY <1>a
      <4> QED BY <1>1, <4>1
    <3> QED BY <1>1, <1>6, <2>1, <3>1
  <2>2. CASE p # i /\ q # i
    <3>1. PICK x \in 1 .. Len(table) :
            table[x] = table'[p] /\ p = IF x < i THEN x ELSE x + 1
      BY <1>a, <2>2
    <3>2. PICK y \in 1 .. Len(table) :
            table[y] = table'[q] /\ q = IF y < i THEN y ELSE y + 1
      BY <1>a, <2>2
    <3>3. x = y
      BY <1>3, <1>6, <3>1, <3>2 DEF TableGood
    <3> QED BY <3>1, <3>2, <3>3
  <2> QED BY <2>1, <2>2
<1>7. TableGood'
  BY <1>1, <1>4, <1>5, <1>6 DEF TableGood
<1>8. ASSUME NEW u \in Users, InCall(u)' PROVE CallGood(file[u])'
  <2>1. IsOpen(u) /\ file[u].call # "idle" /\ file' = file
    BY <1>1, <1>8 DEF InCall, IsOpen
  <2>2. PICK f : f = file[u]
    OBVIOUS
  <2>3. CallGood(f) /\ f.low \in Seq(Branch \cup {None})
    BY <2>1, <2>2, CallMeans DEF Files
  <2>4. CallGood(f)'
    BY <2>3, GoodMoves
  <2> QED BY <2>1, <2>2, <2>4 DEF CallGood
<1> QED BY <1>2, <1>7, <1>8 DEF TypeInv

LEMMA TypesStart == ASSUME Init PROVE TypeInv
<1>1. /\ Mounted \in Seq(Branch) /\ Mounted # <<>> /\ Mounted[1] \in Writable \ Dirless
      /\ \A i, j \in 1 .. Len(Mounted) : Mounted[i] = Mounted[j] => i = j
      /\ Budget \in Nat /\ MaxCookie \in Nat /\ MaxCookie > 1
  BY ReadDirAssumption
<1>2. TableGood
  BY <1>1 DEF Init, TableGood
<1>3. \A u \in Users : ~InCall(u)
  BY DEF Init, InCall, IsOpen
<1>4. /\ cookie \in 0 .. MaxCookie - 1 /\ made \in 0 .. Budget
      /\ changes \in 0 .. Budget
  BY <1>1 DEF Init
<1>7. table \in Seq(Branch) /\ cache \in Seq(RdStates) /\ oops \in BOOLEAN
  <2>1. table = Mounted /\ cache = <<>> /\ oops = FALSE
    BY DEF Init
  <2>2. table \in Seq(Branch)
    BY <1>1, <2>1
  <2>3. <<>> \in Seq(RdStates)
    OBVIOUS
  <2>4. cache \in Seq(RdStates)
    BY <2>1, <2>3
  <2> QED BY <2>1, <2>2, <2>4
<1>8. dir \in [Branch -> SoundDirs]
  BY DEF Init
<1>5. file \in [Users -> Files \cup {Closed}] /\ at \in [Users -> Positions]
  BY PositionTypes DEF Init
<1>6. scan \in [Users -> Scans]
  BY DEF Init, Scans
<1> QED BY <1>2, <1>3, <1>4, <1>5, <1>6, <1>7, <1>8 DEF TypeInv, TypeOK, Scans

LEMMA TypesStutter == ASSUME TypeInv, UNCHANGED vars PROVE TypeInv'
<1>1. UNCHANGED <<dir, table, cookie, made, cache, file, at, scan, changes, oops>>
  BY DEF vars
<1>2. TypeOK' /\ TableGood'
  BY <1>1 DEF TypeInv, TypeOK, TableGood
<1>3. ASSUME NEW u \in Users, InCall(u)' PROVE CallGood(file[u])'
  <2>1. CallGood(file[u])
    BY <1>1, <1>3 DEF TypeInv, InCall, IsOpen
  <2> QED BY <1>1, <2>1 DEF CallGood
<1> QED BY <1>2, <1>3 DEF TypeInv

\* The changes of the directory, as writes of one entry.
LEMMA ChangeIs ==
    ASSUME NEW n \in Names, create(n) \/ unlink(n) \/ copyup(n)
    PROVE  \E i, wh : wh \in BOOLEAN /\ Write(i, n, wh)
<1>1. CASE create(n)
  BY <1>1 DEF create
<1>2. CASE unlink(n)
  BY <1>2 DEF unlink
<1>3. CASE copyup(n)
  BY <1>3 DEF copyup
<1> QED BY <1>1, <1>2, <1>3

LEMMA TypesKeep == ASSUME TypeInv, [Next]_vars PROVE TypeInv'
<1>1. ASSUME NEW u \in Users,
             \/ unionfs_open(u) \/ unionfs_file_release(u)
             \/ SeekToStart(u) \/ SeekToCookie(u) \/ Tell(u)
             \/ \E room \in 1 .. MaxRoom : StartCall(u, room)
             \/ Kernel(u)
      PROVE  TypeInv'
  <2>1. CASE unionfs_open(u) \/ unionfs_file_release(u)
    BY <2>1, OpenTypes, ReleaseTypes
  <2>2. CASE SeekToStart(u) \/ SeekToCookie(u) \/ Tell(u)
    BY <2>2, SeekToStartTypes, SeekToCookieTypes, TellTypes
  <2>3. CASE \E room \in 1 .. MaxRoom : StartCall(u, room)
    <3>1. PICK room \in Nat : StartCall(u, room)
      BY <2>3, ReadDirAssumption
    <3> QED BY <3>1, StartCallTypes
  <2>4. CASE Kernel(u)
    BY <2>4, PickTypes, EndTypes, ReturnTypes, SkipTypes, WhiteoutTypes, ShowTypes, FullTypes
       DEF Kernel
  <2> QED BY <1>1, <2>1, <2>2, <2>3, <2>4
<1>2. ASSUME NEW n \in Names, create(n) \/ unlink(n) \/ copyup(n) PROVE TypeInv'
  <2>1. PICK i, wh : wh \in BOOLEAN /\ Write(i, n, wh)
    BY <1>2, ChangeIs
  <2> QED BY <2>1, WriteTypes
<1>3. ASSUME NEW b \in Branch, NEW i, i \in 1 .. Len(table) + 1, addbranch(b, i) PROVE TypeInv'
  BY <1>3, AddTypes
<1>4. CASE UNCHANGED vars
  BY <1>4, TypesStutter
<1> QED BY <1>1, <1>2, <1>3, <1>4, WriteInodeTypes DEF Next

\* Every variable keeps its type, and no call reads a branch that is not in the
\* union or a slot past the end of a directory, whatever the branches that are
\* inserted while calls and scans go on.
THEOREM ReadDirTypes == Spec => []TypeOK
<1>1. Init => TypeInv
  BY TypesStart
<1>2. TypeInv /\ [Next]_vars => TypeInv'
  BY TypesKeep
<1>3. TypeInv => TypeOK
  BY DEF TypeInv
<1> QED BY <1>1, <1>2, <1>3, PTL DEF Spec

-----------------------------------------------------------------------------
(* What is promised and denied, for any directory d and table t.           *)

\* The more there is to read, the better.
LEMMA GoodMore ==
    ASSUME NEW d, NEW t, NEW c, NEW seen, NEW T, NEW U, T \subseteq U, Good(d, t, c, seen, T)
    PROVE  Good(d, t, c, seen, U)
<1>1. ASSUME NEW n, Coming(d, t, n, T) PROVE Coming(d, t, n, U)
  BY <1>1 DEF Coming
<1>2. ASSUME NEW n, Veiled(d, t, n, T) PROVE Veiled(d, t, n, U)
  BY <1>2 DEF Veiled
<1>3. ASSUME NEW n, VeiledFirst(d, t, n, T) PROVE VeiledFirst(d, t, n, U)
  BY <1>3 DEF VeiledFirst
<1>4. Promise(d, t, c, seen, U)
  BY <1>1 DEF Good, Promise
<1>5. OneToInsert => Denial(d, t, c, seen, U)
  BY <1>2, <1>3 DEF Good, Denial
<1> QED BY <1>4, <1>5 DEF Good

\* A directory holds a name once.
LEMMA OnceIs ==
    ASSUME NEW d \in [Branch -> SoundDirs], NEW x \in Branch \X (1 .. Slots),
           NEW y \in Branch \X (1 .. Slots), x[1] = y[1], NEW n \in Names,
           Live(d, x, n) \/ White(d, x, n), Live(d, y, n) \/ White(d, y, n)
    PROVE  x = y
<1> DEFINE e == d[x[1]]
<1>1. e \in SoundDirs /\ x[2] \in 1 .. Slots /\ y[2] \in 1 .. Slots
  OBVIOUS
<1>2. [name |-> n, wh |-> FALSE] \in Entries /\ [name |-> n, wh |-> TRUE] \in Entries
  BY DEF Entries
<1>3. /\ e[x[2]] \in {[name |-> n, wh |-> FALSE], [name |-> n, wh |-> TRUE]}
      /\ e[y[2]] \in {[name |-> n, wh |-> FALSE], [name |-> n, wh |-> TRUE]}
  BY DEF Live, White
<1> HIDE DEF e
<1>4. e[x[2]].name = n /\ e[y[2]].name = n /\ e[x[2]] # NoEntry /\ e[y[2]] # NoEntry
  <2>1. \A v \in {[name |-> n, wh |-> FALSE], [name |-> n, wh |-> TRUE]} :
            v \in Entries /\ v.name = n
    <3>1. [name |-> n, wh |-> FALSE].name = n /\ [name |-> n, wh |-> TRUE].name = n
      OBVIOUS
    <3> QED BY <1>2, <3>1, Zenon
  <2> QED BY <1>3, <2>1, MarkerAssumption
<1>5. x[2] = y[2]
  BY <1>1, <1>4 DEF SoundDirs
<1>6. x = <<x[1], x[2]>> /\ y = <<y[1], y[2]>>
  OBVIOUS
<1> QED BY <1>5, <1>6

LEMMA LiveOrWhite ==
    ASSUME NEW d, NEW x, NEW n, NEW m, Live(d, x, n)
    PROVE  ~White(d, x, m) /\ (Live(d, x, m) => m = n)
<1>1. [name |-> n, wh |-> FALSE].wh # [name |-> m, wh |-> TRUE].wh
  OBVIOUS
<1>2. [name |-> n, wh |-> FALSE] # [name |-> m, wh |-> TRUE]
  BY <1>1
<1>3. [name |-> n, wh |-> FALSE] = [name |-> m, wh |-> FALSE] => n = m
  OBVIOUS
<1> QED BY <1>2, <1>3 DEF Live, White

\* Slot x is next: all of T is in its branch or to the right of it.
Leads(t, x, T) ==
    /\ x \in Places(t) /\ T \subseteq Places(t)
    /\ \A y \in T : x[1] = y[1] \/ x \in LeftOf(t, y[1])

\* The next slot has nothing new.
LEMMA SkipGood ==
    ASSUME NEW d, NEW t, NEW c \in Scans, NEW seen, NEW T, NEW U, NEW x,
           T \ {x} \subseteq U, Good(d, t, c, seen, T),
           \A n \in Names : Live(d, x, n) \/ White(d, x, n) => n \in seen
    PROVE  Good(d, t, c, seen, U)
<1>1. ASSUME NEW n \in Names, n \notin seen, Coming(d, t, n, T) PROVE Coming(d, t, n, U)
  BY <1>1 DEF Coming
<1>2. ASSUME NEW n \in Names, n \notin seen, Veiled(d, t, n, T) PROVE Veiled(d, t, n, U)
  BY <1>2 DEF Veiled
<1>3. ASSUME NEW n \in Names, n \notin seen, VeiledFirst(d, t, n, T)
      PROVE  VeiledFirst(d, t, n, U)
  BY <1>3 DEF VeiledFirst
<1>4. Owed(c) \subseteq Names
  BY DEF Scans, Owed
<1>5. Promise(d, t, c, seen, U)
  BY <1>1, <1>4 DEF Good, Promise
<1>6. OneToInsert => Denial(d, t, c, seen, U)
  BY <1>2, <1>3 DEF Good, Denial
<1> QED BY <1>5, <1>6 DEF Good

\* One name more is noted, and either is not promised or has been shown.
LEMMA NoteGood ==
    ASSUME NEW d, NEW t, NEW c \in Scans, NEW h \in Scans, NEW seen, NEW T, NEW U, NEW x,
           NEW m, T \ {x} \subseteq U, Good(d, t, c, seen, T),
           \A n \in Names : Live(d, x, n) \/ White(d, x, n) => n = m,
           Owed(h) = Owed(c), h.ever = c.ever,
           \A n \in Names : n # m => h.got[n] = c.got[n],
           m \in Owed(h) => h.got[m] # 0
    PROVE  Good(d, t, h, seen \cup {m}, U)
<1>1. ASSUME NEW n \in Names, n # m, Coming(d, t, n, T) PROVE Coming(d, t, n, U)
  BY <1>1 DEF Coming
<1>2. ASSUME NEW n \in Names, n # m, Veiled(d, t, n, T) PROVE Veiled(d, t, n, U)
  BY <1>2 DEF Veiled
<1>3. ASSUME NEW n \in Names, n # m, VeiledFirst(d, t, n, T) PROVE VeiledFirst(d, t, n, U)
  BY <1>3 DEF VeiledFirst
<1>4. Owed(c) \subseteq Names
  BY DEF Scans, Owed
<1>5. ASSUME NEW n \in Owed(h), h.got[n] = 0
      PROVE  n \notin seen \cup {m} /\ Coming(d, t, n, U)
  <2>1. n \in Names /\ n # m /\ c.got[n] = 0
    BY <1>4, <1>5
  <2>2. n \notin seen /\ Coming(d, t, n, T)
    BY <2>1 DEF Good, Promise
  <2> QED BY <1>1, <2>1, <2>2
<1>6. ASSUME OneToInsert, NEW n \in Names \ h.ever, n \notin seen \cup {m}
      PROVE  Veiled(d, t, n, U) /\ (~Full(t) => VeiledFirst(d, t, n, U))
  <2>1. n # m /\ Veiled(d, t, n, T) /\ (~Full(t) => VeiledFirst(d, t, n, T))
    BY <1>6 DEF Good, Denial
  <2> QED BY <1>2, <1>3, <2>1
<1> QED BY <1>5, <1>6 DEF Good, Promise, Denial

\* A whiteout of a name that is not noted yet says that it was not there.
LEMMA WhiteNotSteady ==
    ASSUME NEW d \in [Branch -> SoundDirs], NEW t, NEW c, NEW seen, NEW T, NEW x,
           NEW m \in Names, Leads(t, x, T), White(d, x, m), Good(d, t, c, seen, T),
           m \in Owed(c)
    PROVE  c.got[m] # 0
<1> SUFFICES ASSUME c.got[m] = 0 PROVE FALSE
  OBVIOUS
<1>1. PICK y \in T : Live(d, y, m) /\ Clear(d, t, y[1], m)
  BY DEF Good, Promise, Coming
<1>2. x \in Branch \X (1 .. Slots) /\ y \in Branch \X (1 .. Slots)
  BY DEF Leads, Places
<1>3. x[1] # y[1]
  <2> SUFFICES ASSUME x[1] = y[1] PROVE FALSE
    OBVIOUS
  <2>1. x = y
    BY <1>1, <1>2, OnceIs
  <2> QED BY <1>1, <2>1, LiveOrWhite
<1>4. x \in LeftOf(t, y[1])
  BY <1>3 DEF Leads
<1> QED BY <1>1, <1>4 DEF Clear

\* An entry of a name that is not noted yet says that it was there.
LEMMA LiveEver ==
    ASSUME NEW d \in [Branch -> SoundDirs], NEW t, NEW c, NEW seen, NEW T, NEW x,
           NEW m \in Names, Leads(t, x, T), Live(d, x, m), Good(d, t, c, seen, T),
           m \notin seen, OneToInsert
    PROVE  m \in c.ever
<1> SUFFICES ASSUME m \notin c.ever PROVE FALSE
  OBVIOUS
<1>1. Veiled(d, t, m, T)
  BY DEF Good, Denial
<1>2. PICK y \in T : White(d, y, m) /\ Dark(d, t, y[1], m)
  BY <1>1 DEF Veiled, Leads
<1>3. x \in Branch \X (1 .. Slots) /\ y \in Branch \X (1 .. Slots)
  BY DEF Leads, Places
<1>4. x[1] # y[1]
  <2> SUFFICES ASSUME x[1] = y[1] PROVE FALSE
    OBVIOUS
  <2>1. x = y
    BY <1>2, <1>3, OnceIs
  <2> QED BY <1>2, <2>1, LiveOrWhite
<1>5. x \in LeftOf(t, y[1])
  BY <1>4 DEF Leads
<1> QED BY <1>2, <1>5 DEF Dark

-----------------------------------------------------------------------------
(* What the union shows.                                                   *)

LEMMA NamedIs ==
    ASSUME NEW d \in [Branch -> SoundDirs], NEW x \in Branch \X (1 .. Slots), NEW n \in Names
    PROVE  /\ x[2] \in Named(d[x[1]], n) <=> Live(d, x, n) \/ White(d, x, n)
           /\ x[2] \in Named(d[x[1]], n) => (d[x[1]][x[2]].wh <=> White(d, x, n))
<1> DEFINE e == d[x[1]][x[2]]
<1>1. e \in Entries \cup {NoEntry}
  <2>1. d[x[1]] \in Directories /\ x[2] \in 1 .. Slots
    BY DEF SoundDirs
  <2> QED BY <2>1 DEF Directories
<1>2. x[2] \in Named(d[x[1]], n) <=> e # NoEntry /\ e.name = n
  BY DEF Named
<1>3. Live(d, x, n) <=> e = [name |-> n, wh |-> FALSE]
  BY DEF Live
<1>4. White(d, x, n) <=> e = [name |-> n, wh |-> TRUE]
  BY DEF White
<1> HIDE DEF e
<1>5. \A v \in Entries : v = [name |-> v.name, wh |-> v.wh] /\ v.wh \in BOOLEAN
  BY DEF Entries
<1>6. [name |-> n, wh |-> FALSE] \in Entries /\ [name |-> n, wh |-> TRUE] \in Entries
  BY DEF Entries
<1>7. e # NoEntry /\ e.name = n <=>
        e = [name |-> n, wh |-> FALSE] \/ e = [name |-> n, wh |-> TRUE]
  BY <1>1, <1>5, <1>6, MarkerAssumption
<1>8. e # NoEntry /\ e.name = n => (e.wh <=> e = [name |-> n, wh |-> TRUE])
  BY <1>1, <1>5
<1> QED BY <1>2, <1>3, <1>4, <1>7, <1>8 DEF e

\* The places of the union by position.
LEMMA PlacesAre ==
    ASSUME TableGood
    PROVE  /\ \A x \in Places(table) :
                /\ x \in Branch \X (1 .. Slots) /\ x[1] \notin Dirless
                /\ \E p \in 1 .. Len(table) : table[p] = x[1]
           /\ \A p \in 1 .. Len(table), s \in 1 .. Slots :
                table[p] \notin Dirless => <<table[p], s>> \in Places(table)
<1>1. \A p \in 1 .. Len(table) : table[p] \in Branch
  BY TableIs
<1>2. \A x \in Places(table) :
        /\ x \in Branch \X (1 .. Slots) /\ x[1] \notin Dirless
        /\ \E p \in 1 .. Len(table) : table[p] = x[1]
  BY DEF Places, In
<1>3. ASSUME NEW p \in 1 .. Len(table), NEW s \in 1 .. Slots, table[p] \notin Dirless
      PROVE  <<table[p], s>> \in Places(table)
  BY <1>1, <1>3 DEF Places, In
<1> QED BY <1>2, <1>3

\* Order in the table is order of positions.
LEMMA OrderIs ==
    ASSUME TableGood, NEW p \in 1 .. Len(table), NEW q \in 1 .. Len(table)
    PROVE  /\ Before(table, table[p], table[q]) <=> p < q
           /\ In(table, table[p])
<1>1. ASSUME Before(table, table[p], table[q]) PROVE p < q
  <2>1. PICK i, j \in 1 .. Len(table) : i < j /\ table[i] = table[p] /\ table[j] = table[q]
    BY <1>1 DEF Before
  <2>2. i = p /\ j = q
    BY <2>1 DEF TableGood
  <2> QED BY <2>1, <2>2
<1> QED BY <1>1 DEF Before, In

LEMMA LeftmostIs ==
    ASSUME TypeInv, NEW n \in Names
    PROVE  /\ Positioned(n) = {} =>
                \A y \in Places(table) : ~Live(dir, y, n) /\ ~White(dir, y, n)
           /\ Positioned(n) # {} =>
                /\ First(Positioned(n)) \in 1 .. Len(table)
                /\ \E x \in Places(table) :
                    /\ x[1] = table[First(Positioned(n))]
                    /\ Live(dir, x, n) \/ White(dir, x, n)
                    /\ Unnamed(dir, table, x[1], n)
                    /\ IsWhiteout(First(Positioned(n)), n) <=> White(dir, x, n)
<1>1. dir \in [Branch -> SoundDirs] /\ TableGood
  BY TypesAre DEF TypeInv, TypeOK
<1>2. ASSUME NEW y \in Places(table), Live(dir, y, n) \/ White(dir, y, n)
      PROVE  \E p \in Positioned(n) : table[p] = y[1]
  <2>1. y \in Branch \X (1 .. Slots) /\ y[1] \notin Dirless
    BY <1>1, PlacesAre
  <2>2. PICK p \in 1 .. Len(table) : table[p] = y[1]
    BY <1>1, PlacesAre
  <2>3. y[2] \in Named(dir[y[1]], n)
    BY <1>1, <1>2, <2>1, NamedIs
  <2> QED BY <2>1, <2>2, <2>3 DEF Positioned
<1>3. ASSUME Positioned(n) # {}
      PROVE  /\ First(Positioned(n)) \in 1 .. Len(table)
             /\ \E x \in Places(table) :
                    /\ x[1] = table[First(Positioned(n))]
                    /\ Live(dir, x, n) \/ White(dir, x, n)
                    /\ Unnamed(dir, table, x[1], n)
                    /\ IsWhiteout(First(Positioned(n)), n) <=> White(dir, x, n)
  <2> DEFINE i == First(Positioned(n))
  <2>1. Positioned(n) \subseteq Nat /\ Positioned(n) \subseteq 1 .. Len(table)
    BY DEF Positioned
  <2>2. i \in Positioned(n) /\ \A j \in Positioned(n) : i =< j
    BY <1>3, <2>1, FirstIs
  <2> HIDE DEF i
  <2>3. i \in 1 .. Len(table) /\ table[i] \notin Dirless /\ Named(dir[table[i]], n) # {}
    BY <2>2 DEF Positioned
  <2>4. PICK s \in 1 .. Slots : s \in Named(dir[table[i]], n)
    BY <2>3 DEF Named
  <2> DEFINE x == <<table[i], s>>
  <2>5. x \in Places(table) /\ x \in Branch \X (1 .. Slots)
    BY <1>1, <2>3, PlacesAre
  <2>6. x[1] = table[i] /\ x[2] = s
    OBVIOUS
  <2> HIDE DEF x
  <2>7. Live(dir, x, n) \/ White(dir, x, n)
    BY <1>1, <2>4, <2>5, <2>6, NamedIs
  <2>8. \A y \in LeftOf(table, x[1]) : ~White(dir, y, n) /\ ~Live(dir, y, n)
    <3> SUFFICES ASSUME NEW y \in LeftOf(table, x[1]), Live(dir, y, n) \/ White(dir, y, n)
                 PROVE  FALSE
      OBVIOUS
    <3>1. y \in Places(table) /\ Before(table, y[1], x[1])
      BY DEF LeftOf
    <3>2. PICK p \in Positioned(n) : table[p] = y[1]
      BY <1>2, <3>1
    <3>3. p \in 1 .. Len(table) /\ i =< p
      BY <2>1, <2>2
    <3>4. p < i
      BY <1>1, <2>3, <2>6, <3>1, <3>2, <3>3, OrderIs
    <3> QED BY <2>3, <3>3, <3>4
  <2>9. Unnamed(dir, table, x[1], n)
    <3>1. In(table, x[1])
      BY <1>1, <2>3, <2>6, OrderIs
    <3> QED BY <2>8, <3>1 DEF Unnamed, Clear, Dark
  <2>10. IsWhiteout(i, n) <=> White(dir, x, n)
    <3>1. \A z \in Named(dir[table[i]], n) : z = s
      <4> SUFFICES ASSUME NEW z \in Named(dir[table[i]], n) PROVE z = s
        OBVIOUS
      <4>1. dir[table[i]] \in SoundDirs
        BY <1>1, <2>5, <2>6
      <4> QED BY <2>4, <4>1 DEF Named, SoundDirs
    <3>2. dir[x[1]][x[2]].wh <=> White(dir, x, n)
      BY <1>1, <2>4, <2>5, <2>6, NamedIs
    <3> QED BY <2>4, <2>6, <3>1, <3>2 DEF IsWhiteout
  <2> QED BY <2>3, <2>5, <2>6, <2>7, <2>9, <2>10 DEF i
<1> QED BY <1>2, <1>3

\* There is one leftmost place of a name.
LEMMA OneLeftmost ==
    ASSUME TableGood, NEW d \in [Branch -> SoundDirs], NEW n \in Names,
           NEW x \in Places(table), NEW y \in Places(table),
           Live(d, x, n) \/ White(d, x, n), Live(d, y, n) \/ White(d, y, n),
           Unnamed(d, table, x[1], n), Unnamed(d, table, y[1], n)
    PROVE  x = y
<1>1. x \in Branch \X (1 .. Slots) /\ y \in Branch \X (1 .. Slots)
  BY PlacesAre
<1>2. PICK p, q \in 1 .. Len(table) : table[p] = x[1] /\ table[q] = y[1]
  BY PlacesAre
<1>3. ~ (p < q)
  <2> SUFFICES ASSUME p < q PROVE FALSE
    OBVIOUS
  <2>1. x \in LeftOf(table, y[1])
    BY <1>2, OrderIs DEF LeftOf
  <2> QED BY <2>1 DEF Unnamed, Dark, Clear
<1>4. ~ (q < p)
  <2> SUFFICES ASSUME q < p PROVE FALSE
    OBVIOUS
  <2>1. y \in LeftOf(table, x[1])
    BY <1>2, OrderIs DEF LeftOf
  <2> QED BY <2>1 DEF Unnamed, Dark, Clear
<1>5. x[1] = y[1]
  BY <1>2, <1>3, <1>4
<1> QED BY <1>1, <1>5, OnceIs

\* A name that shows has its leftmost entry, and no whiteout, left of all else.
LEMMA ShownAre ==
    TypeInv =>
        \A n \in Names :
            /\ n \in Visible =>
                \E x \in Places(table) :
                    /\ x[1] = table[First(Positioned(n))]
                    /\ Live(dir, x, n) /\ Unnamed(dir, table, x[1], n)
            /\ n \notin Visible => VeiledFirst(dir, table, n, Places(table))
            /\ \A x \in Places(table) :
                    Live(dir, x, n) /\ Unnamed(dir, table, x[1], n) => n \in Visible
<1> SUFFICES ASSUME TypeInv, NEW n \in Names
             PROVE  /\ n \in Visible =>
                        \E x \in Places(table) :
                            /\ x[1] = table[First(Positioned(n))]
                            /\ Live(dir, x, n) /\ Unnamed(dir, table, x[1], n)
                    /\ n \notin Visible => VeiledFirst(dir, table, n, Places(table))
                    /\ \A x \in Places(table) :
                        Live(dir, x, n) /\ Unnamed(dir, table, x[1], n) => n \in Visible
  OBVIOUS
<1> DEFINE i == First(Positioned(n))
<1>1. n \in Visible <=> Positioned(n) # {} /\ ~IsWhiteout(i, n)
  BY DEF Visible
<1>2. Positioned(n) = {} => \A y \in Places(table) : ~Live(dir, y, n) /\ ~White(dir, y, n)
  BY LeftmostIs
<1>3. Positioned(n) # {} =>
        \E x \in Places(table) :
            /\ x[1] = table[i]
            /\ Live(dir, x, n) \/ White(dir, x, n)
            /\ Unnamed(dir, table, x[1], n)
            /\ IsWhiteout(i, n) <=> White(dir, x, n)
  BY LeftmostIs
<1> HIDE DEF i
<1>4. n \in Visible => \E x \in Places(table) :
            x[1] = table[i] /\ Live(dir, x, n) /\ Unnamed(dir, table, x[1], n)
  BY <1>1, <1>3
<1>5. n \notin Visible => VeiledFirst(dir, table, n, Places(table))
  BY <1>1, <1>2, <1>3 DEF VeiledFirst
<1>6. ASSUME NEW x \in Places(table), Live(dir, x, n), Unnamed(dir, table, x[1], n)
      PROVE  n \in Visible
  <2>1. dir \in [Branch -> SoundDirs] /\ TableGood
    BY TypesAre DEF TypeInv, TypeOK
  <2>2. PICK y \in Places(table) :
            /\ Live(dir, y, n) \/ White(dir, y, n)
            /\ Unnamed(dir, table, y[1], n)
            /\ IsWhiteout(i, n) <=> White(dir, y, n)
    BY <1>2, <1>3, <1>6
  <2>8. x = y
    BY <1>6, <2>1, <2>2, OneLeftmost
  <2>9. ~White(dir, y, n)
    BY <1>6, <2>8, LiveOrWhite
  <2>10. Positioned(n) # {}
    BY <1>2, <1>6
  <2> QED BY <1>1, <2>2, <2>9, <2>10
<1> QED BY <1>4, <1>5, <1>6 DEF i

LEMMA ShownNext ==
    TypeInv' =>
        \A n \in Names :
            /\ n \in Visible' =>
                \E x \in Places(table') :
                    Live(dir', x, n) /\ Unnamed(dir', table', x[1], n)
            /\ n \notin Visible' => VeiledFirst(dir', table', n, Places(table'))
            /\ \A x \in Places(table') :
                    Live(dir', x, n) /\ Unnamed(dir', table', x[1], n) => n \in Visible'
<1>1. (TypeInv =>
        \A n \in Names :
            /\ n \in Visible =>
                \E x \in Places(table) :
                    Live(dir, x, n) /\ Unnamed(dir, table, x[1], n)
            /\ n \notin Visible => VeiledFirst(dir, table, n, Places(table))
            /\ \A x \in Places(table) :
                    Live(dir, x, n) /\ Unnamed(dir, table, x[1], n) => n \in Visible)'
  <2>1. TypeInv =>
        \A n \in Names :
            /\ n \in Visible =>
                \E x \in Places(table) :
                    Live(dir, x, n) /\ Unnamed(dir, table, x[1], n)
            /\ n \notin Visible => VeiledFirst(dir, table, n, Places(table))
            /\ \A x \in Places(table) :
                    Live(dir, x, n) /\ Unnamed(dir, table, x[1], n) => n \in Visible
    BY ShownAre
  <2> QED BY <2>1, PTL
<1> QED BY <1>1

\* A new scan has all to read, and a right to what shows.
LEMMA NewGood ==
    ASSUME TypeInv, NEW c, Owed(c) \subseteq Visible, c.ever = Visible, NEW T,
           Places(table) \subseteq T
    PROVE  Good(dir, table, c, {}, T)
<1>1. Visible \subseteq Names
  BY DEF Visible
<1>2. ASSUME NEW n \in Owed(c) PROVE Coming(dir, table, n, T)
  <2>1. PICK x \in Places(table) : Live(dir, x, n) /\ Unnamed(dir, table, x[1], n)
    BY <1>1, <1>2, ShownAre
  <2> QED BY <2>1 DEF Coming, Unnamed
<1>3. ASSUME NEW n \in Names \ c.ever
      PROVE  VeiledFirst(dir, table, n, T) /\ Veiled(dir, table, n, T)
  <2>1. VeiledFirst(dir, table, n, Places(table))
    BY <1>3, ShownAre
  <2> QED BY <2>1 DEF VeiledFirst, Veiled, Unnamed
<1> QED BY <1>2, <1>3 DEF Good, Promise, Denial

\* At the beginning everything is ahead.
LEMMA AllAhead ==
    ASSUME TypeInv, NEW r \in RdStates, r.bindex = 1, r.dirpos = 0
    PROVE  Places(table) \subseteq Todo(table, r)
<1> SUFFICES ASSUME NEW x \in Places(table) PROVE x \in Todo(table, r)
  OBVIOUS
<1>1. TableGood
  BY TypesAre
<1>2. x \in (Branch \ Dirless) \X (1 .. Slots) /\ \E p \in 1 .. Len(table) : table[p] = x[1]
  BY <1>1, PlacesAre
<1>3. PICK p \in 1 .. Len(table) : table[p] = x[1]
  BY <1>2
<1>4. p \in Nat /\ p >= 1 /\ x[2] > 0
  BY <1>2
<1>5. Ahead(table, r, x[1], x[2])
  BY <1>3, <1>4 DEF Ahead
<1> QED BY <1>2, <1>5 DEF Todo

\* The lower directories are those of the union, at the start of a call.
LEMMA TodoLower ==
    ASSUME TypeInv, NEW r
    PROVE  Todo(table, r) \subseteq Todo(Lower, r)
<1> SUFFICES ASSUME NEW x \in Todo(table, r) PROVE x \in Todo(Lower, r)
  OBVIOUS
<1>1. /\ Len(Lower) = Len(table)
      /\ \A p \in 1 .. Len(table) :
            Lower[p] = IF table[p] \in Dirless THEN None ELSE table[p]
  BY TypesAre, LowerIs
<1>2. x \in (Branch \ Dirless) \X (1 .. Slots) /\ Ahead(table, r, x[1], x[2])
  BY DEF Todo
<1>3. Ahead(Lower, r, x[1], x[2])
  BY <1>1, <1>2 DEF Ahead
<1> QED BY <1>2, <1>3 DEF Todo

\* They are not left behind when the call ends.
LEMMA TodoTable ==
    ASSUME TypeInv, NEW f \in Files, CallGood(f), f.rd \in RdStates
    PROVE  Todo(f.low, f.rd) \subseteq Todo(table, f.rd)
<1> SUFFICES ASSUME NEW x \in Todo(f.low, f.rd) PROVE x \in Todo(table, f.rd)
  OBVIOUS
<1>1. x \in (Branch \ Dirless) \X (1 .. Slots)
  BY DEF Todo
<1>2. PICK i \in 1 .. Len(f.low) :
        /\ f.low[i] = x[1]
        /\ i > f.rd.bindex \/ (i = f.rd.bindex /\ x[2] > f.rd.dirpos)
  BY DEF Todo, Ahead
<1>3. f.low[i] # None
  BY <1>1, <1>2, MarkerAssumption
<1>4. PICK p \in i .. Len(table) : table[p] = f.low[i]
  BY <1>3 DEF CallGood
<1>5. Len(table) \in Nat /\ i \in Nat /\ f.rd.bindex \in Nat /\ Len(f.low) \in Nat
  BY TypesAre, TableIs DEF Files, RdStates
<1>6. p \in 1 .. Len(table) /\ (p > f.rd.bindex \/ (p = f.rd.bindex /\ x[2] > f.rd.dirpos))
  BY <1>2, <1>4, <1>5
<1>7. Ahead(table, f.rd, x[1], x[2])
  BY <1>2, <1>4, <1>6 DEF Ahead
<1> QED BY <1>1, <1>7 DEF Todo

\* The end of a directory, or a branch without it: nothing is left out.
LEMMA TodoNext ==
    ASSUME NEW low, NEW r \in RdStates,
           r.bindex \notin 1 .. Len(low) \/ low[r.bindex] = None \/ r.dirpos = Slots
    PROVE  Todo(low, r) \subseteq Todo(low, NextBranch(r))
<1> SUFFICES ASSUME NEW x \in Todo(low, r) PROVE x \in Todo(low, NextBranch(r))
  OBVIOUS
<1> DEFINE k == NextBranch(r)
<1>1. k.bindex = r.bindex + 1 /\ k.dirpos = 0
  BY NextTypes
<1>2. x \in (Branch \ Dirless) \X (1 .. Slots)
  BY DEF Todo
<1>3. PICK i \in 1 .. Len(low) :
        low[i] = x[1] /\ (i > r.bindex \/ (i = r.bindex /\ x[2] > r.dirpos))
  BY DEF Todo, Ahead
<1>4. x[2] \in 1 .. Slots /\ Slots \in Nat /\ r.bindex \in Nat /\ i \in Int
  BY <1>2, ReadDirAssumption DEF RdStates
<1>5. i # r.bindex
  BY <1>2, <1>3, <1>4, MarkerAssumption
<1>6. i > r.bindex
  BY <1>3, <1>5
<1>7. i > k.bindex \/ (i = k.bindex /\ x[2] > k.dirpos)
  BY <1>1, <1>4, <1>6
<1>8. Ahead(low, k, x[1], x[2])
  BY <1>3, <1>7 DEF Ahead
<1> QED BY <1>2, <1>8 DEF Todo

\* Past a slot.
LEMMA TodoPassed ==
    ASSUME NEW low, NEW r \in RdStates, NEW k \in RdStates,
           k.bindex = r.bindex, k.dirpos = r.dirpos + 1
    PROVE  Todo(low, r) \ {<<low[r.bindex], r.dirpos + 1>>} \subseteq Todo(low, k)
<1> SUFFICES ASSUME NEW x \in Todo(low, r), x # <<low[r.bindex], r.dirpos + 1>>
             PROVE  x \in Todo(low, k)
  OBVIOUS
<1>1. x \in (Branch \ Dirless) \X (1 .. Slots) /\ x = <<x[1], x[2]>>
  BY DEF Todo
<1>2. PICK i \in 1 .. Len(low) :
        low[i] = x[1] /\ (i > r.bindex \/ (i = r.bindex /\ x[2] > r.dirpos))
  BY DEF Todo, Ahead
<1>3. x[2] \in Nat /\ r.dirpos \in Nat /\ r.bindex \in Nat
  BY <1>1, ReadDirAssumption DEF RdStates
<1>4. i = r.bindex => x[2] # r.dirpos + 1
  BY <1>1, <1>2
<1>5. i > k.bindex \/ (i = k.bindex /\ x[2] > k.dirpos)
  BY <1>2, <1>3, <1>4
<1>6. Ahead(low, k, x[1], x[2])
  BY <1>2, <1>5 DEF Ahead
<1> QED BY <1>1, <1>6 DEF Todo

\* At the end of a scan nothing is ahead.
LEMMA TodoEnd ==
    ASSUME NEW low \in Seq(Branch \cup {None}), low # <<>>, low[1] # None, NEW r \in RdStates,
           r.bindex > fbend(low)
    PROVE  Todo(low, r) = {}
<1> SUFFICES ASSUME NEW x \in Todo(low, r) PROVE FALSE
  OBVIOUS
<1>1. x[1] \in Branch
  BY DEF Todo
<1>2. PICK i \in 1 .. Len(low) :
        low[i] = x[1] /\ (i > r.bindex \/ (i = r.bindex /\ x[2] > r.dirpos))
  BY DEF Todo, Ahead
<1>3. low[i] # None
  BY <1>1, <1>2, MarkerAssumption
<1>4. i =< fbend(low) /\ fbend(low) \in 1 .. Len(low) /\ Len(low) \in Nat
  BY <1>3, FbendIs
<1>5. r.bindex \in Nat
  BY DEF RdStates
<1> QED BY <1>2, <1>4, <1>5

\* The slot that is read leads all that are still to be read.
LEMMA SlotLeads ==
    ASSUME TypeInv, NEW u \in Users, Reading(u)
    PROVE  Leads(table, <<file[u].low[file[u].rd.bindex], file[u].rd.dirpos + 1>>,
                 Todo(file[u].low, file[u].rd))
<1> DEFINE f == file[u]
           b == f.low[f.rd.bindex]
           x == <<b, f.rd.dirpos + 1>>
<1>1. /\ f \in Files /\ f.rd \in RdStates /\ CallGood(f)
      /\ f.rd.bindex \in 1 .. Len(f.low) /\ b \in Branch \ Dirless
      /\ f.rd.dirpos + 1 \in 1 .. Slots
  BY ReadingIs
<1> HIDE DEF f
<1>2. TableGood /\ Len(table) \in Nat /\ Len(f.low) \in Nat
  BY <1>1, TypesAre, TableIs DEF Files
<1>3. ASSUME NEW i \in 1 .. Len(f.low), f.low[i] # None
      PROVE  \E p \in 1 .. Len(table) : table[p] = f.low[i]
  <2>1. PICK p \in i .. Len(table) : table[p] = f.low[i]
    BY <1>1, <1>3 DEF CallGood
  <2> QED BY <1>2, <2>1
<1>4. PICK p \in 1 .. Len(table) : table[p] = b
  BY <1>1, <1>3, MarkerAssumption
<1>5. x \in Places(table)
  BY <1>1, <1>4 DEF Places, In
<1>6. ASSUME NEW y \in Todo(f.low, f.rd)
      PROVE  y \in Places(table) /\ (b = y[1] \/ x \in LeftOf(table, y[1]))
  <2>1. y \in (Branch \ Dirless) \X (1 .. Slots)
    BY DEF Todo
  <2>2. PICK i \in 1 .. Len(f.low) :
            f.low[i] = y[1] /\ (i > f.rd.bindex \/ i = f.rd.bindex)
    BY DEF Todo, Ahead
  <2>3. PICK q \in 1 .. Len(table) : table[q] = y[1]
    BY <1>3, <2>1, <2>2, MarkerAssumption
  <2>4. y \in Places(table)
    BY <2>1, <2>3 DEF Places, In
  <2>5. ASSUME i > f.rd.bindex PROVE x \in LeftOf(table, y[1])
    <3>1. p < q
      BY <1>1, <1>4, <2>2, <2>3, <2>5 DEF CallGood
    <3>2. Before(table, b, y[1])
      BY <1>4, <2>3, <3>1 DEF Before
    <3> QED BY <1>5, <3>2 DEF LeftOf
  <2> QED BY <2>2, <2>4, <2>5
<1>7. Leads(table, x, Todo(f.low, f.rd))
  BY <1>5, <1>6 DEF Leads
<1> QED BY <1>7 DEF f

-----------------------------------------------------------------------------
(* What others change.                                                     *)

LEMMA WritableIs ==
    ASSUME TableGood, NEW i \in 1 .. Len(table)
    PROVE  /\ WritableFrom(i) \in 1 .. i /\ WritableFrom(i) \in 1 .. Len(table)
           /\ table[WritableFrom(i)] \in Writable \ Dirless
<1> DEFINE S == {j \in 1 .. i : table[j] \in Writable \ Dirless}
<1>1. Len(table) \in Nat \ {0} /\ i \in Nat /\ 1 \in 1 .. i /\ S \subseteq 1 .. i
  BY TableIs
<1>2. 1 \in S
  BY <1>1 DEF TableGood
<1>3. PICK k \in S : \A j \in S : j =< k
  BY <1>1, <1>2, LastIs
<1>4. k \in 1 .. i /\ table[k] \in Writable \ Dirless
  BY <1>3
<1>5. \A j \in k + 1 .. i : table[j] \notin Writable \ Dirless
  <2> SUFFICES ASSUME NEW j \in k + 1 .. i, table[j] \in Writable \ Dirless PROVE FALSE
    OBVIOUS
  <2>1. j \in S
    BY <1>1, <1>4
  <2> QED BY <1>1, <1>3, <1>4, <2>1
<1> DEFINE w == WritableFrom(i)
<1>6. w \in 1 .. i /\ table[w] \in Writable \ Dirless
  BY <1>4, <1>5 DEF WritableFrom
<1> HIDE DEF w
<1>7. w \in 1 .. Len(table)
  BY <1>1, <1>6
<1> QED BY <1>6, <1>7 DEF w

\* Where the entries are after one of n has been written to branch i.
LEMMA WrittenIs ==
    ASSUME TypeInv, NEW i, i \in 1 .. Len(table), NEW n \in Names, NEW wh \in BOOLEAN,
           Write(i, n, wh)
    PROVE  /\ \A x \in Branch \X (1 .. Slots), m \in Names : m # n \/ x[1] # table[i] =>
                /\ Live(dir', x, m) <=> Live(dir, x, m)
                /\ White(dir', x, m) <=> White(dir, x, m)
           /\ \A x \in Branch \X (1 .. Slots) : x[1] = table[i] =>
                (Live(dir', x, n) => ~wh) /\ (White(dir', x, n) => wh)
           /\ \E x \in Branch \X (1 .. Slots) :
                x[1] = table[i] /\ IF wh THEN White(dir', x, n) ELSE Live(dir', x, n)
<1>1. table[i] \in Branch
  BY TypesAre, TableIs
<1>2. \A b \in Branch : b # table[i] => dir'[b] = dir[b]
  <2>1. PICK x : dir' = [dir EXCEPT ![table[i]] = x]
    BY DEF Write
  <2>2. dir \in [Branch -> SoundDirs]
    BY DEF TypeInv, TypeOK
  <2> QED BY <2>1, <2>2
<1>3. PICK k \in 1 .. Slots :
        /\ dir'[table[i]][k] = [name |-> n, wh |-> wh]
        /\ dir[table[i]][k] # NoEntry => dir[table[i]][k].name = n
        /\ \A s \in 1 .. Slots : s # k =>
                dir'[table[i]][s] =
                    IF dir[table[i]][s] # NoEntry /\ dir[table[i]][s].name = n
                    THEN NoEntry ELSE dir[table[i]][s]
  BY <1>1, WriteIs
<1> DEFINE e(m, w) == [name |-> m, wh |-> w]
<1>4. ASSUME NEW m \in Names, NEW w \in BOOLEAN
      PROVE  e(m, w) \in Entries /\ e(m, w).name = m /\ e(m, w).wh = w /\ e(m, w) # NoEntry
  BY MarkerAssumption DEF Entries
<1>5. ASSUME NEW s \in 1 .. Slots, NEW m \in Names, NEW w \in BOOLEAN, m # n
      PROVE  dir'[table[i]][s] = e(m, w) <=> dir[table[i]][s] = e(m, w)
  <2>1. e(m, w) # NoEntry /\ e(m, w).name # n /\ [name |-> n, wh |-> wh].name = n
    BY <1>4, <1>5
  <2> HIDE DEF e
  <2>2. CASE s = k
    BY <1>3, <2>1, <2>2
  <2>3. CASE s # k
    BY <1>3, <2>1, <2>3
  <2> QED BY <2>2, <2>3
<1>6. ASSUME NEW s \in 1 .. Slots, NEW w \in BOOLEAN, dir'[table[i]][s] = e(n, w)
      PROVE  w = wh
  <2>1. e(n, w) # NoEntry /\ e(n, w).name = n /\ e(n, w).wh = w
        /\ e(n, wh).wh = wh
    BY <1>4
  <2>2. dir'[table[i]][k] = e(n, wh)
    BY <1>3
  <2> HIDE DEF e
  <2>3. CASE s = k
    BY <1>6, <2>1, <2>2, <2>3
  <2>4. CASE s # k
    BY <1>3, <1>6, <2>1, <2>4
  <2> QED BY <2>3, <2>4
<1>7. ASSUME NEW x \in Branch \X (1 .. Slots), NEW m \in Names, m # n \/ x[1] # table[i]
      PROVE  /\ Live(dir', x, m) <=> Live(dir, x, m)
             /\ White(dir', x, m) <=> White(dir, x, m)
  <2>1. CASE x[1] = table[i]
    <3>1. \A w \in BOOLEAN : dir'[x[1]][x[2]] = e(m, w) <=> dir[x[1]][x[2]] = e(m, w)
      BY <1>5, <1>7, <2>1
    <3> QED BY <3>1 DEF Live, White
  <2>2. CASE x[1] # table[i]
    BY <1>2, <2>2 DEF Live, White
  <2> QED BY <2>1, <2>2
<1>8. ASSUME NEW x \in Branch \X (1 .. Slots), x[1] = table[i]
      PROVE  (Live(dir', x, n) => ~wh) /\ (White(dir', x, n) => wh)
  BY <1>6, <1>8 DEF Live, White
<1>9. \E x \in Branch \X (1 .. Slots) :
        x[1] = table[i] /\ IF wh THEN White(dir', x, n) ELSE Live(dir', x, n)
  <2> DEFINE x == <<table[i], k>>
  <2>1. x \in Branch \X (1 .. Slots) /\ x[1] = table[i] /\ x[2] = k
    BY <1>1
  <2>2. IF wh THEN White(dir', x, n) ELSE Live(dir', x, n)
    BY <1>3, <2>1 DEF Live, White
  <2> QED BY <2>1, <2>2
<1> QED BY <1>7, <1>8, <1>9

\* After the write n has its leftmost entry where it was written, if it had none
\* left of there.
LEMMA WrittenFirst ==
    ASSUME TypeInv, TypeInv', NEW i, i \in 1 .. Len(table), NEW n \in Names,
           NEW wh \in BOOLEAN, Write(i, n, wh), table[i] \notin Dirless,
           \A x \in LeftOf(table, table[i]) : ~Live(dir, x, n) /\ ~White(dir, x, n)
    PROVE  n \in Visible' <=> ~wh
<1>1. table' = table /\ dir' \in [Branch -> SoundDirs] /\ TableGood
  BY WriteIs, TypesAre
<1>2. PICK z \in Branch \X (1 .. Slots) :
        z[1] = table[i] /\ IF wh THEN White(dir', z, n) ELSE Live(dir', z, n)
  BY WrittenIs
<1>3. z \in Places(table)
  BY <1>2 DEF Places, In
<1>4. Unnamed(dir', table, z[1], n)
  <2>1. In(table, z[1])
    BY <1>2 DEF In
  <2>2. ASSUME NEW x \in LeftOf(table, z[1]) PROVE ~Live(dir', x, n) /\ ~White(dir', x, n)
    <3>1. x \in Places(table) /\ Before(table, x[1], table[i])
      BY <1>2, <2>2 DEF LeftOf
    <3>2. x \in Branch \X (1 .. Slots)
      BY <1>1, <3>1, PlacesAre
    <3>3. x[1] # table[i]
      <4>1. ~Before(table, table[i], table[i])
        <5>1. i \in Nat
          BY <1>1, TableIs
        <5> QED BY <1>1, <5>1, OrderIs
      <4> QED BY <3>1, <4>1
    <3>4. ~Live(dir, x, n) /\ ~White(dir, x, n)
      BY <1>2, <2>2
    <3> QED BY <3>2, <3>3, <3>4, WrittenIs
  <2> QED BY <2>1, <2>2 DEF Unnamed, Clear, Dark
<1>5. CASE wh = FALSE
  BY <1>1, <1>2, <1>3, <1>4, <1>5, ShownNext
<1>6. CASE wh = TRUE
  <2> SUFFICES ASSUME n \in Visible' PROVE FALSE
    BY <1>6
  <2>1. PICK x \in Places(table) : Live(dir', x, n) /\ Unnamed(dir', table, x[1], n)
    BY <1>1, ShownNext
  <2>2. x = z
    BY <1>1, <1>2, <1>3, <1>4, <1>6, <2>1, OneLeftmost
  <2> QED BY <1>2, <1>6, <2>1, <2>2, LiveOrWhite
<1> QED BY <1>5, <1>6

\* Entries of other names stay; n is either not promised any more or goes on to
\* show where it did, and it was there at some time.
LEMMA GoodWritten ==
    ASSUME NEW d, NEW e, NEW t, NEW n, NEW c \in Scans, NEW h, NEW seen,
           NEW T, T \subseteq Branch \X (1 .. Slots), Good(d, t, c, seen, T),
           \A x \in Branch \X (1 .. Slots), m \in Names : m # n =>
                (Live(e, x, m) <=> Live(d, x, m)) /\ (White(e, x, m) <=> White(d, x, m)),
           h.got = c.got, Owed(h) \subseteq Owed(c), c.ever \subseteq h.ever, n \in h.ever,
           n \in Owed(h) => \A x \in Branch \X (1 .. Slots) :
                (Live(d, x, n) => Live(e, x, n)) /\ (White(e, x, n) => White(d, x, n))
    PROVE  Good(e, t, h, seen, T)
<1>1. \A b : LeftOf(t, b) \subseteq Branch \X (1 .. Slots)
  BY DEF LeftOf, Places
<1>2. Places(t) \subseteq Branch \X (1 .. Slots)
  BY DEF Places
<1>3. ASSUME NEW m \in Owed(h), h.got[m] = 0
      PROVE  m \notin seen /\ Coming(e, t, m, T)
  <2>1. m \in Names /\ m \notin seen /\ Coming(d, t, m, T)
    <3>1. Owed(c) \subseteq Names
      BY DEF Scans, Owed
    <3> QED BY <1>3, <3>1 DEF Good, Promise
  <2>2. PICK x \in T : Live(d, x, m) /\ Clear(d, t, x[1], m)
    BY <2>1 DEF Coming
  <2>3. \A y \in Branch \X (1 .. Slots) :
            (Live(d, y, m) => Live(e, y, m)) /\ (White(e, y, m) => White(d, y, m))
    BY <1>3, <2>1
  <2>4. Live(e, x, m) /\ Clear(e, t, x[1], m)
    BY <1>1, <2>2, <2>3 DEF Clear
  <2> QED BY <2>1, <2>4 DEF Coming
<1>4. ASSUME OneToInsert, NEW m \in Names \ h.ever, m \notin seen
      PROVE  Veiled(e, t, m, T) /\ (~Full(t) => VeiledFirst(e, t, m, T))
  <2>1. Veiled(d, t, m, T) /\ (~Full(t) => VeiledFirst(d, t, m, T))
    BY <1>4 DEF Good, Denial
  <2>2. \A y \in Branch \X (1 .. Slots) :
            (Live(e, y, m) <=> Live(d, y, m)) /\ (White(e, y, m) <=> White(d, y, m))
    BY <1>4
  <2>3. \A b : (Dark(d, t, b, m) => Dark(e, t, b, m))
               /\ (Unnamed(d, t, b, m) => Unnamed(e, t, b, m))
    BY <1>1, <2>2 DEF Dark, Clear, Unnamed
  <2>4. Veiled(e, t, m, T)
    BY <1>2, <2>1, <2>2, <2>3 DEF Veiled
  <2>5. VeiledFirst(d, t, m, T) => VeiledFirst(e, t, m, T)
    BY <1>2, <2>2, <2>3 DEF VeiledFirst
  <2> QED BY <2>1, <2>4, <2>5
<1> QED BY <1>3, <1>4 DEF Good, Promise, Denial

\* The branch that is written is not to the right of the leftmost entry.
LEMMA WriteWhere ==
    ASSUME TypeInv, NEW n \in Names, NEW i, i \in 1 .. Len(table),
           Positioned(n) # {} => i = First(Positioned(n))
    PROVE  \A x \in LeftOf(table, table[WritableFrom(i)]) :
                ~Live(dir, x, n) /\ ~White(dir, x, n)
<1> DEFINE j == WritableFrom(i)
<1>1. TableGood /\ j \in 1 .. i /\ j \in 1 .. Len(table) /\ i \in Nat
  BY TypesAre, WritableIs, TableIs
<1> HIDE DEF j
<1> SUFFICES ASSUME NEW x \in LeftOf(table, table[j])
             PROVE  ~Live(dir, x, n) /\ ~White(dir, x, n)
  BY DEF j
<1>2. x \in Places(table) /\ Before(table, x[1], table[j])
  BY DEF LeftOf
<1>3. CASE Positioned(n) = {}
  BY <1>2, <1>3, LeftmostIs
<1>4. CASE Positioned(n) # {}
  <2>1. PICK y \in Places(table) : y[1] = table[i] /\ Unnamed(dir, table, y[1], n)
    BY <1>4, LeftmostIs
  <2>2. PICK p \in 1 .. Len(table) : table[p] = x[1]
    BY <1>1, <1>2, PlacesAre
  <2>3. p < j
    BY <1>1, <1>2, <2>2, OrderIs
  <2>4. p < i
    BY <1>1, <2>2, <2>3
  <2>5. x \in LeftOf(table, y[1])
    BY <1>1, <1>2, <2>1, <2>2, <2>4, OrderIs DEF LeftOf
  <2> QED BY <2>1, <2>5 DEF Unnamed, Clear, Dark
<1> QED BY <1>3, <1>4

LEMMA VisiblePosition ==
    ASSUME TypeInv, NEW n \in Visible
    PROVE  Positioned(n) # {} /\ First(Positioned(n)) \in 1 .. Len(table) /\ n \in Names
<1>1. Positioned(n) # {} /\ n \in Names
  BY DEF Visible
<1> QED BY <1>1, LeftmostIs

\* What a change of the directory leaves of promises and denials.
LEMMA ChangeGood ==
    ASSUME TypeInv, TypeInv', NEW n \in Names, create(n) \/ unlink(n) \/ copyup(n),
           NEW c \in Scans, c.steady \subseteq Visible, Visible \subseteq c.ever,
           NEW seen, NEW T, T \subseteq Branch \X (1 .. Slots),
           Good(dir, table, c, seen, T),
           NEW h, h.got = c.got, h.ever = c.ever \cup Visible',
           h.steady = c.steady \cap Visible', h.split = c.split
    PROVE  Good(dir', table', h, seen, T)
<1>a. Owed(h) \subseteq Owed(c) /\ Owed(h) \subseteq Visible /\ Owed(h) \subseteq Visible'
  BY DEF Owed
<1> DEFINE k == First(Positioned(n))
<1>1. CASE create(n)
  <2> DEFINE i == IF Positioned(n) = {} THEN fbstart(Lower) ELSE k
             j == WritableFrom(i)
  <2>1. n \notin Visible /\ Write(j, n, FALSE)
    BY <1>1 DEF create
  <2>2. i \in 1 .. Len(table) /\ (Positioned(n) # {} => i = k)
    <3>1. fbstart(Lower) = 1 /\ 1 \in 1 .. Len(table)
      BY TypesAre, LowerIs, FbstartIs, TableIs
    <3> QED BY <3>1, LeftmostIs
  <2> HIDE DEF i, k
  <2>3. j \in 1 .. Len(table) /\ table[j] \notin Dirless
        /\ \A x \in LeftOf(table, table[j]) : ~Live(dir, x, n) /\ ~White(dir, x, n)
    BY <2>2, TypesAre, WritableIs, WriteWhere DEF k
  <2> HIDE DEF j
  <2>4. n \in Visible' /\ table' = table
    BY <2>1, <2>3, WrittenFirst, WriteIs
  <2>5. \A x \in Branch \X (1 .. Slots), m \in Names : m # n =>
            (Live(dir', x, m) <=> Live(dir, x, m)) /\ (White(dir', x, m) <=> White(dir, x, m))
    <3>1. Write(j, n, FALSE) /\ j \in 1 .. Len(table) /\ FALSE \in BOOLEAN
      BY <2>1, <2>3
    <3> QED BY <3>1, WrittenIs
  <2>6. n \notin Owed(h) /\ n \in h.ever /\ Owed(h) \subseteq Owed(c) /\ c.ever \subseteq h.ever
    BY <1>a, <2>1, <2>4
  <2>7. Good(dir', table, h, seen, T)
    BY <2>5, <2>6, GoodWritten
  <2> QED BY <2>4, <2>7
<1>2. CASE unlink(n)
  <2> DEFINE j == WritableFrom(k)
  <2>1. n \in Visible /\ Write(j, n, TRUE)
    BY <1>2 DEF unlink
  <2>2. k \in 1 .. Len(table)
    BY <2>1, VisiblePosition
  <2>3. j \in 1 .. Len(table) /\ table[j] \notin Dirless
        /\ \A x \in LeftOf(table, table[j]) : ~Live(dir, x, n) /\ ~White(dir, x, n)
    BY <2>2, TypesAre, WritableIs, WriteWhere
  <2> HIDE DEF j, k
  <2>4. n \notin Visible' /\ table' = table
    BY <2>1, <2>3, WrittenFirst, WriteIs
  <2>5. \A x \in Branch \X (1 .. Slots), m \in Names : m # n =>
            (Live(dir', x, m) <=> Live(dir, x, m)) /\ (White(dir', x, m) <=> White(dir, x, m))
    BY <2>1, <2>3, WrittenIs
  <2>6. n \notin Owed(h) /\ n \in h.ever /\ Owed(h) \subseteq Owed(c) /\ c.ever \subseteq h.ever
    BY <1>a, <2>1, <2>4
  <2>7. Good(dir', table, h, seen, T)
    BY <2>5, <2>6, GoodWritten
  <2> QED BY <2>4, <2>7
<1>3. CASE copyup(n)
  <2> DEFINE j == WritableFrom(k)
  <2>1. n \in Visible /\ Write(j, n, FALSE) /\ table[k] \notin Writable
    BY <1>3 DEF copyup
  <2>2. k \in 1 .. Len(table)
    BY <2>1, VisiblePosition
  <2>3. j \in 1 .. Len(table) /\ j \in 1 .. k /\ table[j] \in Writable \ Dirless
    BY <2>2, TypesAre, WritableIs
  <2>4. PICK y \in Places(table) : y[1] = table[k] /\ Unnamed(dir, table, y[1], n)
    BY <2>1, VisiblePosition, LeftmostIs
  <2> HIDE DEF j, k
  <2>5. table' = table
    BY <2>1, WriteIs
  <2>6. \A x \in Branch \X (1 .. Slots), m \in Names : m # n =>
            (Live(dir', x, m) <=> Live(dir, x, m)) /\ (White(dir', x, m) <=> White(dir, x, m))
    BY <2>1, <2>3, WrittenIs
  <2>7. ASSUME NEW x \in Branch \X (1 .. Slots)
        PROVE  (Live(dir, x, n) => Live(dir', x, n)) /\ (White(dir', x, n) => White(dir, x, n))
    <3>1. CASE x[1] = table[j]
      <4>1. j < k /\ TableGood
        <5>1. j # k
          BY <2>1, <2>3
        <5> QED BY <2>2, <2>3, <5>1, TypesAre, TableIs
      <4>2. x \in LeftOf(table, y[1])
        <5>1. x \in Places(table)
          BY <2>3, <3>1 DEF Places, In
        <5> QED BY <2>2, <2>3, <2>4, <3>1, <4>1, <5>1, OrderIs DEF LeftOf
      <4>3. ~Live(dir, x, n)
        BY <2>4, <4>2 DEF Unnamed, Dark
      <4>4. ~White(dir', x, n)
        BY <2>1, <2>3, <3>1, WrittenIs
      <4> QED BY <4>3, <4>4
    <3>2. CASE x[1] # table[j]
      BY <2>1, <2>3, <3>2, WrittenIs
    <3> QED BY <3>1, <3>2
  <2>8. n \in h.ever /\ Owed(h) \subseteq Owed(c) /\ c.ever \subseteq h.ever
    BY <1>a, <2>1
  <2>9. Good(dir', table, h, seen, T)
    BY <2>6, <2>7, <2>8, GoodWritten
  <2> QED BY <2>5, <2>9
<1> QED BY <1>1, <1>2, <1>3

\* The order of the branches when b is inserted.
LEMMA InsertOrder ==
    ASSUME TypeInv, NEW b \in Branch, NEW i, i \in 1 .. Len(table) + 1, addbranch(b, i)
    PROVE  /\ ~In(table, b) /\ In(table', b)
           /\ \A a : In(table, a) => In(table', a)
           /\ \A a : In(table', a) /\ a # b => In(table, a)
           /\ \A a, c : a # b /\ c # b /\ Before(table', a, c) => Before(table, a, c)
<1>a. i \in 1 .. Len(table') /\ table'[i] = b
  BY BranchesMove
<1>b. \A p \in 1 .. Len(table) : table[p] # b
  BY BranchesMove
<1>z. CameFrom(i)
  BY BranchesMove
<1>1. \A q \in 1 .. Len(table') : q # i =>
            \E p \in 1 .. Len(table) : table[p] = table'[q]
                                       /\ q = IF p < i THEN p ELSE p + 1
  BY <1>z DEF CameFrom
<1>2. \A p \in 1 .. Len(table) :
        /\ p < i => p \in 1 .. Len(table') /\ table'[p] = table[p]
        /\ p >= i => p + 1 \in 1 .. Len(table') /\ table'[p + 1] = table[p]
  BY BranchesMove
<1>3. Len(table) \in Nat /\ i \in Nat
  BY TypesAre, TableIs
<1>4. ~In(table, b) /\ In(table', b)
  BY <1>a, <1>b DEF In
<1>5. ASSUME NEW a, In(table, a) PROVE In(table', a)
  <2>1. PICK p \in 1 .. Len(table) : table[p] = a
    BY <1>5 DEF In
  <2>2. p < i \/ p >= i
    BY <1>3
  <2> QED BY <1>2, <2>1, <2>2 DEF In
<1>6. ASSUME NEW a, In(table', a), a # b PROVE In(table, a)
  <2>1. PICK q \in 1 .. Len(table') : table'[q] = a
    BY <1>6 DEF In
  <2>2. PICK p \in 1 .. Len(table) : table[p] = table'[q]
    BY <1>1, <1>a, <1>6, <2>1
  <2> QED BY <2>1, <2>2 DEF In
<1>7. ASSUME NEW a, NEW c, a # b, c # b, Before(table', a, c) PROVE Before(table, a, c)
  <2>1. PICK p, q \in 1 .. Len(table') : p < q /\ table'[p] = a /\ table'[q] = c
    BY <1>7 DEF Before
  <2>2. PICK x \in 1 .. Len(table) : table[x] = a /\ p = IF x < i THEN x ELSE x + 1
    BY <1>1, <1>a, <1>7, <2>1
  <2>3. PICK y \in 1 .. Len(table) : table[y] = c /\ q = IF y < i THEN y ELSE y + 1
    BY <1>1, <1>a, <1>7, <2>1
  <2>4. x < y
    BY <1>3, <2>1, <2>2, <2>3
  <2> QED BY <2>2, <2>3, <2>4 DEF Before
<1> QED BY <1>4, <1>5, <1>6, <1>7

\* Positions only move to the right.
LEMMA TodoInserted ==
    ASSUME TypeInv, NEW b \in Branch, NEW i, i \in 1 .. Len(table) + 1, addbranch(b, i),
           NEW r \in RdStates
    PROVE  Todo(table, r) \subseteq Todo(table', r)
<1>1. \A p \in 1 .. Len(table) :
        /\ p < i => p \in 1 .. Len(table') /\ table'[p] = table[p]
        /\ p >= i => p + 1 \in 1 .. Len(table') /\ table'[p + 1] = table[p]
  BY BranchesMove
<1>2. Len(table) \in Nat /\ i \in Nat /\ r.bindex \in Nat
  BY TypesAre, TableIs DEF RdStates
<1> SUFFICES ASSUME NEW x \in Todo(table, r) PROVE x \in Todo(table', r)
  OBVIOUS
<1>3. x \in (Branch \ Dirless) \X (1 .. Slots)
  BY DEF Todo
<1>4. PICK p \in 1 .. Len(table) :
        table[p] = x[1] /\ (p > r.bindex \/ (p = r.bindex /\ x[2] > r.dirpos))
  BY DEF Todo, Ahead
<1>5. CASE p < i
  <2>1. Ahead(table', r, x[1], x[2])
    BY <1>1, <1>4, <1>5 DEF Ahead
  <2> QED BY <1>3, <2>1 DEF Todo
<1>6. CASE p >= i
  <2>1. p + 1 > r.bindex
    BY <1>2, <1>4
  <2>2. Ahead(table', r, x[1], x[2])
    BY <1>1, <1>4, <1>6, <2>1 DEF Ahead
  <2> QED BY <1>3, <2>2 DEF Todo
<1> QED BY <1>2, <1>5, <1>6

\* There is one branch to insert, if any.
LEMMA InsertFull ==
    ASSUME TypeInv, NEW b \in Branch, NEW i, i \in 1 .. Len(table) + 1, addbranch(b, i),
           OneToInsert, Branches
    PROVE  ~Full(table) /\ Full(table')
<1>1. ~In(table, b)
  BY InsertOrder
<1>2. ~Full(table) /\ table = Mounted
  BY <1>1 DEF Branches, Full
<1>3. ASSUME NEW a \in Branch PROVE In(table', a)
  <2>1. a = b \/ In(table, a)
    BY <1>1, <1>2 DEF OneToInsert
  <2> QED BY <2>1, InsertOrder
<1> QED BY <1>2, <1>3 DEF Full

\* A copy of a name is at one of its positions.
LEMMA CopyIs ==
    ASSUME TypeInv, NEW n \in Names, NEW x \in Places(table), Live(dir, x, n)
    PROVE  \E p \in Copies(n) : table[p] = x[1]
<1>1. dir \in [Branch -> SoundDirs] /\ TableGood
  BY TypesAre DEF TypeInv, TypeOK
<1>2. x \in Branch \X (1 .. Slots) /\ x[1] \notin Dirless
  BY <1>1, PlacesAre
<1>3. PICK p \in 1 .. Len(table) : table[p] = x[1]
  BY <1>1, PlacesAre
<1>4. x[2] \in Named(dir[x[1]], n)
  BY <1>1, <1>2, NamedIs
<1>5. p \in Positioned(n)
  BY <1>2, <1>3, <1>4 DEF Positioned
<1>6. ~IsWhiteout(p, n)
  <2> SUFFICES ASSUME IsWhiteout(p, n) PROVE FALSE
    OBVIOUS
  <2>1. PICK s \in Named(dir[x[1]], n) : dir[x[1]][s].wh
    BY <1>3 DEF IsWhiteout
  <2> DEFINE y == <<x[1], s>>
  <2>2. y \in Branch \X (1 .. Slots) /\ y[1] = x[1] /\ y[2] = s
    BY <1>2 DEF Named
  <2> HIDE DEF y
  <2>3. White(dir, y, n)
    BY <1>1, <2>1, <2>2, NamedIs
  <2>4. x = y
    BY <1>1, <1>2, <2>2, <2>3, OnceIs
  <2> QED BY <2>3, <2>4, LiveOrWhite
<1> QED BY <1>3, <1>5, <1>6 DEF Copies

\* A copy is left of the inserted branch just if it is at a lower position.
LEMMA InsertedLeft ==
    ASSUME TypeInv, TypeInv', NEW b \in Branch, NEW i, i \in 1 .. Len(table) + 1,
           addbranch(b, i), NEW p \in 1 .. Len(table)
    PROVE  Before(table', b, table[p]) <=> p >= i
<1>1. /\ i \in 1 .. Len(table') /\ table'[i] = b
      /\ p < i => p \in 1 .. Len(table') /\ table'[p] = table[p]
      /\ p >= i => p + 1 \in 1 .. Len(table') /\ table'[p + 1] = table[p]
  BY BranchesMove
<1>2. /\ \A q, r \in 1 .. Len(table') : table'[q] = table'[r] => q = r
      /\ p \in Nat /\ i \in Nat
  BY TypesAre, TableIs DEF TypeInv, TableGood
<1>3. CASE p >= i
  <2>1. i < p + 1
    BY <1>2, <1>3
  <2> QED BY <1>1, <1>3, <2>1 DEF Before
<1>4. CASE p < i
  <2>1. ASSUME NEW q \in 1 .. Len(table'), NEW r \in 1 .. Len(table'),
               table'[q] = b, table'[r] = table[p]
        PROVE  ~(q < r)
    <3>1. q = i /\ r = p
      BY <1>1, <1>2, <1>4, <2>1
    <3> QED BY <1>2, <1>4, <3>1
  <2> QED BY <1>2, <1>4, <2>1 DEF Before
<1> QED BY <1>2, <1>3, <1>4

\* The whiteouts of an inserted branch hide no copy of a name that still shows,
\* unless they come between its copies.
LEMMA UndividedLeft ==
    ASSUME TypeInv, TypeInv', NEW b \in Branch, NEW i, i \in 1 .. Len(table) + 1,
           addbranch(b, i), NEW n \in Names, n \in Visible', ~Divides(b, i, n),
           NEW s \in 1 .. Slots, White(dir, <<b, s>>, n), b \notin Dirless,
           NEW x \in Places(table), Live(dir, x, n)
    PROVE  ~Before(table', b, x[1])
<1> SUFFICES ASSUME Before(table', b, x[1]) PROVE FALSE
  OBVIOUS
<1>1. /\ dir \in [Branch -> SoundDirs] /\ dir' = dir
      /\ \E k \in Named(dir[b], n) : dir[b][k].wh
  <2> DEFINE w == <<b, s>>
  <2>1. w \in Branch \X (1 .. Slots) /\ w[1] = b /\ w[2] = s /\ White(dir, w, n)
    OBVIOUS
  <2>2. dir \in [Branch -> SoundDirs]
    BY DEF TypeInv, TypeOK
  <2> HIDE DEF w
  <2>3. s \in Named(dir[b], n) /\ dir[b][s].wh
    BY <2>1, <2>2, NamedIs
  <2> QED BY <2>2, <2>3, BranchesMove
<1>2. PICK p \in Copies(n) : table[p] = x[1]
  BY CopyIs
<1>3. p \in 1 .. Len(table) /\ p >= i
  BY <1>2, InsertedLeft DEF Copies, Positioned
<1>4. \A j \in Copies(n) : j \in 1 .. Len(table) /\ j >= i
  <2>1. \A j \in Copies(n) : ~(j < i)
    BY <1>1, <1>2, <1>3 DEF Divides
  <2>2. \A j \in Copies(n) : j \in 1 .. Len(table) /\ j \in Nat
    BY DEF Copies, Positioned
  <2> QED BY <2>1, <2>2
<1>5. PICK y \in Places(table') : Live(dir, y, n) /\ Unnamed(dir, table', y[1], n)
  BY <1>1, ShownNext
<1>6. CASE y[1] = b
  <2>1. y = <<b, y[2]>> /\ y \in Branch \X (1 .. Slots)
    BY <1>5, <1>6 DEF Places
  <2>2. <<b, s>> \in Branch \X (1 .. Slots)
    OBVIOUS
  <2>3. y = <<b, s>>
    BY <1>1, <1>5, <1>6, <2>1, <2>2, OnceIs
  <2> QED BY <1>5, <2>3, LiveOrWhite
<1>7. CASE y[1] # b
  <2>1. y \in Places(table)
    BY <1>5, <1>7, InsertOrder DEF Places
  <2>2. PICK q \in Copies(n) : table[q] = y[1]
    BY <1>5, <2>1, CopyIs
  <2>3. Before(table', b, y[1])
    BY <1>4, <2>2, InsertedLeft
  <2>4. <<b, s>> \in LeftOf(table', y[1])
    BY <2>3, InsertOrder DEF LeftOf, Places
  <2> QED BY <1>5, <2>4 DEF Unnamed, Clear
<1> QED BY <1>6, <1>7

\* What an inserted branch leaves of promises and denials.
LEMMA InsertGood ==
    ASSUME TypeInv, TypeInv', NEW b \in Branch, NEW i, i \in 1 .. Len(table) + 1,
           addbranch(b, i), Branches, NEW c \in Scans,
           NEW seen, NEW T, T \subseteq Places(table), NEW U, T \subseteq U,
           Good(dir, table, c, seen, T),
           NEW h, h.got = c.got, h.ever = c.ever \cup Visible', Owed(h) \subseteq Owed(c),
           \A n \in Owed(h), x \in Places(table), s \in 1 .. Slots :
                Live(dir, x, n) /\ White(dir, <<b, s>>, n) /\ b \notin Dirless =>
                    ~Before(table', b, x[1])
    PROVE  Good(dir', table', h, seen, U)
<1>1. dir' = dir /\ TableGood /\ TableGood'
  BY BranchesMove, TypesAre DEF TypeInv
<1>2. /\ ~In(table, b) /\ In(table', b)
      /\ \A a : In(table, a) => In(table', a)
      /\ \A a : In(table', a) /\ a # b => In(table, a)
      /\ \A a, e : a # b /\ e # b /\ Before(table', a, e) => Before(table, a, e)
  BY InsertOrder
<1>3. ASSUME NEW x \in Places(table), NEW y \in LeftOf(table', x[1]), y[1] # b
      PROVE  y \in LeftOf(table, x[1])
  <2>1. x[1] # b
    BY <1>2 DEF Places
  <2> QED BY <1>2, <1>3, <2>1 DEF LeftOf, Places
<1>4. \A x \in Places(table) : x \in Places(table')
  BY <1>2 DEF Places
<1>5. \A y \in Places(table') : y[1] # b => y \in Places(table)
  BY <1>2 DEF Places
<1>6. ASSUME NEW n \in Owed(h), h.got[n] = 0
      PROVE  n \notin seen /\ Coming(dir, table', n, U)
  <2>1. n \notin seen /\ Coming(dir, table, n, T)
    BY <1>6 DEF Good, Promise
  <2>2. PICK x \in T : Live(dir, x, n) /\ Clear(dir, table, x[1], n)
    BY <2>1 DEF Coming
  <2>3. ASSUME NEW y \in LeftOf(table', x[1]) PROVE ~White(dir, y, n)
    <3>1. CASE y[1] = b
      <4>1. /\ y = <<b, y[2]>> /\ y[2] \in 1 .. Slots
            /\ b \notin Dirless /\ Before(table', b, x[1])
        BY <2>3, <3>1 DEF LeftOf, Places
      <4>2. x \in Places(table)
        BY <2>2
      <4> QED BY <1>6, <2>2, <4>1, <4>2
    <3>2. CASE y[1] # b
      BY <1>3, <2>2, <2>3, <3>2 DEF Clear
    <3> QED BY <3>1, <3>2
  <2>4. Clear(dir, table', x[1], n)
    BY <1>2, <2>2, <2>3 DEF Clear
  <2> QED BY <2>1, <2>2, <2>4 DEF Coming
<1>7. ASSUME OneToInsert, NEW n \in Names \ h.ever, n \notin seen
      PROVE  Veiled(dir, table', n, U) /\ Full(table')
  <2>1. ~Full(table) /\ Full(table')
    BY <1>7, InsertFull
  <2>2. VeiledFirst(dir, table, n, T)
    BY <1>7, <2>1 DEF Good, Denial
  <2>3. \A x \in Places(table') :
            Live(dir, x, n) /\ Unnamed(dir, table', x[1], n) => n \in Visible'
    BY <1>1, <1>7, ShownNext
  <2>4. CASE \A x \in Places(table) : ~Live(dir, x, n) /\ ~White(dir, x, n)
    <3>1. ASSUME NEW x \in Places(table'), Live(dir, x, n) PROVE FALSE
      <4>1. x[1] = b
        BY <1>5, <2>4, <3>1
      <4>2. ASSUME NEW y \in LeftOf(table', b) PROVE ~Live(dir, y, n) /\ ~White(dir, y, n)
        <5>1. y[1] # b
          <6>1. PICK p \in 1 .. Len(table') : table'[p] = b
            BY <1>2 DEF In
          <6>2. ~Before(table', b, b)
            <7>1. \A p1, p2 \in 1 .. Len(table') : table'[p1] = table'[p2] => p1 = p2
              BY <1>1 DEF TableGood
            <7>2. \A p1 \in 1 .. Len(table') : ~ (p1 < p1)
              OBVIOUS
            <7> QED BY <7>1, <7>2 DEF Before
          <6> QED BY <4>2, <6>2 DEF LeftOf
        <5> QED BY <1>5, <2>4, <4>2, <5>1 DEF LeftOf
      <4>3. Unnamed(dir, table', b, n)
        BY <1>2, <4>2 DEF Unnamed, Clear, Dark
      <4>4. n \in Visible'
        BY <2>3, <3>1, <4>1, <4>3
      <4> QED BY <1>7, <4>4
    <3> QED BY <2>1, <3>1 DEF Veiled
  <2>5. ASSUME NEW x \in T, White(dir, x, n), Unnamed(dir, table, x[1], n)
        PROVE  Dark(dir, table', x[1], n)
    <3>1. ASSUME NEW y \in LeftOf(table', x[1]), Live(dir, y, n) PROVE FALSE
      <4>1. y[1] = b
        BY <1>3, <2>5, <3>1 DEF Unnamed, Dark
      <4>2. ASSUME NEW z \in LeftOf(table', b) PROVE ~Live(dir, z, n) /\ ~White(dir, z, n)
        <5>1. PICK p, q \in 1 .. Len(table') : p < q /\ table'[p] = z[1] /\ table'[q] = b
          BY DEF LeftOf, Before
        <5>2. PICK q2, r \in 1 .. Len(table') : q2 < r /\ table'[q2] = b /\ table'[r] = x[1]
          BY <3>1, <4>1 DEF LeftOf, Before
        <5>3. q = q2
          BY <1>1, <5>1, <5>2 DEF TableGood
        <5>4. p < r
          BY <5>1, <5>2, <5>3
        <5>5. z \in LeftOf(table', x[1])
          BY <5>1, <5>2, <5>4 DEF LeftOf, Before
        <5>6. z[1] # b
          <6>1. p # q
            BY <5>1
          <6> QED BY <1>1, <5>1, <6>1 DEF TableGood
        <5> QED BY <1>3, <2>5, <5>5, <5>6 DEF Unnamed, Dark, Clear
      <4>3. Unnamed(dir, table', b, n)
        BY <1>2, <4>2 DEF Unnamed, Clear, Dark
      <4>4. n \in Visible'
        BY <2>3, <3>1, <4>1, <4>3 DEF LeftOf
      <4> QED BY <1>7, <4>4
    <3>2. In(table', x[1])
      BY <1>2, <2>5 DEF Places
    <3> QED BY <3>1, <3>2 DEF Dark
  <2> QED BY <2>1, <2>2, <2>4, <2>5 DEF VeiledFirst, Veiled
<1> QED BY <1>1, <1>6, <1>7 DEF Good, Promise, Denial

-----------------------------------------------------------------------------
(* Whose scan a step goes on with.                                         *)

LEMMA SameShown ==
    ASSUME UNCHANGED <<dir, table>>
    PROVE  Visible' = Visible /\ (Branches => Branches')
BY DEF Visible, Positioned, IsWhiteout, Branches

\* No rdstate in the cache is for a user who holds one.
LEMMA Holder ==
    ASSUME Inv', NEW u \in Users, Holds(u)'
    PROVE  CachedWell(u)'
<1>1. ASSUME NEW i \in Cached' PROVE cache'[i].cookie # at'[u].cookie
  BY <1>1 DEF Inv, CookieInv, OneOwner, OwnMarks
<1> QED BY <1>1 DEF CachedWell

LEMMA MarkStart ==
    ASSUME Inv', NEW u \in Users, at'[u].cookie = 0
    PROVE  CachedWell(u)'
<1>1. ASSUME NEW i \in Cached' PROVE cache'[i].cookie # at'[u].cookie
  BY <1>1 DEF Inv, CookieInv, OneOwner
<1> QED BY <1>1 DEF CachedWell

\* A step of user u is none of another's, even if he leaves his rdstate behind.
LEMMA OneUser ==
    ASSUME Inv, ScanInv, UNCHANGED <<dir, table>>, NEW u \in Users,
           \A v \in Users : v # u =>
                file'[v] = file[v] /\ scan'[v] = scan[v] /\ at'[v] = at[v],
           \A i \in Cached' : \/ \E j \in Cached : cache'[i] = cache[j]
                              \/ Holds(u) /\ cache'[i] = Rd(u),
           HeldWell(u)', CachedWell(u)', ScanWell(u)'
    PROVE  ScanInv'
<1>1. Visible' = Visible /\ Branches'
  BY SameShown DEF ScanInv
<1>2. ASSUME NEW v \in Users, v # u PROVE HeldWell(v)' /\ CachedWell(v)' /\ ScanWell(v)'
  <2>1. HeldWell(v)'
    <3>1. Holds(v)' = Holds(v) /\ Rd(v)' = Rd(v) /\ List(v)' = List(v)
      BY <1>2 DEF Holds, Rd, List, IsOpen
    <3> QED BY <1>1, <1>2, <3>1 DEF ScanInv, HeldWell
  <2>2. ASSUME NEW i \in Cached', cache'[i].cookie = at'[v].cookie
        PROVE  GoesWell(dir, table, Visible, scan'[v], table, cache'[i])
    <3>1. PICK j \in Cached : cache'[i] = cache[j]
      BY <1>2, <2>2 DEF Inv, OwnMarks
    <3> QED BY <1>2, <2>2, <3>1 DEF ScanInv, CachedWell
  <2>3. CachedWell(v)'
    BY <1>1, <2>2 DEF CachedWell
  <2>4. ScanWell(v)'
    BY <1>1, <1>2 DEF ScanInv, ScanWell
  <2> QED BY <2>1, <2>3, <2>4
<1> QED BY <1>1, <1>2 DEF ScanInv

\* The directories that a file goes through.
ListOf(g) == IF g.call = "idle" THEN table ELSE g.low

\* User u goes on with the rdstate of g.
LEMMA GoingWell ==
    ASSUME Inv, Inv', ScanInv, UNCHANGED <<dir, table>>, NEW u \in Users,
           NEW g, g \in Files, g.rd \in RdStates, file' = [file EXCEPT ![u] = g],
           \A v \in Users : v # u => scan'[v] = scan[v] /\ at'[v] = at[v],
           \A i \in Cached' : \E j \in Cached : cache'[i] = cache[j],
           GoesWell(dir, table, Visible, scan'[u], ListOf(g), g.rd),
           scan'[u].steady \subseteq Visible, Outcome(scan'[u])
    PROVE  ScanInv'
<1>1. file'[u] = g /\ \A v \in Users : v # u => file'[v] = file[v]
  BY OnlyUser DEF Inv
<1>2. Visible' = Visible
  BY SameShown
<1>3. Holds(u)' /\ Rd(u)' = g.rd /\ List(u)' = ListOf(g)
  BY <1>1, MarkerAssumption DEF Holds, Rd, IsOpen, List, ListOf
<1>4. HeldWell(u)'
  BY <1>2, <1>3 DEF HeldWell
<1>5. CachedWell(u)'
  BY <1>3, Holder
<1>6. ScanWell(u)'
  BY <1>2 DEF ScanWell
<1> QED BY <1>1, <1>4, <1>5, <1>6, OneUser

\* The kernel goes on with a call; the scan remains as it is.
LEMMA CallWell ==
    ASSUME Inv, Inv', ScanInv, NEW u \in Users, IsOpen(u), file[u].rd # NoState,
           NEW g, g \in Files, g.rd \in RdStates, file' = [file EXCEPT ![u] = g],
           UNCHANGED <<dir, table, cache, scan>>,
           \A v \in Users : v # u => at'[v] = at[v],
           Todo(ListOf(file[u]), file[u].rd) \subseteq Todo(ListOf(g), g.rd),
           g.rd.seen = file[u].rd.seen
    PROVE  ScanInv'
<1> DEFINE f == file[u]
           r == f.rd
<1>1. GoesWell(dir, table, Visible, scan[u], ListOf(f), r)
  <2>1. Holds(u) /\ Rd(u) = r /\ List(u) = ListOf(f)
    BY DEF Holds, Rd, List, ListOf
  <2> QED BY <2>1 DEF ScanInv, HeldWell
<1>2. Good(dir, table, scan[u], g.rd.seen, Todo(ListOf(g), g.rd)) /\ Visible \subseteq scan[u].ever
  <2>1. Todo(ListOf(f), r) \subseteq Todo(ListOf(g), g.rd) /\ g.rd.seen = r.seen
    OBVIOUS
  <2> HIDE DEF f, r
  <2> QED BY <1>1, <2>1, GoodMore DEF GoesWell
<1>3. GoesWell(dir, table, Visible, scan'[u], ListOf(g), g.rd)
  BY <1>2 DEF GoesWell
<1>4. scan'[u].steady \subseteq Visible /\ Outcome(scan'[u])
  BY DEF ScanInv, ScanWell
<1>5. \A i \in Cached' : \E j \in Cached : cache'[i] = cache[j]
  BY DEF Cached
<1> QED BY <1>3, <1>4, <1>5, GoingWell

-----------------------------------------------------------------------------
(* The actions, one by one.                                                *)

LEMMA OpenWell ==
    ASSUME Inv, Inv', ScanInv, NEW u \in Users, unionfs_open(u) PROVE ScanInv'
<1>1. /\ file' = [file EXCEPT ![u] = Idle(Start, NoState)]
      /\ UNCHANGED <<dir, table, cookie, made, cache, at, scan, changes, oops>>
  BY DEF unionfs_open
<1>2. /\ file'[u] = Idle(Start, NoState) /\ \A v \in Users : v # u => file'[v] = file[v]
  BY <1>1, OnlyUser DEF Inv
<1>3. ~Holds(u)'
  BY <1>2, IdleIs DEF Holds, Rd, IsOpen
<1>4. Visible' = Visible
  BY <1>1, SameShown
<1>5. CachedWell(u)' /\ ScanWell(u)'
  BY <1>1, <1>4 DEF ScanInv, CachedWell, ScanWell, Cached
<1>6. HeldWell(u)'
  BY <1>3 DEF HeldWell
<1>7. \A i \in Cached' : \E j \in Cached : cache'[i] = cache[j]
  BY <1>1 DEF Cached
<1> QED BY <1>1, <1>2, <1>5, <1>6, <1>7, OneUser

\* A closed file leaves its rdstate where the user could find it.
LEMMA ReleaseWell ==
    ASSUME Inv, Inv', ScanInv, NEW u \in Users, unionfs_file_release(u) PROVE ScanInv'
<1>1. /\ IsOpen(u) /\ file[u].call = "idle"
      /\ cache' = IF Rd(u) = NoState THEN cache ELSE Append(cache, Rd(u))
      /\ file' = [file EXCEPT ![u] = Closed]
      /\ UNCHANGED <<dir, table, cookie, made, at, scan, changes, oops>>
  BY DEF unionfs_file_release, Rd, InCall
<1>2. /\ file'[u] = Closed /\ \A v \in Users : v # u => file'[v] = file[v]
  BY <1>1, OnlyUser DEF Inv
<1>3. HeldWell(u)'
  BY <1>2 DEF HeldWell, Holds, IsOpen
<1>4. Visible' = Visible
  BY <1>1, SameShown
<1>5. \A i \in Cached' : \/ \E j \in Cached : j = i /\ cache'[i] = cache[j]
                         \/ Holds(u) /\ cache'[i] = Rd(u)
  <2>1. CASE Rd(u) = NoState
    BY <1>1, <2>1 DEF Cached
  <2>2. CASE Rd(u) # NoState
    <3> DEFINE r == Rd(u)
    <3>1. cache' = Append(cache, r) /\ Holds(u)
      BY <1>1, <2>2 DEF Holds
    <3>2. \E S : cache \in Seq(S)
      BY DEF Inv, Shapes
    <3> HIDE DEF r
    <3>3. /\ \E S : Append(cache, r) \in Seq(S)
          /\ Len(cache) \in Nat /\ Len(Append(cache, r)) = Len(cache) + 1
          /\ \A i \in 1 .. Len(cache) : Append(cache, r)[i] = cache[i]
          /\ Append(cache, r)[Len(cache) + 1] = r
      BY <3>2, AppendIs, Zenon
    <3>4. ASSUME NEW i \in Cached'
          PROVE  (i \in Cached /\ cache'[i] = cache[i]) \/ cache'[i] = r
      BY <3>1, <3>3, <3>4 DEF Cached
    <3> QED BY <3>1, <3>4 DEF r
  <2> QED BY <2>1, <2>2
<1>6. CachedWell(u)'
  <2>1. ASSUME NEW i \in Cached', cache'[i].cookie = at'[u].cookie
        PROVE  GoesWell(dir, table, Visible, scan[u], table, cache'[i])
    <3>1. CASE \E j \in Cached : j = i /\ cache'[i] = cache[j]
      BY <1>1, <2>1, <3>1 DEF ScanInv, CachedWell
    <3>2. CASE Holds(u) /\ cache'[i] = Rd(u)
      <4>1. List(u) = table
        BY <1>1 DEF List
      <4> QED BY <3>2, <4>1 DEF ScanInv, HeldWell
    <3> QED BY <1>5, <3>1, <3>2
  <2> QED BY <1>1, <1>4, <2>1 DEF CachedWell
<1>7. ScanWell(u)'
  BY <1>1, <1>4 DEF ScanInv, ScanWell
<1> QED BY <1>1, <1>2, <1>3, <1>5, <1>6, <1>7, OneUser

LEMMA WriteInodeWell == ASSUME Inv, Inv', ScanInv, unionfs_write_inode PROVE ScanInv'
<1>1. /\ cache # <<>> /\ cache' = Tail(cache)
      /\ UNCHANGED <<dir, table, cookie, made, file, at, scan, changes, oops>>
  BY DEF unionfs_write_inode
<1>2. \A i \in Cached' : i + 1 \in Cached /\ cache'[i] = cache[i + 1]
  BY <1>1, TailIs DEF Inv, Shapes, Cached
<1>3. Visible' = Visible /\ Branches'
  BY <1>1, SameShown DEF ScanInv
<1>4. ASSUME NEW u \in Users PROVE HeldWell(u)' /\ CachedWell(u)' /\ ScanWell(u)'
  <2>1. HeldWell(u)'
    BY <1>1, <1>3 DEF ScanInv, HeldWell, Holds, Rd, List, IsOpen
  <2>2. CachedWell(u)'
    BY <1>1, <1>2, <1>3 DEF ScanInv, CachedWell
  <2>3. ScanWell(u)'
    BY <1>1, <1>3 DEF ScanInv, ScanWell
  <2> QED BY <2>1, <2>2, <2>3
<1> QED BY <1>3, <1>4 DEF ScanInv

\* Where a scan has come to its end, all it promised has been shown.
LEMMA EndWell ==
    ASSUME Inv, Inv', TypeInv, ScanInv, NEW u \in Users, EndOfScan(u) PROVE ScanInv'
<1> DEFINE f == file[u]
           c == scan[u]
<1>1. /\ IsOpen(u) /\ f.call = "loop" /\ f.rd.bindex > fbend(f.low)
      /\ file' = [file EXCEPT ![u] = Idle(DIREOF, NoState)]
      /\ at' = [at EXCEPT ![u] = DIREOF]
      /\ scan' = [scan EXCEPT ![u].done = TRUE]
      /\ UNCHANGED <<dir, table, cookie, made, cache, changes, oops>>
  BY DEF EndOfScan
<1>2. /\ file'[u] = Idle(DIREOF, NoState) /\ \A v \in Users : v # u => file'[v] = file[v]
  BY <1>1, OnlyUser DEF Inv
<1>3. /\ at'[u].cookie = 0 /\ \A v \in Users : v # u => at'[v] = at[v]
  BY <1>1, TypesAre DEF DIREOF
<1>4. c \in Scans /\ scan \in [Users -> Scans]
  BY TypesAre
<1>5. /\ scan'[u].steady = c.steady /\ scan'[u].split = c.split
      /\ scan'[u].ever = c.ever /\ scan'[u].got = c.got
      /\ \A v \in Users : v # u => scan'[v] = scan[v]
  BY <1>1, <1>4 DEF Scans
<1>6. Visible' = Visible
  BY <1>1, SameShown
<1>7. HeldWell(u)'
  BY <1>2, IdleIs DEF HeldWell, Holds, Rd, IsOpen
<1>8. CachedWell(u)'
  BY <1>3, MarkStart
<1>9. \A n \in Owed(c) : c.got[n] > 0
  <2>1. f \in Files /\ f.rd \in RdStates /\ CallGood(f)
    BY <1>1, CallMeans
  <2>2. f.low \in Seq(Branch \cup {None}) /\ f.low # <<>> /\ f.low[1] # None
    BY <2>1 DEF CallGood, Files
  <2>3. Todo(f.low, f.rd) = {}
    BY <1>1, <2>1, <2>2, TodoEnd
  <2>4. Holds(u) /\ Rd(u) = f.rd /\ List(u) = f.low
    BY <1>1 DEF Holds, Rd, List
  <2>5. Promise(dir, table, c, f.rd.seen, {})
    BY <2>3, <2>4 DEF ScanInv, HeldWell, GoesWell, Good
  <2>6. ASSUME NEW n \in Owed(c) PROVE c.got[n] # 0 /\ c.got[n] \in 0 .. 2
    <3>1. n \in Names
      BY <1>4 DEF Scans, Owed
    <3> QED BY <1>4, <2>5, <3>1 DEF Promise, Coming, Scans
  <2> QED BY <2>6
<1>10. ScanWell(u)'
  <2>1. Owed(scan'[u]) = Owed(c)
    BY <1>5 DEF Owed
  <2> QED BY <1>5, <1>6, <1>9, <2>1 DEF ScanInv, ScanWell, Outcome
<1>11. \A i \in Cached' : \E j \in Cached : cache'[i] = cache[j]
  BY <1>1 DEF Cached
<1> QED BY <1>1, <1>2, <1>3, <1>5, <1>7, <1>8, <1>10, <1>11, OneUser

LEMMA TellWell ==
    ASSUME Inv, Inv', TypeInv, ScanInv, NEW u \in Users, Tell(u) PROVE ScanInv'
<1>1. /\ IsOpen(u) /\ UNCHANGED <<dir, table, cookie, made, cache, file, scan, changes>>
      /\ \/ at' = [at EXCEPT ![u] = DIREOF]
         \/ Rd(u) # NoState /\ at' = [at EXCEPT ![u] = file[u].pos]
         \/ at' = at
  BY DEF Tell, Rd
<1>2. \A v \in Users : v # u => at'[v] = at[v]
  BY <1>1, TypesAre
<1>3. Visible' = Visible
  BY <1>1, SameShown
<1>4. HeldWell(u)' /\ ScanWell(u)'
  BY <1>1, <1>3 DEF ScanInv, HeldWell, ScanWell, Holds, Rd, List, IsOpen
<1>5. CachedWell(u)'
  <2>1. CASE at' = [at EXCEPT ![u] = DIREOF]
    <3>1. at'[u].cookie = 0
      BY <2>1, TypesAre DEF DIREOF
    <3> QED BY <3>1, MarkStart
  <2>2. CASE Rd(u) # NoState
    <3>1. Holds(u)'
      BY <1>1, <2>2 DEF Holds, Rd, IsOpen
    <3> QED BY <3>1, Holder
  <2>3. CASE at' = at
    BY <1>1, <1>3, <2>3 DEF ScanInv, CachedWell, Cached
  <2> QED BY <1>1, <2>1, <2>2, <2>3
<1>6. \A i \in Cached' : \E j \in Cached : cache'[i] = cache[j]
  BY <1>1 DEF Cached
<1> QED BY <1>1, <1>2, <1>4, <1>5, <1>6, OneUser

\* A new scan, in a file that has the new rdstate.
LEMMA NewWell ==
    ASSUME Inv, Inv', TypeInv, ScanInv, UNCHANGED <<dir, table, cache>>, NEW u \in Users,
           NEW g, g \in Files, g.rd = init_rdstate(Lower), g.call = "idle" \/ g.low = Lower,
           file' = [file EXCEPT ![u] = g], NewScan(u)
    PROVE  ScanInv'
<1> DEFINE r == init_rdstate(Lower)
           V == Visible
           c == [got |-> [n \in Names |-> 0], ever |-> V, steady |-> V, split |-> {},
                 done |-> FALSE]
<1>1. r \in RdStates /\ r.bindex = 1 /\ r.dirpos = 0 /\ r.seen = {}
  BY TypesAre, LowerIs, InitTypes
<1>2. /\ scan' = [scan EXCEPT ![u] = c] /\ at' = [at EXCEPT ![u] = Start]
  BY DEF NewScan
<1>3. /\ scan'[u] = c
      /\ \A v \in Users : v # u => scan'[v] = scan[v] /\ at'[v] = at[v]
  BY <1>2, TypesAre
<1>4. /\ c.ever = V /\ c.steady = V /\ c.done = FALSE
      /\ \A n \in Names : c.got[n] = 0
  OBVIOUS
<1>5. Places(table) \subseteq Todo(ListOf(g), r)
  <2>1. Places(table) \subseteq Todo(table, r)
    BY <1>1, AllAhead
  <2>2. Todo(table, r) \subseteq Todo(Lower, r)
    BY TodoLower
  <2> HIDE DEF r
  <2> QED BY <2>1, <2>2 DEF ListOf
<1> HIDE DEF r, c
<1>6. GoesWell(dir, table, V, c, ListOf(g), r)
  <2>1. Good(dir, table, c, {}, Todo(ListOf(g), r))
    <3>1. Owed(c) \subseteq V
      BY <1>4 DEF Owed
    <3> QED BY <1>4, <1>5, <3>1, NewGood
  <2> QED BY <1>1, <1>4, <2>1 DEF GoesWell
<1>7. c.steady \subseteq V /\ Outcome(c)
  BY <1>4 DEF Outcome
<1>8. \A i \in Cached' : \E j \in Cached : cache'[i] = cache[j]
  BY DEF Cached
<1>9. g.rd = r
  BY DEF r
<1> QED BY <1>1, <1>3, <1>6, <1>7, <1>8, <1>9, GoingWell

LEMMA SeekToStartWell ==
    ASSUME Inv, Inv', TypeInv, ScanInv, NEW u \in Users, SeekToStart(u) PROVE ScanInv'
<1> DEFINE r == init_rdstate(Lower)
           g == [file[u] EXCEPT !.rd = r]
<1>1. /\ IsOpen(u) /\ file[u].call = "idle" /\ file' = [file EXCEPT ![u].rd = r]
      /\ NewScan(u) /\ UNCHANGED <<dir, table, cache>>
  BY DEF SeekToStart, InCall
<1>2. r \in RdStates /\ file[u] \in Files
  BY <1>1, TypesAre, LowerIs, InitTypes, CallMeans
<1>3. r = init_rdstate(Lower)
  OBVIOUS
<1> HIDE DEF r
<1>4. g \in Files /\ g.call = "idle" /\ g.rd = r
  BY <1>1, <1>2 DEF Files
<1>5. file' = [file EXCEPT ![u] = g]
  BY <1>1
<1> HIDE DEF g
<1> QED BY <1>1, <1>3, <1>4, <1>5, NewWell

\* Found by its cookie, an rdstate goes on where it was left.
LEMMA SeekToCookieWell ==
    ASSUME Inv, Inv', TypeInv, ScanInv, NEW u \in Users, SeekToCookie(u) PROVE ScanInv'
<1>1. PICK k \in find_rdstate(at[u]) :
        /\ file' = [file EXCEPT ![u].rd = cache[k]]
        /\ cache' = Without(cache, k)
  BY DEF SeekToCookie
<1>2. /\ IsOpen(u) /\ file[u].call = "idle"
      /\ UNCHANGED <<dir, table, cookie, made, at, scan, changes, oops>>
  BY DEF SeekToCookie, InCall
<1>3. k \in Cached /\ cache[k].cookie = at[u].cookie /\ cache \in Seq(RdStates)
  BY TypesAre DEF find_rdstate, rdstate2offset, Cached
<1> DEFINE r == cache[k]
           g == [file[u] EXCEPT !.rd = r]
<1>4. r \in RdStates /\ file[u] \in Files
  BY <1>2, <1>3, CallMeans DEF Cached
<1>5. GoesWell(dir, table, Visible, scan[u], table, r)
  BY <1>3 DEF ScanInv, CachedWell
<1>6. file' = [file EXCEPT ![u].rd = r]
  BY <1>1
<1>7. \A i \in Cached' : \E j \in Cached : cache'[i] = cache[j]
  <2>1. \A i \in Cached' : /\ i < k => i \in Cached /\ cache'[i] = cache[i]
                           /\ i >= k => i + 1 \in Cached /\ cache'[i] = cache[i + 1]
    BY <1>1, <1>3, WithoutIs DEF Inv, Shapes, Cached
  <2>2. k \in Int /\ \A i \in Cached' : i \in Int
    BY <1>3 DEF Cached
  <2>3. \A i \in Cached' : i < k \/ i >= k
    BY <2>2
  <2> QED BY <2>1, <2>3
<1> HIDE DEF r
<1>8. g \in Files /\ g.call = "idle" /\ g.rd = r
  BY <1>2, <1>4 DEF Files
<1>9. file' = [file EXCEPT ![u] = g]
  BY <1>6
<1> HIDE DEF g
<1>10. GoesWell(dir, table, Visible, scan'[u], ListOf(g), g.rd)
  BY <1>2, <1>5, <1>8 DEF ListOf
<1>11. scan'[u].steady \subseteq Visible /\ Outcome(scan'[u])
  BY <1>2 DEF ScanInv, ScanWell
<1> QED BY <1>2, <1>4, <1>7, <1>8, <1>9, <1>10, <1>11, GoingWell

LEMMA CalledFile ==
    ASSUME TypeInv, NEW f \in Files, NEW room \in Nat, NEW r, r \in RdStates
    PROVE  /\ Called(f, Lower, room, r) \in Files /\ Called(f, Lower, room, r).low = Lower
           /\ Called(f, Lower, room, r).call = "loop" /\ Called(f, Lower, room, r).rd = r
<1> DEFINE l == Lower
<1>1. l \in Seq(Branch \cup {None})
  BY TypesAre, LowerIs
<1> HIDE DEF l
<1>2. /\ Called(f, l, room, r) \in Files /\ Called(f, l, room, r).low = l
      /\ Called(f, l, room, r).call = "loop" /\ Called(f, l, room, r).rd = r
  BY <1>1, CallTypes
<1> QED BY <1>2 DEF l

LEMMA StartCallWell ==
    ASSUME Inv, Inv', TypeInv, ScanInv, NEW u \in Users, NEW room \in Nat,
           StartCall(u, room)
    PROVE  ScanInv'
<1>1. IsOpen(u) /\ UNCHANGED <<dir, table, cache, changes, oops>>
  BY CallIs
<1>2. file[u] \in Files /\ file[u].call = "idle"
  BY <1>1, CallMeans DEF StartCall, Mutex, InCall
<1>3. CASE /\ file[u].rd # NoState /\ UNCHANGED <<cookie, made, at, scan>>
           /\ file' = [file EXCEPT ![u] = Called(file[u], Lower, room, file[u].rd)]
  <2> DEFINE r == file[u].rd
             g == Called(file[u], Lower, room, r)
  <2>1. r \in RdStates
    BY <1>1, <1>3, CallMeans
  <2>2. g \in Files /\ g.low = Lower /\ g.call = "loop" /\ g.rd = r
    BY <1>2, <2>1, CalledFile
  <2>3. Todo(ListOf(file[u]), r) \subseteq Todo(ListOf(g), r)
    BY <1>2, <2>2, TodoLower DEF ListOf
  <2>4. file' = [file EXCEPT ![u] = g]
    BY <1>3
  <2> HIDE DEF g
  <2> QED BY <1>1, <1>3, <2>1, <2>2, <2>3, <2>4, CallWell
<1>4. CASE /\ Allocates /\ NewScan(u)
           /\ file' = [file EXCEPT ![u] =
                            Called(file[u], Lower, room, init_rdstate(Lower))]
  <2> DEFINE g == Called(file[u], Lower, room, init_rdstate(Lower))
  <2>1. init_rdstate(Lower) \in RdStates 
    BY TypesAre, LowerIs, InitTypes
  <2>2. g \in Files /\ g.low = Lower /\ g.rd = init_rdstate(Lower)
    BY <1>2, <2>1, CalledFile
  <2>3. file' = [file EXCEPT ![u] = g]
    BY <1>4
  <2> HIDE DEF g
  <2> QED BY <1>1, <1>4, <2>2, <2>3, NewWell
<1> QED BY <1>3, <1>4, CallIs

LEMMA PickWell ==
    ASSUME Inv, Inv', TypeInv, ScanInv, NEW u \in Users, PickBranch(u) PROVE ScanInv'
<1> DEFINE f == file[u]
           t == Turned(f, "loop", NextBranch(f.rd))
           o == Opened(f)
<1>1. /\ IsOpen(u) /\ f \in Files /\ f.call = "loop" /\ CallGood(f)
      /\ f.rd \in RdStates /\ f.rd.bindex =< fbend(f.low)
      /\ \/ f.low[f.rd.bindex] = None /\ file' = [file EXCEPT ![u] = t]
         \/ f.low[f.rd.bindex] # None /\ file' = [file EXCEPT ![u] = o]
      /\ UNCHANGED <<dir, table, cookie, made, cache, at, scan, changes, oops>>
  BY PickIs
<1>2. f.rd # NoState
  BY <1>1, MarkerAssumption
<1>3. CASE f.low[f.rd.bindex] = None /\ file' = [file EXCEPT ![u] = t]
  <2>1. /\ t \in Files /\ t.low = f.low /\ t.call = "loop" /\ t.rd = NextBranch(f.rd)
        /\ NextBranch(f.rd) \in RdStates /\ NextBranch(f.rd).seen = f.rd.seen
    BY <1>1, NextTypes, TurnedTypes
  <2>2. Todo(f.low, f.rd) \subseteq Todo(f.low, NextBranch(f.rd))
    BY <1>1, <1>3, TodoNext
  <2>3. Todo(ListOf(f), f.rd) \subseteq Todo(ListOf(t), t.rd)
    BY <1>1, <2>1, <2>2 DEF ListOf
  <2>4. file' = [file EXCEPT ![u] = t]
    BY <1>3
  <2> HIDE DEF t
  <2> QED BY <1>1, <1>2, <2>1, <2>3, <2>4, CallWell
<1>4. CASE file' = [file EXCEPT ![u] = o]
  <2>1. o \in Files /\ o.low = f.low /\ o.call = "lower" /\ o.rd = f.rd
    BY <1>1, OpenedTypes
  <2>2. Todo(ListOf(f), f.rd) \subseteq Todo(ListOf(o), o.rd)
    BY <1>1, <2>1 DEF ListOf
  <2>3. file' = [file EXCEPT ![u] = o]
    BY <1>4
  <2> HIDE DEF o
  <2> QED BY <1>1, <1>2, <2>1, <2>2, <2>3, CallWell
<1> QED BY <1>1, <1>3, <1>4

\* A lower call that ends has read its directory to the end.
LEMMA ReturnWell ==
    ASSUME Inv, Inv', TypeInv, ScanInv, Chunk >= Slots, NEW u \in Users, LowerReturns(u)
    PROVE  ScanInv'
<1> DEFINE f == file[u]
<1>1. /\ IsOpen(u) /\ f \in Files /\ f.call = "lower" /\ f.rd \in RdStates
      /\ f.rd.dirpos = Slots
      /\ UNCHANGED <<dir, table, cookie, made, cache, at, scan, changes, oops>>
  BY ReturnIs
<1>2. PICK r \in {f.rd, NextBranch(f.rd)} :
        file' = [file EXCEPT ![u] = Turned(f, "loop", r)]
  BY ReturnIs
<1>3. r \in RdStates /\ r.seen = f.rd.seen
  BY <1>1, NextTypes
<1>4. Todo(f.low, f.rd) \subseteq Todo(f.low, r)
  BY <1>1, TodoNext
<1> DEFINE g == Turned(f, "loop", r)
<1>5. g \in Files /\ g.low = f.low /\ g.call = "loop" /\ g.rd = r
  BY <1>1, <1>3, TurnedTypes
<1>6. file' = [file EXCEPT ![u] = g] /\ f.rd # NoState
  BY <1>1, <1>2, MarkerAssumption
<1> HIDE DEF g
<1>7. Todo(ListOf(f), f.rd) \subseteq Todo(ListOf(g), g.rd)
  BY <1>1, <1>4, <1>5 DEF ListOf
<1> QED BY <1>1, <1>3, <1>5, <1>6, <1>7, CallWell

\* The buffer is full: the entry is still to be read.
LEMMA FullWell ==
    ASSUME Inv, Inv', TypeInv, ScanInv, NEW u \in Users, BufferFull(u) PROVE ScanInv'
<1> DEFINE f == file[u]
           r == Counted(f.rd)
           g == Idle(rdstate2offset(r), r)
<1>1. /\ Reading(u) /\ file' = [file EXCEPT ![u] = g]
      /\ at' = [at EXCEPT ![u] = rdstate2offset(r)]
      /\ UNCHANGED <<dir, table, cookie, made, cache, scan, changes, oops>>
  BY DEF BufferFull, Counted
<1>2. /\ IsOpen(u) /\ f \in Files /\ f.call = "lower" /\ f.rd \in RdStates /\ CallGood(f)
  BY <1>1, ReadingIs
<1>3. /\ r \in RdStates /\ r.bindex = f.rd.bindex /\ r.dirpos = f.rd.dirpos
      /\ r.seen = f.rd.seen
  BY <1>2, CountedTypes
<1> HIDE DEF r
<1>4. g \in Files /\ g.call = "idle" /\ g.rd = r
  BY <1>3, PositionTypes, IdleTypes
<1>5. \A v \in Users : v # u => at'[v] = at[v]
  BY <1>1, TypesAre
<1>6. Todo(f.low, f.rd) \subseteq Todo(table, r)
  <2>1. Todo(f.low, f.rd) \subseteq Todo(table, f.rd)
    BY <1>2, TodoTable
  <2>2. Todo(table, f.rd) = Todo(table, r)
    BY <1>3 DEF Todo, Ahead
  <2> QED BY <2>1, <2>2
<1> HIDE DEF g
<1>7. Todo(ListOf(f), f.rd) \subseteq Todo(ListOf(g), g.rd)
  BY <1>2, <1>4, <1>6 DEF ListOf
<1>8. f.rd # NoState
  BY <1>2, MarkerAssumption
<1> QED BY <1>1, <1>2, <1>3, <1>4, <1>5, <1>7, <1>8, CallWell

\* The slot that is read, and what is still to be read after it.
LEMMA SlotIs ==
    ASSUME Inv, TypeInv, ScanInv, NEW u \in Users, Reading(u),
           NEW k \in RdStates, k.bindex = file[u].rd.bindex,
           k.dirpos = file[u].rd.dirpos + 1
    PROVE  \E x \in Branch \X (1 .. Slots), T \in SUBSET (Branch \X (1 .. Slots)) :
                /\ Leads(table, x, T) /\ T \ {x} \subseteq Todo(file[u].low, k)
                /\ Good(dir, table, scan[u], file[u].rd.seen, T)
                /\ dir[x[1]][x[2]] = NextSlot(file[u])
<1> DEFINE f == file[u]
           b == f.low[f.rd.bindex]
           x == <<b, f.rd.dirpos + 1>>
           T == Todo(f.low, f.rd)
<1>1. /\ f.call = "lower" /\ f.rd \in RdStates /\ b \in Branch /\ f.rd.dirpos + 1 \in 1 .. Slots
  BY ReadingIs
<1>2. Leads(table, x, T)
  BY SlotLeads
<1>3. T \ {x} \subseteq Todo(f.low, k)
  BY <1>1, TodoPassed
<1>4. Good(dir, table, scan[u], f.rd.seen, T)
  <2>1. Holds(u) /\ Rd(u) = f.rd /\ List(u) = f.low
    BY <1>1 DEF Reading, Holds, Rd, List
  <2> QED BY <2>1 DEF ScanInv, HeldWell, GoesWell
<1>5. x \in Branch \X (1 .. Slots) /\ x[1] = b /\ x[2] = f.rd.dirpos + 1
  BY <1>1
<1>6. dir[x[1]][x[2]] = NextSlot(f)
  BY <1>5 DEF NextSlot
<1>7. T \in SUBSET (Branch \X (1 .. Slots))
  BY DEF Todo
<1> HIDE DEF x, T
<1> QED BY <1>2, <1>3, <1>4, <1>5, <1>6, <1>7

\* Past the slot, by one of three ways.
LEMMA PassedWell ==
    ASSUME Inv, Inv', TypeInv, ScanInv, NEW u \in Users, Reading(u),
           NEW g, g \in Files, g.rd \in RdStates, g.low = file[u].low, g.call = file[u].call,
           file' = [file EXCEPT ![u] = g],
           UNCHANGED <<dir, table, cookie, made, cache, at, changes, oops>>,
           \A v \in Users : v # u => scan'[v] = scan[v],
           Good(dir, table, scan'[u], g.rd.seen, Todo(g.low, g.rd)),
           scan'[u].ever = scan[u].ever, scan'[u].steady = scan[u].steady,
           Outcome(scan'[u])
    PROVE  ScanInv'
<1>1. file[u].call = "lower"
  BY DEF Reading
<1>2. Visible \subseteq scan[u].ever
  <2>1. Holds(u)
    BY <1>1 DEF Reading, Holds
  <2> QED BY <2>1 DEF ScanInv, HeldWell, GoesWell
<1>3. GoesWell(dir, table, Visible, scan'[u], ListOf(g), g.rd)
  BY <1>1, <1>2 DEF GoesWell, ListOf
<1>4. scan'[u].steady \subseteq Visible
  BY DEF ScanInv, ScanWell
<1>5. \A i \in Cached' : \E j \in Cached : cache'[i] = cache[j]
  BY DEF Cached
<1> QED BY <1>3, <1>4, <1>5, GoingWell

LEMMA SkipWell ==
    ASSUME Inv, Inv', TypeInv, ScanInv, NEW u \in Users, SkipEntry(u) PROVE ScanInv'
<1> DEFINE f == file[u]
           g == Passed(f)
           e == NextSlot(f)
<1>1. /\ Reading(u) /\ (e = NoEntry \/ e.name \in f.rd.seen)
      /\ file' = [file EXCEPT ![u] = g]
      /\ UNCHANGED <<dir, table, cookie, made, cache, at, scan, changes, oops>>
  BY DEF SkipEntry, Known
<1>2. /\ g \in Files /\ g.rd \in RdStates /\ g.rd.bindex = f.rd.bindex
      /\ g.rd.dirpos = f.rd.dirpos + 1 /\ g.rd.seen = f.rd.seen
      /\ g.low = f.low /\ g.call = f.call
  BY <1>1, ReadingIs, PassedTypes
<1> HIDE DEF g
<1>3. PICK x \in Branch \X (1 .. Slots), T \in SUBSET (Branch \X (1 .. Slots)) :
        /\ Leads(table, x, T) /\ T \ {x} \subseteq Todo(f.low, g.rd)
        /\ Good(dir, table, scan[u], f.rd.seen, T)
        /\ dir[x[1]][x[2]] = e
  BY <1>1, <1>2, SlotIs
<1>4. ASSUME NEW n \in Names, Live(dir, x, n) \/ White(dir, x, n) PROVE n \in f.rd.seen
  <2>1. e \in {[name |-> n, wh |-> FALSE], [name |-> n, wh |-> TRUE]}
    BY <1>3, <1>4 DEF Live, White
  <2> HIDE DEF e
  <2>2. e.name = n /\ e \in Entries
    <3>1. CASE e = [name |-> n, wh |-> FALSE]
      BY <3>1 DEF Entries
    <3>2. CASE e = [name |-> n, wh |-> TRUE]
      BY <3>2 DEF Entries
    <3> QED BY <2>1, <3>1, <3>2
  <2> QED BY <1>1, <2>2, MarkerAssumption
<1>5. scan[u] \in Scans
  BY TypesAre
<1>6. Good(dir, table, scan[u], f.rd.seen, Todo(f.low, g.rd))
  BY <1>3, <1>4, <1>5, SkipGood
<1>7. Good(dir, table, scan'[u], g.rd.seen, Todo(g.low, g.rd))
  BY <1>1, <1>2, <1>6
<1>8. Outcome(scan'[u])
  BY <1>1 DEF ScanInv, ScanWell
<1> QED BY <1>1, <1>2, <1>7, <1>8, PassedWell

\* A whiteout is noted.
LEMMA WhiteoutWell ==
    ASSUME Inv, Inv', TypeInv, ScanInv, NEW u \in Users, NoteWhiteout(u) PROVE ScanInv'
<1> DEFINE f == file[u]
           e == NextSlot(f)
           m == e.name
           g == Noted(f, m)
<1>1. /\ Reading(u) /\ e # NoEntry /\ m \notin f.rd.seen /\ e.wh
      /\ file' = [file EXCEPT ![u] = g]
      /\ UNCHANGED <<dir, table, cookie, made, cache, at, scan, changes, oops>>
  BY DEF NoteWhiteout, Known
<1>2. e \in Entries /\ m \in Names /\ e = [name |-> m, wh |-> TRUE]
  BY <1>1, ReadingIs DEF Entries
<1>3. /\ g \in Files /\ g.rd \in RdStates /\ g.rd.bindex = f.rd.bindex
      /\ g.rd.dirpos = f.rd.dirpos + 1 /\ g.rd.seen = f.rd.seen \cup {m}
      /\ g.low = f.low /\ g.call = f.call
  BY <1>1, <1>2, ReadingIs, NotedTypes
<1> HIDE DEF g
<1>4. PICK x \in Branch \X (1 .. Slots), T \in SUBSET (Branch \X (1 .. Slots)) :
        /\ Leads(table, x, T) /\ T \ {x} \subseteq Todo(f.low, g.rd)
        /\ Good(dir, table, scan[u], f.rd.seen, T)
        /\ dir[x[1]][x[2]] = e
  BY <1>1, <1>3, SlotIs
<1>5. White(dir, x, m)
  BY <1>2, <1>4 DEF White
<1> HIDE DEF m
<1>6. scan[u] \in Scans /\ dir \in [Branch -> SoundDirs]
  BY TypesAre DEF TypeInv, TypeOK
<1>7. ASSUME NEW n \in Names, Live(dir, x, n) \/ White(dir, x, n) PROVE n = m
  <2>1. ~Live(dir, x, n)
    BY <1>5, LiveOrWhite
  <2>2. [name |-> n, wh |-> TRUE] = [name |-> m, wh |-> TRUE]
    BY <1>5, <1>7, <2>1 DEF White
  <2>3. [name |-> n, wh |-> TRUE].name = n /\ [name |-> m, wh |-> TRUE].name = m
    OBVIOUS
  <2> QED BY <2>2, <2>3
<1>8. m \in Owed(scan[u]) => scan[u].got[m] # 0
  BY <1>2, <1>4, <1>5, <1>6, WhiteNotSteady
<1>9. Good(dir, table, scan[u], f.rd.seen \cup {m}, Todo(f.low, g.rd))
  BY <1>4, <1>6, <1>7, <1>8, NoteGood
<1>10. Good(dir, table, scan'[u], g.rd.seen, Todo(g.low, g.rd))
  BY <1>1, <1>3, <1>9
<1>11. Outcome(scan'[u])
  BY <1>1 DEF ScanInv, ScanWell
<1> QED BY <1>1, <1>3, <1>10, <1>11, PassedWell

\* A name is shown: it is one that was there at some time.
LEMMA ShowWell ==
    ASSUME Inv, Inv', TypeInv, ScanInv, NEW u \in Users, ShowEntry(u) PROVE ScanInv'
<1> DEFINE f == file[u]
           e == NextSlot(f)
           m == e.name
           g == Told(Noted(f, m))
<1>1. /\ Reading(u) /\ e \in Entries /\ ~e.wh /\ m \notin f.rd.seen /\ f.room > 0
      /\ file' = [file EXCEPT ![u] = g]
      /\ UNCHANGED <<dir, table, cookie, made, cache, at, changes, oops>>
  BY ShowIs
<1>2. /\ scan' \in [Users -> Scans]
      /\ \A v \in Users : v # u => scan'[v] = scan[v]
      /\ scan'[u].ever = scan[u].ever /\ Owed(scan'[u]) = Owed(scan[u])
      /\ scan'[u].done = scan[u].done
      /\ scan'[u].steady = scan[u].steady
      /\ scan'[u].got[m] > 0
      /\ \A n \in Names : n # m => scan'[u].got[n] = scan[u].got[n]
  BY ShowIs DEF Owed
<1>3. m \in Names /\ e = [name |-> m, wh |-> FALSE]
  BY <1>1 DEF Entries
<1>4. /\ g \in Files /\ g.rd \in RdStates /\ g.rd.bindex = f.rd.bindex
      /\ g.rd.dirpos = f.rd.dirpos + 1 /\ g.rd.seen = f.rd.seen \cup {m}
      /\ g.low = f.low /\ g.call = f.call
  <2> DEFINE p == Noted(f, m)
  <2>1. /\ p \in Files /\ p.rd \in RdStates /\ p.rd.bindex = f.rd.bindex
        /\ p.rd.dirpos = f.rd.dirpos + 1 /\ p.rd.seen = f.rd.seen \cup {m}
        /\ p.low = f.low /\ p.call = f.call /\ p.room = f.room
    BY <1>1, <1>3, ReadingIs, NotedTypes
  <2>2. p.room > 0
    BY <1>1, <2>1
  <2> HIDE DEF p
  <2>3. /\ Told(p) \in Files /\ Told(p).rd \in RdStates
        /\ Told(p).rd.bindex = p.rd.bindex /\ Told(p).rd.dirpos = p.rd.dirpos
        /\ Told(p).rd.seen = p.rd.seen /\ Told(p).low = p.low /\ Told(p).call = p.call
    BY <2>1, <2>2, ToldTypes
  <2> QED BY <2>1, <2>3 DEF p
<1> HIDE DEF g
<1>5. PICK x \in Branch \X (1 .. Slots), T \in SUBSET (Branch \X (1 .. Slots)) :
        /\ Leads(table, x, T) /\ T \ {x} \subseteq Todo(f.low, g.rd)
        /\ Good(dir, table, scan[u], f.rd.seen, T)
        /\ dir[x[1]][x[2]] = e
  BY <1>1, <1>4, SlotIs
<1>6. Live(dir, x, m)
  BY <1>3, <1>5 DEF Live
<1> HIDE DEF m
<1>7. scan[u] \in Scans /\ scan'[u] \in Scans /\ dir \in [Branch -> SoundDirs]
  BY <1>2, TypesAre DEF TypeInv, TypeOK
<1>8. ASSUME NEW n \in Names, Live(dir, x, n) \/ White(dir, x, n) PROVE n = m
  BY <1>6, <1>8, LiveOrWhite
<1>9. scan'[u].got[m] # 0
  BY <1>2, <1>3, <1>7 DEF Scans
<1>10. Good(dir, table, scan'[u], f.rd.seen \cup {m}, Todo(f.low, g.rd))
  BY <1>2, <1>5, <1>7, <1>8, <1>9, NoteGood
<1>11. Good(dir, table, scan'[u], g.rd.seen, Todo(g.low, g.rd))
  BY <1>4, <1>10
<1>12. OneToInsert => m \in scan[u].ever
  BY <1>1, <1>3, <1>5, <1>6, <1>7, LiveEver
<1>13. Outcome(scan'[u])
  <2>1. Outcome(scan[u])
    BY DEF ScanInv, ScanWell
  <2>2. Owed(scan[u]) \subseteq Names
    BY <1>7 DEF Scans, Owed
  <2>3. ASSUME scan'[u].done, NEW n \in Owed(scan'[u]) PROVE scan'[u].got[n] > 0
    BY <1>2, <2>1, <2>2, <2>3 DEF Outcome
  <2>4. ASSUME OneToInsert, NEW n \in Names, scan'[u].got[n] > 0 PROVE n \in scan'[u].ever
    BY <1>2, <1>12, <2>1, <2>4 DEF Outcome
  <2> QED BY <2>3, <2>4 DEF Outcome
<1> QED BY <1>1, <1>2, <1>4, <1>11, <1>13, PassedWell

\* The slots that are still to be read are places of the union.
LEMMA TodoPlaces ==
    ASSUME TypeInv, NEW u \in Users, Holds(u)
    PROVE  Todo(List(u), Rd(u)) \subseteq Places(table)
<1> SUFFICES ASSUME NEW x \in Todo(List(u), Rd(u)) PROVE x \in Places(table)
  OBVIOUS
<1>1. x \in (Branch \ Dirless) \X (1 .. Slots)
  BY DEF Todo
<1>2. PICK i \in 1 .. Len(List(u)) : List(u)[i] = x[1]
  BY DEF Todo, Ahead
<1>3. In(table, x[1])
  <2>1. CASE file[u].call = "idle"
    BY <1>2, <2>1 DEF List, In
  <2>2. CASE file[u].call # "idle"
    <3>1. CallGood(file[u]) /\ List(u) = file[u].low /\ file[u] \in Files
      BY <2>2, CallMeans DEF Holds, List
    <3>2. x[1] # None
      BY <1>1, MarkerAssumption
    <3>3. PICK p \in i .. Len(table) : table[p] = x[1]
      BY <1>2, <3>1, <3>2 DEF CallGood
    <3>4. p \in 1 .. Len(table)
      BY <3>3, TypesAre, TableIs
    <3> QED BY <3>3, <3>4 DEF In
  <2> QED BY <2>1, <2>2
<1> QED BY <1>1, <1>3 DEF Places

LEMMA TodoCached ==
    ASSUME NEW r PROVE Todo(table, r) \subseteq Places(table)
BY DEF Todo, Ahead, Places, In

\* Others create, unlink and copy up.
LEMMA ChangeWell ==
    ASSUME Inv, Inv', TypeInv, TypeInv', ScanInv,
           NEW n \in Names, create(n) \/ unlink(n) \/ copyup(n)
    PROVE  ScanInv'
<1>1. /\ UNCHANGED <<table, cookie, made, cache, file, at, oops>>
      /\ \A u \in Users :
            /\ scan'[u].got = scan[u].got /\ scan'[u].done = scan[u].done
            /\ scan'[u].ever = scan[u].ever \cup Visible'
            /\ scan'[u].steady = scan[u].steady \cap Visible'
            /\ scan'[u].split = scan[u].split
  <2>1. PICK i, wh : wh \in BOOLEAN /\ Write(i, n, wh)
    BY ChangeIs
  <2> QED BY <2>1, WriteIs
<1>2. Places(table) \subseteq Branch \X (1 .. Slots)
  BY DEF Places
<1>3. ASSUME NEW u \in Users, NEW low, NEW r, Todo(low, r) \subseteq Places(table),
             GoesWell(dir, table, Visible, scan[u], low, r)
      PROVE  GoesWell(dir', table', Visible', scan'[u], low, r)
  <2> DEFINE T == Todo(low, r)
             s == r.seen
             c == scan[u]
             h == scan'[u]
  <2>1. Good(dir, table, c, s, T) /\ Visible \subseteq c.ever
    BY <1>3 DEF GoesWell
  <2>2. c \in Scans /\ c.steady \subseteq Visible
    BY TypesAre DEF ScanInv, ScanWell
  <2>3. /\ h.got = c.got /\ h.ever = c.ever \cup Visible'
        /\ h.steady = c.steady \cap Visible' /\ h.split = c.split
    BY <1>1
  <2>4. T \subseteq Branch \X (1 .. Slots)
    BY <1>2, <1>3
  <2> HIDE DEF T, s, c, h
  <2>5. Good(dir', table', h, s, T)
    BY <2>1, <2>2, <2>3, <2>4, ChangeGood
  <2> QED BY <2>3, <2>5 DEF GoesWell, T, s, h
<1>4. ASSUME NEW u \in Users PROVE HeldWell(u)' /\ CachedWell(u)' /\ ScanWell(u)'
  <2>1. HeldWell(u)'
    <3>1. Holds(u)' = Holds(u) /\ Rd(u)' = Rd(u) /\ List(u)' = List(u)
      BY <1>1 DEF Holds, Rd, List, IsOpen
    <3>2. ASSUME Holds(u) PROVE GoesWell(dir', table', Visible', scan'[u], List(u), Rd(u))
      BY <1>3, <3>2, TodoPlaces DEF ScanInv, HeldWell
    <3> QED BY <3>1, <3>2 DEF HeldWell
  <2>2. CachedWell(u)'
    BY <1>1, <1>3, TodoCached DEF ScanInv, CachedWell, Cached
  <2>3. ScanWell(u)'
    <3>1. Owed(scan'[u]) \subseteq Owed(scan[u])
      BY <1>1 DEF Owed
    <3> QED BY <1>1, <3>1 DEF ScanInv, ScanWell, Outcome
  <2> QED BY <2>1, <2>2, <2>3
<1>5. Branches'
  BY <1>1 DEF ScanInv, Branches
<1> QED BY <1>4, <1>5 DEF ScanInv

\* A branch is inserted.
LEMMA InsertWell ==
    ASSUME Inv, Inv', TypeInv, TypeInv', ScanInv,
           NEW b \in Branch, NEW i, i \in 1 .. Len(table) + 1, addbranch(b, i)
    PROVE  ScanInv'
<1> DEFINE out == {n \in Names : Divides(b, i, n)}
<1>1. UNCHANGED <<dir, cookie, made, cache, file, at, oops>> /\ Watched(out)
  BY DEF addbranch
<1>2. out \in SUBSET Names /\ \A n \in Names : n \notin out => ~Divides(b, i, n)
  OBVIOUS
<1> HIDE DEF out
<1>3. \A u \in Users :
        /\ scan'[u].got = scan[u].got /\ scan'[u].done = scan[u].done
        /\ scan'[u].ever = scan[u].ever \cup Visible'
        /\ scan'[u].steady = scan[u].steady \cap Visible'
        /\ scan'[u].split = scan[u].split \cup out
  BY <1>1, <1>2, WatchedIs
<1>4. Branches /\ Branches'
  BY InsertFull DEF ScanInv, Branches
<1>5. ASSUME NEW u \in Users, NEW low, NEW now, NEW r, Todo(low, r) \subseteq Places(table),
             Todo(low, r) \subseteq Todo(now, r),
             GoesWell(dir, table, Visible, scan[u], low, r)
      PROVE  GoesWell(dir', table', Visible', scan'[u], now, r)
  <2> DEFINE T == Todo(low, r)
             U == Todo(now, r)
             s == r.seen
             c == scan[u]
             h == scan'[u]
  <2>1. Good(dir, table, c, s, T) /\ c \in Scans /\ T \subseteq Places(table) /\ T \subseteq U
    BY <1>5, TypesAre DEF GoesWell
  <2>2. h.got = c.got /\ h.ever = c.ever \cup Visible' /\ Owed(h) \subseteq Owed(c)
    BY <1>3 DEF Owed
  <2>3. ASSUME NEW n \in Owed(h), NEW x \in Places(table), NEW k \in 1 .. Slots,
               Live(dir, x, n), White(dir, <<b, k>>, n), b \notin Dirless
        PROVE  ~Before(table', b, x[1])
    <3>1. n \in Visible' /\ n \notin out
      BY <1>3, <2>3 DEF Owed
    <3>2. n \in Names
      BY <2>1, <2>2, <2>3 DEF Scans, Owed
    <3> QED BY <1>2, <2>3, <3>1, <3>2, UndividedLeft
  <2> HIDE DEF T, U, s, c, h
  <2>4. Good(dir', table', h, s, U)
    BY <1>4, <2>1, <2>2, <2>3, InsertGood
  <2> QED BY <2>2, <2>4 DEF GoesWell, U, s, h
<1>6. ASSUME NEW u \in Users PROVE HeldWell(u)' /\ CachedWell(u)' /\ ScanWell(u)'
  <2>1. HeldWell(u)'
    <3>1. Holds(u)' = Holds(u) /\ Rd(u)' = Rd(u)
      BY <1>1 DEF Holds, Rd, IsOpen
    <3>2. ASSUME Holds(u) PROVE Todo(List(u), Rd(u)) \subseteq Todo(List(u)', Rd(u))
      <4>1. CASE file[u].call = "idle"
        <5>1. Rd(u) \in RdStates
          BY <3>2, <4>1, CallMeans DEF Holds, Rd
        <5>2. List(u) = table /\ List(u)' = table'
          BY <1>1, <4>1 DEF List
        <5> QED BY <5>1, <5>2, TodoInserted
      <4>2. CASE file[u].call # "idle"
        BY <1>1, <4>2 DEF List
      <4> QED BY <4>1, <4>2
    <3>3. ASSUME Holds(u) PROVE GoesWell(dir', table', Visible', scan'[u], List(u)', Rd(u))
      BY <1>5, <3>2, <3>3, TodoPlaces DEF ScanInv, HeldWell
    <3> QED BY <3>1, <3>3 DEF HeldWell
  <2>2. CachedWell(u)'
    <3>1. \A j \in Cached : cache[j] \in RdStates
      BY TypesAre DEF Cached
    <3>2. \A j \in Cached : Todo(table, cache[j]) \subseteq Todo(table', cache[j])
      BY <3>1, TodoInserted
    <3> QED BY <1>1, <1>5, <3>2, TodoCached DEF ScanInv, CachedWell, Cached
  <2>3. ScanWell(u)'
    <3>1. Owed(scan'[u]) \subseteq Owed(scan[u])
      BY <1>3 DEF Owed
    <3> QED BY <1>3, <3>1 DEF ScanInv, ScanWell, Outcome
  <2> QED BY <2>1, <2>2, <2>3
<1> QED BY <1>4, <1>6 DEF ScanInv

-----------------------------------------------------------------------------
(* The specification.                                                      *)

LEMMA StartWell == ASSUME Init PROVE ScanInv
<1>1. ASSUME NEW u \in Users PROVE HeldWell(u) /\ CachedWell(u) /\ ScanWell(u)
  <2>1. ~Holds(u) /\ Cached = {}
    BY DEF Init, Holds, IsOpen, Cached
  <2>2. /\ scan[u].steady = {} /\ scan[u].done = FALSE
        /\ \A n \in Names : scan[u].got[n] = 0
    BY DEF Init
  <2> QED BY <2>1, <2>2 DEF HeldWell, CachedWell, ScanWell, Outcome
<1>2. Branches
  BY DEF Init, Branches
<1> QED BY <1>1, <1>2 DEF ScanInv

LEMMA StutterWell == ASSUME ScanInv, UNCHANGED vars PROVE ScanInv'
<1>1. UNCHANGED <<dir, table, cache, file, at, scan>>
  BY DEF vars
<1>2. Visible' = Visible /\ Branches'
  BY <1>1, SameShown DEF ScanInv
<1>3. ASSUME NEW u \in Users PROVE HeldWell(u)' /\ CachedWell(u)' /\ ScanWell(u)'
  <2>1. HeldWell(u)'
    BY <1>1, <1>2 DEF ScanInv, HeldWell, Holds, Rd, List, IsOpen
  <2>2. CachedWell(u)'
    BY <1>1, <1>2 DEF ScanInv, CachedWell, Cached
  <2>3. ScanWell(u)'
    BY <1>1, <1>2 DEF ScanInv, ScanWell
  <2> QED BY <2>1, <2>2, <2>3
<1> QED BY <1>2, <1>3 DEF ScanInv

Together == Inv /\ TypeInv /\ ScanInv

LEMMA TogetherKeep ==
    ASSUME Budget < MaxCookie, Chunk >= Slots, Together, [Next]_vars
    PROVE  Together'
<1>1. Inv /\ TypeInv /\ ScanInv
  BY DEF Together
<1>2. Inv' /\ TypeInv'
  BY <1>1, StepKeeps, TypesKeep
<1>3. ASSUME NEW u \in Users,
             \/ unionfs_open(u) \/ unionfs_file_release(u)
             \/ SeekToStart(u) \/ SeekToCookie(u) \/ Tell(u)
             \/ \E room \in 1 .. MaxRoom : StartCall(u, room)
             \/ Kernel(u)
      PROVE  ScanInv'
  <2>1. CASE unionfs_open(u) \/ unionfs_file_release(u)
    BY <1>1, <1>2, <2>1, OpenWell, ReleaseWell
  <2>2. CASE SeekToStart(u) \/ SeekToCookie(u) \/ Tell(u)
    BY <1>1, <1>2, <2>2, SeekToStartWell, SeekToCookieWell, TellWell
  <2>3. CASE \E room \in 1 .. MaxRoom : StartCall(u, room)
    <3>1. PICK room \in Nat : StartCall(u, room)
      BY <2>3, ReadDirAssumption
    <3> QED BY <1>1, <1>2, <3>1, StartCallWell
  <2>4. CASE Kernel(u)
    BY <1>1, <1>2, <2>4, PickWell, EndWell, ReturnWell, SkipWell, WhiteoutWell, ShowWell,
       FullWell DEF Kernel
  <2> QED BY <1>3, <2>1, <2>2, <2>3, <2>4
<1>4. ASSUME NEW n \in Names, create(n) \/ unlink(n) \/ copyup(n) PROVE ScanInv'
  BY <1>1, <1>2, <1>4, ChangeWell
<1>5. ASSUME NEW b \in Branch, NEW i, i \in 1 .. Len(table) + 1, addbranch(b, i)
      PROVE  ScanInv'
  BY <1>1, <1>2, <1>5, InsertWell
<1>6. ASSUME unionfs_write_inode PROVE ScanInv'
  BY <1>1, <1>2, <1>6, WriteInodeWell
<1>7. ASSUME UNCHANGED vars PROVE ScanInv'
  BY <1>1, <1>7, StutterWell
<1>8. ScanInv'
  BY <1>3, <1>4, <1>5, <1>6, <1>7 DEF Next
<1> QED BY <1>2, <1>8 DEF Together

LEMMA TogetherStart == ASSUME Init PROVE Together
BY InitGood, TypesStart, StartWell DEF Together

\* A scan that has come to its end, over however many calls, opens and closes of
\* the file, has shown every name that was visible all the time, unless a branch
\* with its whiteout was inserted between two branches that held a copy of it:
\* whatever others create, unlink and copy up, and wherever other branches are
\* inserted.  (In the case left out the code does miss the name: the violation of
\* AllShown.)  Cookies must not wrap, and a call of a lower readdir must get
\* through its directory.
THEOREM NothingIsMissed ==
    ASSUME Budget < MaxCookie, Chunk >= Slots
    PROVE  Spec => []NothingMissed
<1>1. Init => Together
  BY TogetherStart
<1>2. Together /\ [Next]_vars => Together'
  BY TogetherKeep
<1>3. Together => NothingMissed
  BY DEF Together, ScanInv, ScanWell, Outcome, NothingMissed, Owed
<1> QED BY <1>1, <1>2, <1>3, PTL DEF Spec

\* A scan shows no name that was not in the union at some time since it began,
\* on the same conditions and if there is no more than one branch to insert.
THEOREM NothingIsInvented ==
    ASSUME Budget < MaxCookie, Chunk >= Slots, OneToInsert
    PROVE  Spec => []NothingInvented
<1>1. Init => Together
  BY TogetherStart
<1>2. Together /\ [Next]_vars => Together'
  BY TogetherKeep
<1>3. Together => NothingInvented
  BY DEF Together, ScanInv, ScanWell, Outcome, NothingInvented
<1> QED BY <1>1, <1>2, <1>3, PTL DEF Spec
==============================================================================
