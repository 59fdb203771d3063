---------------------------- MODULE AtomicRename ----------------------------
(***************************************************************************)
(* What rename(2) and link(2) promise their users, whatever the file       *)
(* system is made of: one that reports success has exactly its effect, one *)
(* that reports an error has none, and a crash in the middle of one leaves *)
(* what was to be moved under the old name or under the new one.           *)
(***************************************************************************)
CONSTANTS
    Paths,      \* every path but the root
    Within,     \* Within[p]: what the directory p holds
    Twin,       \* Twin[q]: what q is called once the name above it is changed
    None,       \* no entry
    Dir         \* a directory

VARIABLES
    view,       \* view[p]: the object at p, or None
    last        \* how the last call ended

arvars == <<view, last>>

Subtree(p) == {p} \cup Within[p]

Moved(v, p) ==
    [q \in Paths |-> IF q \in Subtree(p) THEN None
                     ELSE IF Twin[q] \in Subtree(p) THEN v[Twin[q]] ELSE v[q]]

\* A call at p; v is the name space it is asked to make.
Call(op, p, v) ==
    \/ last' = [op |-> op, path |-> p, end |-> "ok"] /\ view' = v
    \/ last' = [op |-> op, path |-> p, end |-> "error"] /\ UNCHANGED view

\* A directory replaces an empty directory only, a file replaces a file.
Rename(p) ==
    /\ view[p] # None
    /\ Call("rename", p, Moved(view, p))
    /\ last'.end = "ok" /\ view[Twin[p]] # None =>
          /\ (view[p] = Dir) = (view[Twin[p]] = Dir)
          /\ \A c \in Within[Twin[p]] : view[c] = None

Link(p) ==
    /\ view[p] \notin {None, Dir} /\ view[Twin[p]] = None
    /\ Call("link", p, [view EXCEPT ![Twin[p]] = view[p]])

\* The machine stops during a call at p.  "torn": while data is being copied.
Crash(op, p) ==
    \E how \in {"crash", "torn"} :
        /\ last' = [op |-> op, path |-> p, end |-> how]
        /\ how = "crash" =>
            \A q \in Subtree(p) : view[q] # None => view[q] \in {view'[q], view'[Twin[q]]}
        /\ \A q \in Paths : q \notin Subtree(p) \cup Subtree(Twin[p]) =>
            view'[q] = view[q]

ARInit == last = [op |-> "mount", path |-> "root", end |-> "ok"]

ARNext ==
    \E p \in Paths :
        Rename(p) \/ Link(p) \/ \E op \in {"rename", "link"} : Crash(op, p)

ARSpec == ARInit /\ [][ARNext]_arvars
=============================================================================
