------------------------------ MODULE Archive -------------------------------
(***************************************************************************)
(* What packing into an archive promises: a run either ends with the tree  *)
(* it was asked for, or with the old one, or with an archive that nobody   *)
(* takes for a tree; and only an interrupted run ends otherwise than asked.*)
(***************************************************************************)
EXTENDS Naturals

CONSTANTS
    None,               \* the archive cannot be read
    Merged(_, _, _, _)  \* Merged(old, host, job, how): the tree that a run makes

VARIABLES
    host,   \* the host's files, of which those that cannot be read are left out
    tree,   \* what a reader of the archive finds
    old,    \* what it found before the run
    job,    \* the runs started so far
    how,    \* how the last one was called
    busy,   \* is a run under way
    broken  \* the last one has been broken off: interrupted, failed or killed

archive == <<host, tree, old, job, how, busy, broken>>

ArchiveInit ==
    tree = None /\ old = None /\ job = 0 /\ how = "create" /\ ~busy /\ ~broken

\* While a run is under way the archive cannot be read.
Begin ==
    /\ ~busy /\ busy' /\ ~broken'
    /\ tree' = None /\ old' = tree /\ UNCHANGED host
    /\ job' = job + 1
    /\ how' \in {"create", "append", "becomes"}
    /\ how' = "create" \/ tree # None

Stop(t) == busy /\ ~busy' /\ tree' = t /\ UNCHANGED <<host, old, job, how>>

\* A run that is left alone ends with what it was asked for.
Finish == ~broken /\ ~broken' /\ Stop(Merged(old, host, job, how))

\* One that is broken off ends at once with no archive, or goes on to put the
\* old one back, which may be broken off again.
Abandon == broken' /\ Stop(None)
BreakOff == busy /\ how # "create" /\ broken' /\ UNCHANGED <<host, tree, old, job, how, busy>>
Undo == broken /\ broken' /\ how # "create" /\ Stop(old)

\* An archive that cannot be read is not appended to.
Refuse ==
    ~busy /\ job' = job + 1 /\ tree = None /\ UNCHANGED <<host, tree, old, how, busy, broken>>

ArchiveNext == Begin \/ Finish \/ Abandon \/ BreakOff \/ Undo \/ Refuse

ArchiveSpec == ArchiveInit /\ [][ArchiveNext]_archive
=============================================================================
