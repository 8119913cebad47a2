----------------------------- MODULE TempUnlink -----------------------------
(***************************************************************************)
(* temp-redundant-name-unlink.py --apply on the TrueNAS box: unlinks the   *)
(* names under the qBittorrent temp directory whose inode the library also *)
(* names.  Imports, deletions and qBittorrent (external) change names      *)
(* between any two of its system calls, and while `find` walks.            *)
(***************************************************************************)
EXTENDS Integers, FiniteSets

CONSTANTS
    TempPath, LibPath,  \* names under temp, and outside it
    Inode,
    Batch,              \* BATCH
    MaxChange,          \* bound: changes others make
    None

\* the job looks below one directory, and the library is outside it
UnlinkAssumption ==
    /\ TempPath # {} /\ TempPath \cap LibPath = {}
    /\ None \notin Inode /\ "todo" \notin Inode \cup {None}

VARIABLES
    inodeOf,    \* inodeOf[p]: the inode p names, or None
    holds,      \* the paths under a torrent's content_path
    bad,        \* a torrent entered missingFiles/error since the first list
    upc,        \* where main() stands
    held,       \* held_paths() of this round
    walked,     \* walked[p]: what find saw at p; "todo" where it was not yet
    rows,       \* the rest of the batch: inodes, with what the walk saw of them
    names,      \* the temp names of the current row still to do
    attempted,
    changes,    \* changes made so far
    touched,    \* auxiliary: names changed since the last counterpart()
    claimed,    \* auxiliary: <<p, i>>: p has named i and been held since the torrent list
    lost,       \* auxiliary: inodes whose last name the job removed, unraced
    taken       \* auxiliary: claimed inodes the job took a name from, unraced

unlinkVars == <<inodeOf, holds, bad, upc, held, walked, rows, names, attempted, changes, touched, claimed, lost, taken>>
aux == <<touched, claimed, lost, taken>>

Path == TempPath \cup LibPath
Names(i) == {p \in Path : inodeOf[p] = i}

UnlinkInit ==
    /\ inodeOf \in {f \in [Path -> Inode \cup {None}] : f[CHOOSE p \in TempPath : TRUE] # None}
    /\ holds \in {{}, {CHOOSE p \in TempPath : TRUE}}
    /\ bad = FALSE /\ upc = "list" /\ held = {}
    /\ walked = [p \in Path |-> "todo"]
    /\ rows = {} /\ names = {} /\ attempted = {} /\ changes = 0
    /\ touched = FALSE /\ claimed = {} /\ lost = {} /\ taken = {}

\* qbt_torrents(), bad_hashes(), held_paths(): the first list is the baseline;
\* the run stops if a torrent broke since
List ==
    /\ upc = "list"
    /\ IF bad /\ attempted # {} THEN upc' = "aborted" /\ UNCHANGED <<bad, held, walked, claimed>>
       ELSE /\ upc' = "walk" /\ bad' = FALSE /\ held' = holds
            /\ walked' = [p \in Path |-> "todo"]
            /\ claimed' = {<<p, inodeOf[p]>> : p \in holds}
    /\ UNCHANGED <<inodeOf, holds, rows, names, attempted, changes, touched, lost, taken>>

\* walk(): find meets one name after the other, in its own order
Walk(p) ==
    /\ upc = "walk" /\ walked[p] = "todo"
    /\ walked' = [walked EXCEPT ![p] = inodeOf[p]]
    /\ UNCHANGED <<inodeOf, holds, bad, upc, held, rows, names, attempted, changes, aux>>

Seen(i, paths) == {p \in paths : walked[p] = i}

\* classify(): named under temp and outside it, and no name in use
Redundant(i) == Seen(i, TempPath) # {} /\ Seen(i, LibPath) # {} /\ Seen(i, Path) \cap held = {}

Fresh(i) == i \notin attempted

\* the first BATCH candidates this run has not worked on; none: done
Choose ==
    /\ upc = "walk" /\ \A p \in Path : walked[p] # "todo"
    /\ LET todo == {i \in Inode : Redundant(i) /\ Fresh(i)} IN
       IF todo = {} THEN upc' = "done" /\ UNCHANGED rows
       ELSE /\ rows' \in {r \in SUBSET todo : Cardinality(r) = IF Cardinality(todo) < Batch THEN Cardinality(todo) ELSE Batch}
            /\ upc' = "row"
    /\ UNCHANGED <<inodeOf, holds, bad, held, walked, names, attempted, changes, aux>>

\* rows[.] is worked on in the order of the batch: names # {} is the current one
Current == CHOOSE i \in rows : TRUE

NextRow ==
    /\ upc = "row"
    /\ IF rows = {} THEN upc' = "list" /\ UNCHANGED <<names, attempted>>
       ELSE /\ upc' = "keep"
            /\ names' = Seen(Current, TempPath)
            /\ attempted' = attempted \cup {Current}
    /\ UNCHANGED <<inodeOf, holds, bad, held, walked, rows, changes, aux>>

\* Mutant of Counterpart: the path is taken as the proof
CounterpartPath == \E p \in Seen(Current, LibPath) : inodeOf[p] # None

\* counterpart(): a library name of the walk still names this inode, and is
\* not its only one
Counterpart == \E p \in Seen(Current, LibPath) : inodeOf[p] = Current /\ Cardinality(Names(Current)) > 1

RowDone == upc' = "row" /\ rows' = rows \ {Current} /\ names' = {}

\* re-checked before each name
Keep ==
    /\ upc = "keep"
    /\ touched' = FALSE
    /\ IF names # {} /\ Counterpart THEN upc' = "check" /\ UNCHANGED <<rows, names>> ELSE RowDone
    /\ UNCHANGED <<inodeOf, holds, bad, held, walked, attempted, changes, claimed, lost, taken>>

Name == CHOOSE p \in names : TRUE

\* unlink_temp_name(): still the inode that was measured?
Check ==
    /\ upc = "check"
    /\ IF inodeOf[Name] = Current THEN upc' = "unlink" /\ UNCHANGED names
       ELSE upc' = "keep" /\ names' = names \ {Name}
    /\ UNCHANGED <<inodeOf, holds, bad, held, walked, rows, attempted, changes, aux>>

\* os.unlink(); a name that is gone by now ends the run with a traceback
Unlink ==
    /\ upc = "unlink"
    /\ LET i == inodeOf[Name] IN
       IF i = None THEN upc' = "aborted" /\ UNCHANGED <<inodeOf, names, lost, taken>>
       ELSE /\ inodeOf' = [inodeOf EXCEPT ![Name] = None]
            /\ lost' = IF Names(i) = {Name} /\ ~touched THEN lost \cup {i} ELSE lost
            /\ taken' = IF ~touched /\ \E c \in claimed : c[2] = i THEN taken \cup {i} ELSE taken
            /\ upc' = "keep" /\ names' = names \ {Name}
    /\ UNCHANGED <<holds, bad, held, walked, rows, attempted, changes, touched, claimed>>

-----------------------------------------------------------------------------
(* everybody else (external) *)

Change(newNames, newHolds) ==
    /\ changes < MaxChange /\ changes' = changes + 1 /\ upc \notin {"done", "aborted"}
    /\ inodeOf' = newNames /\ holds' = newHolds
    /\ touched' = (touched \/ newNames # inodeOf)
    /\ claimed' = {c \in claimed : c[1] \in newHolds /\ newNames[c[1]] = c[2]}
    /\ UNCHANGED <<upc, held, walked, rows, names, attempted, lost, taken>>

\* an import links or replaces a name, or renames one away; a deletion
Link(p, q) == inodeOf[q] # None /\ p # q /\ Change([inodeOf EXCEPT ![p] = inodeOf[q]], holds) /\ UNCHANGED bad
Rename(p, q) == inodeOf[q] # None /\ p # q /\ Change([inodeOf EXCEPT ![p] = inodeOf[q], ![q] = None], holds) /\ UNCHANGED bad
Remove(p) == inodeOf[p] # None /\ Change([inodeOf EXCEPT ![p] = None], holds) /\ UNCHANGED bad
Create(p) == \E i \in Inode : Names(i) = {} /\ Change([inodeOf EXCEPT ![p] = i], holds) /\ UNCHANGED bad
\* a torrent is added, moved or removed, or breaks
Hold(p) == Change(inodeOf, (holds \cup {p}) \ (holds \cap {p})) /\ UNCHANGED bad
Breaks == ~bad /\ bad' = TRUE /\ Change(inodeOf, holds)

Job == List \/ Choose \/ NextRow \/ Keep \/ Check \/ Unlink \/ \E p \in Path : Walk(p)
Others == Breaks \/ \E p \in Path : Remove(p) \/ Create(p) \/ Hold(p) \/ \E q \in Path : Link(p, q) \/ Rename(p, q)
UnlinkNext == Job \/ Others
UnlinkFairness == WF_unlinkVars(Job)
UnlinkSpec == UnlinkInit /\ [][UnlinkNext]_unlinkVars /\ UnlinkFairness

-----------------------------------------------------------------------------
(* Properties *)

\* "unlink a temp name only if THAT inode still has a live name outside temp":
\* the job never removes the last name of an inode, whatever was linked,
\* moved, replaced or deleted between the walk and the re-stat, unless a name
\* changed in the breath between the re-stat and the unlink.
LastNameKept == lost = {}

\* An inode that one torrent has held under one name since the torrent list
\* of the round loses no name, even if find met its other names as they moved.
HeldKept == taken = {}

\* What the library and the torrents may rely on, together.
UnlinkSafe == LastNameKept /\ HeldKept

\* The run ends: a candidate that was skipped is not taken up again.
UnlinkEnds == (upc = "walk") ~> (upc \in {"done", "aborted"})
=============================================================================
