--------------------------- MODULE SafetyInstall ---------------------------
(***************************************************************************)
(* cc-safety-net-install.py: puts the reviewed cc-safety-net artifact into *)
(* the image (built from the pinned source) and, at every start of a       *)
(* container, from the image into the home.  Work is done in a temporary   *)
(* directory next to the destination, which the result is renamed to once  *)
(* its hashes are right.  Starts may overlap and be killed anywhere; a     *)
(* build, a download or a copy may come out other than reviewed.           *)
(*                                                                         *)
(* A tree is "absent", "part", "wrong" or "whole": whole has exactly the   *)
(* files of the manifest with their hashes.                                *)
(***************************************************************************)
EXTENDS Naturals

CONSTANTS
    Start,      \* starts of containers over one home
    MaxEdit,    \* bound: edits of the installed tree by others
    None

VARIABLES
    tree,       \* tree[p]: what is at p, of "image" and "home"
    work,       \* work[r]: r's temporary package; it outlives a killed run
    ipc,        \* ipc[r]
    seen,       \* auxiliary: seen[r]: what the entry that r printed pointed at
    altered     \* edits so far

installVars == <<tree, work, ipc, seen, altered>>

Builder == "builder"    \* install(image_build=True), in the image's Dockerfile
Run == Start \cup {Builder}
Place(r) == IF r = Builder THEN "image" ELSE "home"
Come == {"wrong", "whole"}

InstallInit ==
    /\ tree = [p \in {"image", "home"} |-> "absent"] /\ work = [r \in Run |-> "absent"]
    /\ ipc = [r \in Run |-> "new"] /\ seen = [r \in Run |-> None] /\ altered = 0

Move(r, pc) == ipc' = [ipc EXCEPT ![r] = pc]

\* the entry point is printed for main()'s caller
Prints(r) == Move(r, "done") /\ seen' = [seen EXCEPT ![r] = tree'[Place(r)]]

\* a failed check or call raises, and the temporary directory is removed
Raises(r) ==
    /\ ipc[r] \in {"image", "make", "check", "rename"} /\ Move(r, "failed")
    /\ work' = [work EXCEPT ![r] = "absent"] /\ UNCHANGED <<tree, seen, altered>>

\* verify_artifact(): no symlink, exactly the manifest's files, their hashes
Verified(t) == t = "whole"

\* A tree that is there already is verified, never repaired
Look(r) ==
    /\ ipc[r] = "new"
    /\ IF tree[Place(r)] = "absent"
         THEN Move(r, IF r = Builder THEN "make" ELSE "image") /\ UNCHANGED seen
         ELSE IF Verified(tree[Place(r)])
                THEN Move(r, "done") /\ seen' = [seen EXCEPT ![r] = tree[Place(r)]]
                ELSE Move(r, "failed") /\ UNCHANGED seen
    /\ UNCHANGED <<tree, work, altered>>

\* the image's artifact is trusted and verified before it is copied
LookAtImage(r) ==
    /\ ipc[r] = "image" /\ Verified(tree["image"]) /\ Move(r, "make")
    /\ UNCHANGED <<tree, work, seen, altered>>

\* clone, patch, runner and compiler for the image; copytree for the home
Make(r) ==
    /\ ipc[r] = "make"
    /\ \/ work' = [work EXCEPT ![r] = "part"] /\ UNCHANGED ipc
       \/ \E t \in Come : work' = [work EXCEPT ![r] = t] /\ Move(r, "check")
    /\ UNCHANGED <<tree, seen, altered>>

Check(r) ==
    /\ ipc[r] = "check" /\ Verified(work[r]) /\ Move(r, "rename")
    /\ UNCHANGED <<tree, work, seen, altered>>

\* os.rename() refuses a destination that is there by now and not empty
Rename(r) ==
    /\ ipc[r] = "rename" /\ tree[Place(r)] = "absent"
    /\ tree' = [tree EXCEPT ![Place(r)] = work[r]] /\ work' = [work EXCEPT ![r] = "absent"]
    /\ Prints(r) /\ UNCHANGED altered

Killed(r) ==
    /\ ipc[r] \in {"image", "make", "check", "rename"} /\ Move(r, "killed")
    /\ UNCHANGED <<tree, work, seen, altered>>

\* an agent of the home changes or removes what is installed there
Alter ==
    /\ altered < MaxEdit /\ altered' = altered + 1 /\ tree["home"] # "absent"
    /\ \E t \in {"absent", "part", "wrong"} : tree' = [tree EXCEPT !["home"] = t]
    /\ UNCHANGED <<work, ipc, seen>>

\* the image is built before a container starts from it
InstallNext ==
    \/ \E r \in Run :
        /\ r # Builder => ipc[Builder] = "done"
        /\ \/ Look(r) \/ LookAtImage(r) \/ Make(r) \/ Check(r) \/ Rename(r) \/ Raises(r) \/ Killed(r)
    \/ Alter

InstallSpec == InstallInit /\ [][InstallNext]_installVars

-----------------------------------------------------------------------------
\* Whatever start was killed, a half-made tree never stands at a destination, where
\* it would stop every later start; only an edit by others can break one.
NeverHalf ==
    /\ tree["image"] \in {"absent", "whole"}
    /\ altered = 0 => tree["home"] \in {"absent", "whole"}

\* An entry that was printed pointed at the reviewed artifact.
EntryReviewed == \A r \in Run : seen[r] \in {None, "whole"}
=============================================================================
