--------------------------- MODULE WorkspaceBoot ---------------------------
(***************************************************************************)
(* One start of an isolated workspace container: isolated-entrypoint.sh    *)
(* runs `isolated-config.py prepare`, sets up the project and the tools,   *)
(* runs `isolated-config.py apply`, checks packages and SSH and starts t3. *)
(* The home volume outlives the container, so a start finds whatever an    *)
(* interrupted or refused one left there, possibly of older inputs, and a  *)
(* volume may be attached to the other environment's pod.  What a kill of  *)
(* git or somebody in the workspace leaves in the home may also make every *)
(* later start refuse at one step, for good.                               *)
(*                                                                         *)
(* A set of reviewed inputs is a record: the environment it is for,        *)
(* whether validate() accepts its contents, whether its policy checks      *)
(* pass, its work contexts, its project's repository, and a revision.      *)
(* Each file the code replaces atomically is remembered as the inputs it   *)
(* was written from.  Inputs only change between two starts: both staging  *)
(* tools refuse while a pod exists.                                        *)
(***************************************************************************)
EXTENDS Integers, Sequences, FiniteSets

CONSTANTS
    Environments,   \* {"homelab", "work"}
    Inputs,         \* the input sets an owner may stage
    MaxFault,       \* bound: kills, and failures of what the start calls
    MaxStage,       \* bound: input sets staged after the first
    None

VARIABLES
    wenv,       \* T3_RUNTIME_VARIANT of this start
    wpc,        \* position in Program; 0 between two containers
    mounted,    \* /run/t3-inputs
    marker,     \* .config/t3-runtime/environment, or None
    imported,   \* the home holds files no start of ours wrote
    part,       \* part[f]: the inputs file f was written from, or None
    snapshot,   \* .config/t3-runtime/services.json: its inputs, or None
    kube,       \* ~/.kube/work/*.json: a set of [ctx, of]
    blocked,    \* steps of Program that something in the home makes refuse
    project,    \* the origin of ~/projects/<environment>, "torn" without one, or None
    litter,     \* directories with a temporary file a kill left behind
    written,    \* contexts install_work_kubeconfigs has written so far
    upsets,     \* kills and failures so far
    stages      \* input sets staged so far

workspaceVars == <<wenv, wpc, mounted, marker, imported, part, snapshot, kube,
                   blocked, project, litter, written, upsets, stages>>

\* Files of prepare (the bundle's links) and of apply, in the order they are replaced
Linked == <<"skills", "instructions">>
Configured == <<"policy", "safety", "checks", "mcp", "codex", "settings">>
File == {"skills", "instructions", "policy", "safety", "mcp", "codex", "settings"}

Program ==
    <<"clear", "validate", "mark">> \o Linked \o <<"publish", "git", "clone", "setup",
      "clear", "validate">> \o Configured \o <<"publish", "ready", "running">>

Up == wpc > 0
Doing(step) == Up /\ Program[wpc] = step
Running == Doing("running")

WorkspaceInit ==
    /\ wenv \in Environments /\ wpc = 0 /\ mounted \in Inputs
    /\ marker = None /\ imported \in BOOLEAN /\ part = [f \in File |-> None]
    /\ snapshot = None /\ kube = {} /\ litter = {} /\ written = {}
    /\ blocked = {} /\ project = None
    /\ upsets = 0 /\ stages = 0

Passed == wpc' = wpc + 1 /\ UNCHANGED <<wenv, mounted, imported, blocked, upsets, stages>>
Advance == Passed /\ UNCHANGED project

\* sys.exit under `set -e`: the container ends, the kubelet starts it again
Refuse ==
    /\ wpc' = 0 /\ written' = {}
    /\ UNCHANGED <<wenv, mounted, marker, imported, part, snapshot, kube, blocked, project, litter, upsets, stages>>

Start(e) ==
    /\ wpc = 0 /\ wpc' = 1 /\ wenv' = e
    /\ UNCHANGED <<mounted, marker, imported, part, snapshot, kube, blocked, project, litter, written, upsets, stages>>

\* clear_services_snapshot
Clear ==
    /\ Doing("clear") /\ Advance
    /\ snapshot' = IF wenv = "homelab" THEN None ELSE snapshot
    /\ UNCHANGED <<marker, part, kube, litter, written>>

\* The steps that what users and agents leave in the home can make refuse: a
\* snapshot or a directory that is not private, a cloud credential cache, a file in
\* a link's place with a backup beside it, a lock of git, another origin, a link or a
\* damaged file where a step reads or writes
Touchy == {Program[i] : i \in DOMAIN Program} \ {"running"}

Stuck == Up /\ Program[wpc] \in blocked /\ (Doing("clear") => wenv = "homelab")

Clean ==
    /\ ~imported /\ litter = {} /\ kube = {} /\ snapshot = None
    /\ \A f \in File : part[f] = None

\* Mutant of HomeMatches: any marker will do
HomeMatchesAny == marker # None \/ Clean

\* The end of validate(): the marker, or a clean home on the first boot
HomeMatches == IF marker # None THEN marker = wenv ELSE Clean

Valid == mounted.env = wenv /\ mounted.sound /\ HomeMatches

Validate ==
    /\ Doing("validate")
    /\ \/ Valid /\ Advance /\ UNCHANGED <<marker, part, snapshot, kube, litter, written>>
       \/ ~Valid /\ Refuse

\* write_private(marker)
Mark ==
    /\ Doing("mark") /\ Advance /\ marker' = wenv
    /\ UNCHANGED <<part, snapshot, kube, litter, written>>

\* private_config.install() links the bundle, apply() replaces each file it manages
Install ==
    /\ \E f \in File : Doing(f) /\ part' = [part EXCEPT ![f] = mounted]
    /\ Advance /\ UNCHANGED <<marker, snapshot, kube, litter, written>>

\* The policy acceptance checks run on the installed policy
Accept ==
    /\ Doing("checks")
    /\ \/ part["policy"].checks /\ Advance
          /\ UNCHANGED <<marker, part, snapshot, kube, litter, written>>
       \/ ~part["policy"].checks /\ Refuse

PublishServices ==
    /\ Doing("publish") /\ wenv = "homelab" /\ Advance /\ snapshot' = mounted
    /\ UNCHANGED <<marker, part, kube, litter, written>>

\* The names install_work_kubeconfigs tolerates in ~/.kube/work
Managed == {"json", "temporary"}

KubeNames ==
    (IF kube = {} THEN {} ELSE {"json"}) \cup (IF "kube" \in litter THEN {"temporary"} ELSE {})

\* install_work_kubeconfigs: one file per reviewed context ...
PublishContext ==
    /\ Doing("publish") /\ wenv = "work" /\ KubeNames \subseteq Managed
    /\ \E c \in mounted.contexts \ written :
         /\ kube' = {k \in kube : k.ctx # c} \cup {[ctx |-> c, of |-> mounted]}
         /\ written' = written \cup {c}
    /\ UNCHANGED <<wenv, wpc, mounted, marker, imported, part, snapshot, blocked, project, litter, upsets, stages>>

\* ... then every other name in the directory goes, an interrupted write's too
DropContexts ==
    /\ Doing("publish") /\ wenv = "work" /\ written = mounted.contexts
    /\ Advance /\ written' = {} /\ litter' = litter \ {"kube"}
    /\ kube' = {k \in kube : k.ctx \in written}
    /\ UNCHANGED <<marker, part, snapshot>>

\* git clone, when there is no .git yet; its origin must be the reviewed repository.
\* A clone killed after it set its origin passes, whatever it had fetched.
Clone ==
    /\ Doing("clone")
    /\ \/ /\ project \in {None, mounted.repo} /\ project' = mounted.repo
          /\ Passed /\ UNCHANGED <<marker, part, snapshot, kube, litter, written>>
       \/ project \notin {None, mounted.repo} /\ Refuse

\* git config, the safety net, pi-setup; later check-packages, SSH and the agent socket
SetUp ==
    /\ \E step \in {"git", "setup", "ready"} : Doing(step)
    /\ Advance /\ UNCHANGED <<marker, part, snapshot, kube, litter, written>>

\* One of these calls fails: nothing of it stays
Fail ==
    /\ \E step \in {"git", "clone", "setup", "ready"} : Doing(step)
    /\ upsets < MaxFault /\ upsets' = upsets + 1 /\ wpc' = 0
    /\ UNCHANGED <<wenv, mounted, marker, imported, part, snapshot, kube, blocked, project, litter, written, stages>>

\* The users of a running workspace
Use ==
    /\ Running /\ upsets < MaxFault /\ upsets' = upsets + 1
    /\ \E step \in Touchy : blocked' = blocked \cup {step}
    /\ UNCHANGED <<wenv, wpc, mounted, marker, imported, part, snapshot, kube, project, litter, written, stages>>

\* A kill; one inside write_private leaves its temporary file behind, one inside
\* git config ~/.gitconfig.lock, one inside git clone a .git
TempDir ==
    CASE Doing("mark") -> {"runtime"}
      [] Doing("publish") -> {IF wenv = "homelab" THEN "runtime" ELSE "kube"}
      [] OTHER -> {}

Kill ==
    /\ Up /\ upsets < MaxFault /\ upsets' = upsets + 1
    /\ wpc' = 0 /\ written' = {}
    /\ litter' \in {litter, litter \cup TempDir}
    /\ blocked' \in {blocked, blocked \cup {step \in {"git"} : Doing(step)}}
    /\ project' \in {project} \cup (IF Doing("clone") /\ project = None THEN {"torn", mounted.repo} ELSE {})
    /\ UNCHANGED <<wenv, mounted, marker, imported, part, snapshot, kube, stages>>

\* The owner stages other inputs while no pod exists
Stage ==
    /\ wpc = 0 /\ stages < MaxStage /\ stages' = stages + 1
    /\ mounted' \in Inputs \ {mounted}
    /\ UNCHANGED <<wenv, wpc, marker, imported, part, snapshot, kube, blocked, project, litter, written, upsets>>

StartUp ==
    \/ Stuck /\ Refuse
    \/ ~Stuck /\ (\/ Clear \/ Validate \/ Mark \/ Install \/ Accept \/ PublishServices
                  \/ PublishContext \/ DropContexts \/ Clone \/ SetUp)

WorkspaceNext == (\E e \in Environments : Start(e)) \/ StartUp \/ Fail \/ Use \/ Kill \/ Stage

\* The kubelet restarts the container and the scripts run on; the calls of SetUp and
\* Clone fail at most MaxFault times
WorkspaceFairness ==
    /\ WF_workspaceVars(\E e \in Environments : Start(e))
    /\ WF_workspaceVars(StartUp)

WorkspaceSpec == WorkspaceInit /\ [][WorkspaceNext]_workspaceVars /\ WorkspaceFairness

WorkspaceAssumption ==
    /\ Environments = {"homelab", "work"} /\ MaxFault \in Nat /\ MaxStage \in Nat
    /\ \A i \in Inputs : /\ i.env \in Environments /\ i.sound \in BOOLEAN
                         /\ i.checks \in BOOLEAN /\ IsFiniteSet(i.contexts)
                         /\ i.repo \notin {None, "torn"}
    /\ None \notin Inputs /\ None \notin Environments

-----------------------------------------------------------------------------
\* A home belongs to the environment that first started on it: nothing in it was
\* ever written from the other environment's inputs, whichever pod mounted it,
\* and files somebody else brought are never built upon.
HomeOwned ==
    /\ marker # None => ~imported
    /\ \A f \in File : part[f] # None => part[f].env = marker
    /\ snapshot # None => snapshot.env = marker /\ marker = "homelab"
    /\ \A k \in kube : k.of.env = marker /\ marker = "work"

\* A start that has passed its clearing shows the agent's tools no service list
\* except the one of the inputs it validated itself.
SnapshotCurrent ==
    (Up /\ wenv = "homelab" /\ ~Doing("clear")) => snapshot \in {None, mounted}

\* t3 only runs on a home whose every managed file, service list and context
\* file is of the mounted inputs, which passed their checks, and whose project is
\* a clone of theirs, however many interrupted starts on older inputs went before.
RunningWhole ==
    Running =>
        /\ mounted.sound /\ mounted.checks /\ \A f \in File : part[f] = mounted
        /\ project = mounted.repo
        /\ wenv = "homelab" => snapshot = mounted
        /\ wenv = "work" => /\ kube = {[ctx |-> c, of |-> mounted] : c \in mounted.contexts}
                            /\ "kube" \notin litter

\* The three together: what no start breaks, on whatever home it finds.
WorkspaceWhole == HomeOwned /\ SnapshotCurrent /\ RunningWhole

\* However a start of an enrolled home was interrupted, the next ones on acceptable
\* inputs of its environment reach t3, unless the project is not the reviewed one or
\* something in the home refuses them: a git lock or a torn clone a kill left, or
\* what its users did.  These stay until somebody removes them.
Acceptable == mounted.env = marker /\ mounted.sound /\ mounted.checks
Free == blocked = {} /\ project \in {None, mounted.repo}
Enrolled == marker # None /\ wenv = marker /\ Acceptable /\ Free
EnrolledStarts == Enrolled ~> (Running \/ ~Enrolled)
=============================================================================
